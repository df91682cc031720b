------------------------ MODULE SessionServerProofs ------------------------
(***************************************************************************)
(* For any number of sessions, clients and requests in flight: reviews     *)
(* stay consistent and executions apart, and a client that sends one       *)
(* request at a time has each of them take effect as a whole.              *)
(***************************************************************************)
EXTENDS SessionServer, TLAPS, SequenceTheorems

-----------------------------------------------------------------------------
\* The inductive invariant.  What a session shows was once a copy in a request
\* or a checkpoint, so every state anywhere has to be a good one; what a polite
\* client is owed rests on who can write to the state of its session: only
\* requests of that session hold its handle, and there is one at a time, which
\* works on a copy of the state as it still is.

Edit     == Edits \cup {NoEdits}
Event    == [kind : {"checkpoint_created"}, request : Nat]
              \cup [kind : {"intervention_edited"}, edits : Edit]
              \cup [kind : {"decision_recorded"}, request : Nat, verdict : Verdicts]
Reviewed == [paused : BOOLEAN, request : Nat,
             decision : [request : Nat, verdict : Verdicts \cup {"none"}],
             edits : Edit, patched : Edit, log : Seq(Event)]
Input    == Inputs \cup {NoInput}
State    == [review : Reviewed, input : Input, output : Input]
Call     == [op : Ops, at : {"found", "running", "saving"}, session : Sessions,
             handle : Handles, copy : State]
Saved    == [session : Sessions, op : Ops, state : State]

Busy(c) == calls[c] # Idle

Typed ==
  /\ Live \subseteq Sessions /\ \A s \in Live : sessions[s] \in Handles
  /\ states \in [Handles -> State]
  /\ checkpoints \in Seq(Saved)
  /\ calls \in [Calls -> Call \cup {Idle}]
  /\ lastRequest \in Nat

\* A state has one session, and requests hold their own session's state or one
\* that is no session's any more.
Owned ==
  /\ \A s, t \in Live : sessions[s] = sessions[t] => s = t
  /\ \A c \in Calls : Busy(c) =>
       /\ calls[c].session \in Live
       /\ \A s \in Live : sessions[s] = calls[c].handle => s = calls[c].session

Good(state) == Consistent(state.review) /\ state.output = state.input

AllGood ==
  /\ \A h \in Handles : Good(states[h])
  /\ \A k \in DOMAIN checkpoints : Good(checkpoints[k].state)
  /\ \A c \in Calls : Busy(c) =>
       /\ Consistent(calls[c].copy.review)
       /\ calls[c].at # "running" => calls[c].copy.output = calls[c].copy.input

\* The copy an execution runs on is the state it is to replace, with its input.
CopyOf(copy, state) == \E input \in Inputs : copy = [state EXCEPT !.input = input]

OneAtATime ==
  \A c \in Calls : Busy(c) /\ calls[c].session \in Polite =>
    /\ \A d \in Calls : Busy(d) /\ calls[d].session = calls[c].session => d = c
    /\ calls[c].at = "running" /\ sessions[calls[c].session] = calls[c].handle =>
         CopyOf(calls[c].copy, states[calls[c].handle])

IndInv == Typed /\ Owned /\ AllGood /\ OneAtATime

\* What PoliteSessionsAreAtomic says of a step.
Atomic ==
  \A s \in Live \cap Polite :
    sessions'[s] = sessions[s] => StateOf(s)' \in Served(StateOf(s))

-----------------------------------------------------------------------------
\* The operations on a review keep it consistent.

\* What an event behind the log changes of what the log tells.
Grows(review, event, later, n) ==
  later.log = Append(review.log, event) /\ n = Len(review.log) + 1

Tells(review, event, later, n) ==
  /\ n \in Nat
  /\ Creations(review) \subseteq 1 .. n - 1 /\ Decisions(review) \subseteq 1 .. n - 1
  /\ Creations(later) = Creations(review) \cup
                          IF event.kind = "checkpoint_created" THEN {n} ELSE {}
  /\ Decisions(later) = Decisions(review) \cup
                          IF event.kind = "decision_recorded" THEN {n} ELSE {}
  /\ \A i \in 1 .. n - 1 : later.log[i] = review.log[i]
  /\ later.log[n] = event

LEMMA LogGrows ==
  ASSUME NEW review \in Reviewed, NEW event \in Event, NEW later, NEW n,
         Grows(review, event, later, n)
  PROVE  Tells(review, event, later, n)
<1>1. review.log \in Seq(Event)
  BY DEF Reviewed
<1>2. /\ n \in Nat /\ n - 1 = Len(review.log)
      /\ DOMAIN review.log = 1 .. n - 1 /\ DOMAIN later.log = 1 .. n
      /\ \A i \in 1 .. n - 1 : later.log[i] = review.log[i]
      /\ later.log[n] = event
  BY <1>1, AppendProperties, LenProperties DEF Grows
<1>3. 1 .. n = (1 .. n - 1) \cup {n}
  BY <1>2
<1> QED
  BY <1>2, <1>3 DEF Creations, Decisions, Tells

\* A pause makes a new request, the last one created, and nothing is decided.
LEMMA PauseKeeps ==
  ASSUME NEW review \in Reviewed, Consistent(review), NEW request \in Nat \ {NoRequest}
  PROVE  Pause(review, request) \in Reviewed /\ Consistent(Pause(review, request))
<1> DEFINE later == Pause(review, request)
           event == Created(request)
<1>1. event \in Event /\ event.kind = "checkpoint_created" /\ event.request = request
  BY DEF Created, Event
<1>2. /\ later.log = Append(review.log, event) /\ later.request = request
      /\ later.paused = TRUE /\ later.decision = NoDecision
      /\ later.edits = review.edits /\ later.patched = review.patched
  BY DEF Pause, Reviewed
<1>3. later \in Reviewed
  <2>1. Append(review.log, event) \in Seq(Event)
    BY <1>1, AppendProperties DEF Reviewed
  <2> HIDE DEF event
  <2> QED
    BY <2>1 DEF Pause, Reviewed, NoDecision, NoRequest, event
<1> HIDE DEF later, event
<1> PICK n : Grows(review, event, later, n)
  BY <1>2 DEF Grows
<1>4. /\ n \in Nat
      /\ Creations(review) \subseteq 1 .. n - 1 /\ Decisions(review) \subseteq 1 .. n - 1
      /\ Creations(later) = Creations(review) \cup {n}
      /\ Decisions(later) = Decisions(review)
      /\ \A i \in 1 .. n - 1 : later.log[i] = review.log[i]
      /\ later.log[n] = event
  <2>1. Tells(review, event, later, n)
    BY <1>1, LogGrows
  <2> QED
    BY <2>1, <1>1 DEF Tells
<1>5. \E i \in Creations(later) : /\ later.log[i].request = later.request
                                  /\ \A j \in Creations(later) : j <= i
  <2>1. /\ n \in Creations(later) /\ later.log[n].request = later.request
        /\ \A j \in Creations(later) : j <= n
    BY <1>1, <1>2, <1>4
  <2> QED
    BY <2>1
<1>6. ASSUME NEW i \in Decisions(later)
      PROVE  \E j \in Creations(later) : j < i /\ later.log[j].request = later.log[i].request
  <2>1. PICK j \in Creations(review) : j < i /\ review.log[j].request = review.log[i].request
    BY <1>4 DEF Consistent
  <2> QED
    BY <2>1, <1>4
<1>7. Consistent(later)
  BY <1>2, <1>5, <1>6 DEF Consistent, NoRequest
<1> QED
  BY <1>3, <1>7 DEF later

\* Queued edits leave request and decision as they were.
LEMMA QueueEditsKeeps ==
  ASSUME NEW review \in Reviewed, Consistent(review), MayQueueEdits(review), NEW edits \in Edits
  PROVE  QueueEdits(review, edits) \in Reviewed /\ Consistent(QueueEdits(review, edits))
<1> DEFINE later == QueueEdits(review, edits)
           event == Edited(edits)
<1>1. event \in Event /\ event.kind = "intervention_edited"
  BY DEF Edited, Event, Edit
<1>2. /\ later.log = Append(review.log, event) /\ later.request = review.request
      /\ later.paused = review.paused /\ later.decision = review.decision
  BY DEF QueueEdits, Reviewed
<1>3. later \in Reviewed
  <2>1. Append(review.log, event) \in Seq(Event)
    BY <1>1, AppendProperties DEF Reviewed
  <2> HIDE DEF event
  <2> QED
    BY <2>1 DEF QueueEdits, Reviewed, Edit, event
<1> HIDE DEF later, event
<1> PICK n : Grows(review, event, later, n)
  BY <1>2 DEF Grows
<1>4. /\ n \in Nat
      /\ Creations(review) \subseteq 1 .. n - 1 /\ Decisions(review) \subseteq 1 .. n - 1
      /\ Creations(later) = Creations(review)
      /\ Decisions(later) = Decisions(review)
      /\ \A i \in 1 .. n - 1 : later.log[i] = review.log[i]
  <2>1. Tells(review, event, later, n)
    BY <1>1, LogGrows
  <2> QED
    BY <2>1, <1>1 DEF Tells
<1>5. \A i \in Creations(later) \cup Decisions(later) : later.log[i] = review.log[i]
  BY <1>4
<1>6. /\ later.paused /\ later.request # NoRequest /\ later.decision = NoDecision
      /\ \E i \in Creations(later) : /\ later.log[i].request = later.request
                                     /\ \A j \in Creations(later) : j <= i
  BY <1>2, <1>4, <1>5 DEF Consistent, MayQueueEdits
<1>7. ASSUME NEW i \in Decisions(later)
      PROVE  \E j \in Creations(later) : j < i /\ later.log[j].request = later.log[i].request
  <2>1. PICK j \in Creations(review) : j < i /\ review.log[j].request = review.log[i].request
    BY <1>4 DEF Consistent
  <2> QED
    BY <2>1, <1>4, <1>5
<1>8. Consistent(later)
  BY <1>6, <1>7 DEF Consistent
<1> QED
  BY <1>3, <1>8 DEF later

\* A decision answers the current request, which was created before it.
LEMMA DecideKeeps ==
  ASSUME NEW review \in Reviewed, Consistent(review), MayDecide(review), NEW verdict \in Verdicts
  PROVE  Decide(review, verdict) \in Reviewed /\ Consistent(Decide(review, verdict))
<1> DEFINE later == Decide(review, verdict)
           event == Recorded(review.request, verdict)
           seen  == IF verdict = "approved" THEN ApplyEdits(review) ELSE review
<1>1. /\ event \in Event /\ event.kind = "decision_recorded"
      /\ event.request = review.request /\ event.verdict = verdict
  BY DEF Recorded, Event, Reviewed
<1>0. seen \in Reviewed /\ seen.log = review.log /\ seen.request = review.request
  BY DEF ApplyEdits, Reviewed
<1> HIDE DEF seen
<1>2. /\ later.log = Append(review.log, event) /\ later.request = review.request
      /\ later.paused = FALSE /\ later.edits = NoEdits
      /\ later.decision = [request |-> review.request, verdict |-> verdict]
  BY <1>0 DEF Decide, Reviewed, seen
<1>3. later \in Reviewed
  <2>1. Append(review.log, event) \in Seq(Event)
    BY <1>1, AppendProperties DEF Reviewed
  <2>2. later = [seen EXCEPT !.log      = Append(seen.log, event),
                             !.decision = [request |-> review.request, verdict |-> verdict],
                             !.paused   = FALSE,
                             !.edits    = NoEdits]
    BY DEF Decide, seen
  <2> HIDE DEF event, later
  <2> QED
    BY <2>1, <2>2, <1>0 DEF Reviewed, Edit
<1> HIDE DEF later, event
<1> PICK n : Grows(review, event, later, n)
  BY <1>2 DEF Grows
<1>4. /\ n \in Nat
      /\ Creations(review) \subseteq 1 .. n - 1 /\ Decisions(review) \subseteq 1 .. n - 1
      /\ Creations(later) = Creations(review)
      /\ Decisions(later) = Decisions(review) \cup {n}
      /\ \A i \in 1 .. n - 1 : later.log[i] = review.log[i]
      /\ later.log[n] = event
  <2>1. Tells(review, event, later, n)
    BY <1>1, LogGrows
  <2> QED
    BY <2>1, <1>1 DEF Tells
<1>5. PICK i \in Creations(review) : /\ review.log[i].request = review.request
                                     /\ \A j \in Creations(review) : j <= i
  BY DEF Consistent, MayDecide
<1>6. \E j \in Creations(later) : /\ later.log[j].request = later.request
                                  /\ \A k \in Creations(later) : k <= j
  BY <1>2, <1>4, <1>5
<1>7. /\ later.decision.request = later.request
      /\ \E j \in Decisions(later) : /\ later.log[j].request = later.request
                                     /\ later.log[j].verdict = later.decision.verdict
                                     /\ \A k \in Decisions(later) : k <= j
  <2>1. /\ n \in Decisions(later) /\ later.log[n].request = later.request
        /\ later.log[n].verdict = later.decision.verdict
        /\ \A k \in Decisions(later) : k <= n
    BY <1>1, <1>2, <1>4
  <2>2. later.decision.request = later.request
    BY <1>2
  <2> QED
    BY <2>1, <2>2, Zenon
<1>8. ASSUME NEW d \in Decisions(later)
      PROVE  \E j \in Creations(later) : j < d /\ later.log[j].request = later.log[d].request
  <2>1. CASE d = n
    BY <2>1, <1>1, <1>4, <1>5
  <2>2. CASE d # n
    <3>1. PICK j \in Creations(review) : j < d /\ review.log[j].request = review.log[d].request
      BY <2>2, <1>4 DEF Consistent
    <3> QED
      BY <3>1, <2>2, <1>4
  <2> QED
    BY <2>1, <2>2
<1>9. Consistent(later)
  BY <1>2, <1>6, <1>7, <1>8 DEF Consistent
<1> QED
  BY <1>3, <1>9 DEF later

-----------------------------------------------------------------------------
\* The steps of the server keep the invariant and are atomic for polite clients.

LEMMA FreshIsGood == Fresh \in State /\ Good(Fresh)
<1>1. <<>> \in Seq(Event) /\ DOMAIN <<>> = {}
  BY EmptySeq, LenProperties
<1>2. NoReview \in Reviewed
  BY <1>1 DEF NoReview, Reviewed, NoRequest, NoDecision, Edit
<1>3. Creations(NoReview) = {} /\ Decisions(NoReview) = {}
  BY <1>1 DEF Creations, Decisions, NoReview
<1>4. Consistent(NoReview)
  BY <1>3 DEF Consistent, NoReview
<1> QED
  BY <1>2, <1>4 DEF Fresh, State, Input, Good

\* Where states lead after a step that frees what nobody holds.
LEMMA Become ==
  ASSUME NEW new, StatesBecome(new)
  PROVE  /\ states' = [h \in Handles |-> states'[h]]
         /\ \A h \in Handles : states'[h] = new[h] \/ states'[h] = Fresh
         /\ \A s \in Live' : sessions'[s] \in Handles =>
              states'[sessions'[s]] = new[sessions'[s]]
         /\ \A c \in Calls : Busy(c)' /\ calls'[c].handle \in Handles =>
              states'[calls'[c].handle] = new[calls'[c].handle]
BY DEF StatesBecome, InUse, Held, Busy

\* A session gets a state of its own, which no request holds.
LEMMA PointsOK ==
  ASSUME IndInv, NEW s \in Sessions, NEW state \in State, Good(state), Points(s, state),
         s \in Polite => \A c \in Calls : Busy(c) => calls[c].session # s
  PROVE  IndInv' /\ Atomic
<1>1. PICK h \in Handles :
        /\ h \notin InUse
        /\ sessions' = [t \in Live \cup {s} |-> IF t = s THEN h ELSE sessions[t]]
        /\ UNCHANGED <<checkpoints, calls, lastRequest>>
        /\ StatesBecome([states EXCEPT ![h] = state])
  BY DEF Points, Unused
<1>2. /\ Live' = Live \cup {s} /\ sessions'[s] = h
      /\ \A t \in Live \ {s} : sessions'[t] = sessions[t]
  BY <1>1 DEF Live
<1>3. /\ \A t \in Live : sessions[t] # h
      /\ \A c \in Calls : Busy(c) => calls[c].handle # h
  BY <1>1 DEF InUse, Held, Busy
<1>4. \A c \in Calls : (Busy(c)' <=> Busy(c)) /\ calls'[c] = calls[c]
  BY <1>1 DEF Busy
<1>5. /\ \A t \in Live : sessions[t] \in Handles
      /\ \A c \in Calls : Busy(c) => calls[c] \in Call
      /\ states \in [Handles -> State]
  BY DEF IndInv, Typed, Busy
<1>6. /\ states' = [g \in Handles |-> states'[g]]
      /\ \A g \in Handles : states'[g] \in {states[g], state, Fresh}
      /\ \A t \in Live \ {s} : states'[sessions'[t]] = states[sessions[t]]
      /\ \A c \in Calls : Busy(c) => states'[calls[c].handle] = states[calls[c].handle]
  <2> DEFINE new == [states EXCEPT ![h] = state]
  <2>1. \A g \in Handles : new[g] = IF g = h THEN state ELSE states[g]
    BY <1>5
  <2>2. /\ states' = [g \in Handles |-> states'[g]]
        /\ \A g \in Handles : states'[g] = new[g] \/ states'[g] = Fresh
        /\ \A t \in Live' : sessions'[t] \in Handles =>
             states'[sessions'[t]] = new[sessions'[t]]
        /\ \A c \in Calls : Busy(c)' /\ calls'[c].handle \in Handles =>
             states'[calls'[c].handle] = new[calls'[c].handle]
    BY <1>1, Become
  <2>3. \A c \in Calls : Busy(c) => calls[c].handle \in Handles
    BY <1>5 DEF Call
  <2> HIDE DEF new
  <2> QED
    BY <2>1, <2>2, <2>3, <1>2, <1>3, <1>4, <1>5
<1>7. Typed'
  BY <1>1, <1>2, <1>5, <1>6, FreshIsGood DEF IndInv, Typed
<1>8. Owned'
  BY <1>2, <1>3, <1>4 DEF IndInv, Owned
<1>9. AllGood'
  BY <1>1, <1>4, <1>6, FreshIsGood DEF IndInv, AllGood
<1>10. OneAtATime'
  <2> SUFFICES ASSUME NEW c \in Calls, Busy(c)', calls'[c].session \in Polite
               PROVE  (/\ \A d \in Calls : Busy(d) /\ calls[d].session = calls[c].session => d = c
                       /\ calls[c].at = "running" /\ sessions[calls[c].session] = calls[c].handle =>
                            CopyOf(calls[c].copy, states[calls[c].handle]))'
    BY DEF OneAtATime
  <2>1. /\ Busy(c) /\ calls[c].session \in Polite /\ calls[c].session \in Live \ {s}
        /\ \A d \in Calls : Busy(d) /\ calls[d].session = calls[c].session => d = c
    BY <1>4 DEF IndInv, Owned, OneAtATime
  <2>2. calls[c].at = "running" /\ sessions[calls[c].session] = calls[c].handle =>
          CopyOf(calls[c].copy, states[calls[c].handle])
    BY <2>1 DEF IndInv, OneAtATime
  <2>3. states'[calls[c].handle] = states[calls[c].handle]
    BY <2>1, <1>6
  <2> QED
    BY <2>1, <2>2, <2>3, <1>2, <1>4 DEF CopyOf
<1>11. Atomic
  <2> SUFFICES ASSUME NEW t \in Live \cap Polite, sessions'[t] = sessions[t]
               PROVE  StateOf(t)' \in Served(StateOf(t))
    BY DEF Atomic
  <2>1. t # s
    BY <1>2, <1>3
  <2> QED
    BY <2>1, <1>6 DEF StateOf, Served
<1> QED
  BY <1>7, <1>8, <1>9, <1>10, <1>11 DEF IndInv

\* A request gets the handle its session has at the moment.
LEMMA LookupOK ==
  ASSUME IndInv, NEW c \in Calls, NEW s \in Sessions, NEW op \in Ops, Lookup(c, s, op)
  PROVE  IndInv' /\ Atomic
<1> DEFINE call == [op |-> op, at |-> "found", session |-> s,
                    handle |-> sessions[s], copy |-> Fresh]
<1>1. /\ calls' = [calls EXCEPT ![c] = call]
      /\ ~Busy(c) /\ s \in Live
      /\ s \in Polite => \A d \in Calls : Busy(d) => calls[d].session # s
      /\ UNCHANGED <<sessions, states, checkpoints, lastRequest>>
  BY DEF Lookup, Asks, Busy
<1>2. call \in Call /\ call # Idle
  BY <1>1, FreshIsGood DEF Call, IndInv, Typed, Idle, Ops
<1>3. call.session = s /\ call.handle = sessions[s] /\ call.copy = Fresh /\ call.at = "found"
  OBVIOUS
<1> HIDE DEF call
<1>4. /\ calls'[c] = call /\ Busy(c)'
      /\ \A d \in Calls \ {c} : calls'[d] = calls[d] /\ (Busy(d)' <=> Busy(d))
  BY <1>1, <1>2 DEF IndInv, Typed, Busy
<1>5. Live' = Live /\ \A t \in Live : StateOf(t)' = StateOf(t)
  BY <1>1 DEF Live, StateOf
<1>6. Typed'
  BY <1>1, <1>2, <1>5 DEF IndInv, Typed
<1>7. Owned'
  BY <1>1, <1>3, <1>4, <1>5 DEF IndInv, Owned
<1>8. AllGood'
  <2>1. Consistent(Fresh.review) /\ Fresh.output = Fresh.input
    BY FreshIsGood DEF Good
  <2> QED
    BY <2>1, <1>1, <1>3, <1>4 DEF IndInv, AllGood
<1>9. OneAtATime'
  <2> SUFFICES ASSUME NEW d \in Calls, Busy(d)', calls'[d].session \in Polite
               PROVE  (/\ \A e \in Calls : Busy(e) /\ calls[e].session = calls[d].session => e = d
                       /\ calls[d].at = "running" /\ sessions[calls[d].session] = calls[d].handle =>
                            CopyOf(calls[d].copy, states[calls[d].handle]))'
    BY DEF OneAtATime
  <2>1. CASE d = c
    BY <2>1, <1>1, <1>3, <1>4
  <2>2. CASE d # c
    <3>1. Busy(d) /\ calls'[d] = calls[d] /\ calls[d].session # s
      BY <2>2, <1>1, <1>4
    <3>2. /\ \A e \in Calls : Busy(e) /\ calls[e].session = calls[d].session => e = d
          /\ calls[d].at = "running" /\ sessions[calls[d].session] = calls[d].handle =>
               CopyOf(calls[d].copy, states[calls[d].handle])
      BY <3>1 DEF IndInv, OneAtATime
    <3> QED
      BY <3>1, <3>2, <1>1, <1>3, <1>4 DEF CopyOf
  <2> QED
    BY <2>1, <2>2
<1>10. Atomic
  BY <1>5 DEF Atomic, Served
<1> QED
  BY <1>6, <1>7, <1>8, <1>9, <1>10 DEF IndInv

\* A request writes a state through its handle: of the sessions, only its own can
\* notice, and only as far as it still leads there.
LEMMA WriteIsAtomic ==
  ASSUME IndInv, NEW c \in Calls, Busy(c), NEW state, UNCHANGED sessions,
         \A h \in Handles \ {calls[c].handle} : h \in {sessions[s] : s \in Live} =>
           states'[h] = states[h],
         calls[c].handle \in {sessions[s] : s \in Live} => states'[calls[c].handle] = state,
         calls[c].session \in Polite /\ sessions[calls[c].session] = calls[c].handle =>
           state \in Served(states[calls[c].handle])
  PROVE  Atomic
<1> SUFFICES ASSUME NEW s \in Live \cap Polite
             PROVE  states'[sessions[s]] \in Served(states[sessions[s]])
  BY DEF Atomic, StateOf
<1>1. sessions[s] \in Handles
  BY DEF IndInv, Typed
<1>2. CASE sessions[s] = calls[c].handle
  <2>1. calls[c].session = s
    BY <1>2 DEF IndInv, Owned
  <2> QED
    BY <2>1, <1>2
<1>3. CASE sessions[s] # calls[c].handle
  BY <1>1, <1>3 DEF Served
<1> QED
  BY <1>2, <1>3

\* A request that goes on with a copy, having written a state.
LEMMA ContinuesOK ==
  ASSUME IndInv, NEW c \in Calls, Busy(c), NEW at \in {"running", "saving"},
         NEW copy \in State, NEW state \in State,
         Continues(c, at, copy), UNCHANGED <<sessions, checkpoints, lastRequest>>,
         states' = [states EXCEPT ![calls[c].handle] = state],
         Good(state), Consistent(copy.review),
         at # "running" => copy.output = copy.input,
         at = "running" => CopyOf(copy, state)
  PROVE  IndInv'
<1> DEFINE call == [calls[c] EXCEPT !.at = at, !.copy = copy]
           h    == calls[c].handle
<1>1. calls[c] \in Call /\ DOMAIN calls = Calls /\ h \in Handles
  BY DEF IndInv, Typed, Busy, Call
<1>2. /\ call \in Call /\ call # Idle
      /\ call.session = calls[c].session /\ call.handle = h
      /\ call.at = at /\ call.copy = copy
  BY <1>1 DEF Call, Idle, Ops
<1>3. calls' = [calls EXCEPT ![c] = call]
  BY <1>1 DEF Continues
<1> HIDE DEF call
<1>4. /\ calls'[c] = call /\ Busy(c)'
      /\ \A d \in Calls \ {c} : calls'[d] = calls[d] /\ (Busy(d)' <=> Busy(d))
  BY <1>1, <1>2, <1>3 DEF Busy
<1>5. /\ states'[h] = state
      /\ \A g \in Handles \ {h} : states'[g] = states[g]
      /\ states' \in [Handles -> State]
  BY <1>1 DEF IndInv, Typed
<1> HIDE DEF h
<1>6. Live' = Live
  BY DEF Live
<1>7. Typed'
  BY <1>2, <1>3, <1>5, <1>6 DEF IndInv, Typed
<1>8. Owned'
  BY <1>2, <1>4, <1>6 DEF IndInv, Owned, h
<1>9. AllGood'
  BY <1>2, <1>4, <1>5 DEF IndInv, AllGood
<1>10. OneAtATime'
  <2> SUFFICES ASSUME NEW d \in Calls, Busy(d)', calls'[d].session \in Polite
               PROVE  (/\ \A e \in Calls : Busy(e) /\ calls[e].session = calls[d].session => e = d
                       /\ calls[d].at = "running" /\ sessions[calls[d].session] = calls[d].handle =>
                            CopyOf(calls[d].copy, states[calls[d].handle]))'
    BY DEF OneAtATime
  <2>1. /\ Busy(d) /\ calls[d].session = calls'[d].session
        /\ \A e \in Calls : (Busy(e)' <=> Busy(e)) /\ calls'[e].session = calls[e].session
    BY <1>2, <1>4
  <2>2. \A e \in Calls : Busy(e) /\ calls[e].session = calls[d].session => e = d
    BY <2>1 DEF IndInv, OneAtATime
  <2>3. CASE d = c
    BY <2>1, <2>2, <2>3, <1>2, <1>4, <1>5
  <2>4. CASE d # c
    <3>1. calls'[d] = calls[d] /\ calls[d].handle \in Handles
      BY <2>1, <2>4, <1>4 DEF IndInv, Typed, Busy, Call
    <3>2. sessions[calls[d].session] = calls[d].handle => calls[d].handle # h
      BY <2>1, <2>2, <2>4 DEF IndInv, Owned, h
    <3>3. calls[d].at = "running" /\ sessions[calls[d].session] = calls[d].handle =>
            CopyOf(calls[d].copy, states[calls[d].handle])
      BY <2>1 DEF IndInv, OneAtATime
    <3> QED
      BY <2>1, <2>2, <3>1, <3>2, <3>3, <1>5 DEF CopyOf
  <2> QED
    BY <2>3, <2>4
<1> QED
  BY <1>7, <1>8, <1>9, <1>10 DEF IndInv

\* A request that answers, having written a state.
LEMMA AnswersOK ==
  ASSUME IndInv, NEW c \in Calls, Busy(c), NEW state \in State, Good(state),
         Answers(c), UNCHANGED sessions,
         StatesBecome([states EXCEPT ![calls[c].handle] = state]),
         checkpoints' \in Seq(Saved), lastRequest' \in Nat,
         \A k \in DOMAIN checkpoints' : Good(checkpoints'[k].state),
         calls[c].session \in Polite /\ sessions[calls[c].session] = calls[c].handle =>
           state \in Served(states[calls[c].handle])
  PROVE  IndInv' /\ Atomic
<1> DEFINE h   == calls[c].handle
           new == [states EXCEPT ![h] = state]
<1>1. /\ DOMAIN calls = Calls /\ h \in Handles
      /\ \A d \in Calls : Busy(d) => calls[d].handle \in Handles
      /\ \A s \in Live : sessions[s] \in Handles
      /\ states \in [Handles -> State]
  BY DEF IndInv, Typed, Busy, Call
<1>2. \A g \in Handles : new[g] = IF g = h THEN state ELSE states[g]
  BY <1>1
<1>3. /\ Live' = Live /\ calls'[c] = Idle /\ ~Busy(c)'
      /\ \A d \in Calls \ {c} : calls'[d] = calls[d] /\ (Busy(d)' <=> Busy(d))
  BY <1>1 DEF Live, Answers, Busy
<1>4. /\ states' = [g \in Handles |-> states'[g]]
      /\ \A g \in Handles : states'[g] \in {states[g], state, Fresh}
      /\ \A s \in Live : states'[sessions[s]] = new[sessions[s]]
      /\ \A d \in Calls \ {c} : Busy(d) => states'[calls[d].handle] = new[calls[d].handle]
  <2>0. StatesBecome(new)
    OBVIOUS
  <2> HIDE DEF new
  <2>1. /\ states' = [g \in Handles |-> states'[g]]
        /\ \A g \in Handles : states'[g] = new[g] \/ states'[g] = Fresh
        /\ \A t \in Live' : sessions'[t] \in Handles =>
             states'[sessions'[t]] = new[sessions'[t]]
        /\ \A d \in Calls : Busy(d)' /\ calls'[d].handle \in Handles =>
             states'[calls'[d].handle] = new[calls'[d].handle]
    BY <2>0, Become
  <2> QED
    BY <2>1, <1>1, <1>2, <1>3
<1> HIDE DEF new, h
<1>5. Typed'
  BY <1>1, <1>3, <1>4, FreshIsGood DEF IndInv, Typed, Answers
<1>6. Owned'
  BY <1>3 DEF IndInv, Owned
<1>7. AllGood'
  BY <1>3, <1>4, FreshIsGood DEF IndInv, AllGood
<1>8. OneAtATime'
  <2> SUFFICES ASSUME NEW d \in Calls, Busy(d)', calls'[d].session \in Polite
               PROVE  (/\ \A e \in Calls : Busy(e) /\ calls[e].session = calls[d].session => e = d
                       /\ calls[d].at = "running" /\ sessions[calls[d].session] = calls[d].handle =>
                            CopyOf(calls[d].copy, states[calls[d].handle]))'
    BY DEF OneAtATime
  <2>1. d # c /\ Busy(d) /\ calls'[d] = calls[d] /\ calls[d].handle \in Handles
    BY <1>1, <1>3
  <2>2. /\ \A e \in Calls : Busy(e) /\ calls[e].session = calls[d].session => e = d
        /\ calls[d].at = "running" /\ sessions[calls[d].session] = calls[d].handle =>
             CopyOf(calls[d].copy, states[calls[d].handle])
    BY <2>1 DEF IndInv, OneAtATime
  <2>3. sessions[calls[d].session] = calls[d].handle => calls[d].handle # h
    BY <2>1, <2>2 DEF IndInv, Owned, h
  <2> QED
    BY <2>1, <2>2, <2>3, <1>2, <1>3, <1>4 DEF CopyOf
<1>9. Atomic
  <2>1. \A g \in Handles \ {h} : g \in {sessions[s] : s \in Live} => states'[g] = states[g]
    BY <1>2, <1>4
  <2>2. h \in {sessions[s] : s \in Live} => states'[h] = state
    BY <1>1, <1>2, <1>4
  <2> QED
    BY <2>1, <2>2, WriteIsAtomic DEF h
<1> QED
  BY <1>5, <1>6, <1>7, <1>8, <1>9 DEF IndInv

-----------------------------------------------------------------------------
\* Every handler.

\* A state with another review or another input is still a state.
LEMMA StateParts ==
  ASSUME NEW state \in State
  PROVE  /\ \A review \in Reviewed :
              LET new == [state EXCEPT !.review = review]
              IN  /\ new \in State /\ new.review = review
                  /\ new.input = state.input /\ new.output = state.output
         /\ \A input \in Inputs :
              LET new == [state EXCEPT !.input = input]
              IN  /\ new \in State /\ new.review = state.review
         /\ LET new == Ran(state)
            IN  /\ new \in State /\ new.review = state.review /\ new.output = new.input
BY DEF State, Input, Ran

LEMMA ReviewsOK ==
  ASSUME IndInv, NEW c \in Calls, NEW review \in Reviewed, Consistent(review),
         Reviews(c, review), lastRequest' \in Nat,
         [states[calls[c].handle] EXCEPT !.review = review] \in Served(states[calls[c].handle])
  PROVE  IndInv' /\ Atomic
<1> DEFINE old == states[calls[c].handle]
           new == [old EXCEPT !.review = review]
<1>1. /\ Busy(c) /\ Answers(c) /\ UNCHANGED <<sessions, checkpoints>>
      /\ StatesBecome([states EXCEPT ![calls[c].handle].review = review])
  BY DEF Reviews, At, Busy
<1>2. calls[c].handle \in Handles /\ old \in State /\ Good(old)
  BY <1>1 DEF IndInv, Typed, AllGood, Busy, Call
<1>3. new \in State /\ Good(new)
  <2> HIDE DEF old
  <2> QED
    BY <1>2, StateParts DEF Good
<1>4. [states EXCEPT ![calls[c].handle].review = review] = [states EXCEPT ![calls[c].handle] = new]
  BY <1>2
<1>5. StatesBecome([states EXCEPT ![calls[c].handle] = new])
  BY <1>1, <1>4
<1>6. /\ checkpoints' \in Seq(Saved)
      /\ \A k \in DOMAIN checkpoints' : Good(checkpoints'[k].state)
  BY <1>1 DEF IndInv, Typed, AllGood
<1>7. new \in Served(states[calls[c].handle])
  OBVIOUS
<1> HIDE DEF new
<1> QED
  BY <1>1, <1>3, <1>5, <1>6, <1>7, AnswersOK

\* A state whose review is put back as it is stays what it is.
LEMMA SameReview ==
  ASSUME NEW state \in State
  PROVE  [state EXCEPT !.review = state.review] = state
BY DEF State

LEMMA HandlerOK ==
  ASSUME IndInv, NEW c \in Calls, Handler(c)
  PROVE  IndInv' /\ Atomic
<1> DEFINE state  == states[calls[c].handle]
           review == state.review
<1>0. ASSUME Busy(c)
      PROVE  /\ calls[c] \in Call /\ calls[c].handle \in Handles /\ calls[c].copy \in State
             /\ state \in State /\ Good(state) /\ review \in Reviewed /\ Consistent(review)
             /\ states = [states EXCEPT ![calls[c].handle] = state]
             /\ states \in [Handles -> State]
  BY <1>0 DEF IndInv, Typed, AllGood, Good, Busy, Call, State
<1> HIDE DEF state, review
<1>1. CASE Copy(c)
  <2>1. PICK input \in Inputs : /\ At(c, "execute", "found")
                                /\ Continues(c, "running", [state EXCEPT !.input = input])
                                /\ UNCHANGED <<sessions, states, checkpoints, lastRequest>>
    BY <1>1 DEF Copy, state
  <2> DEFINE copy == [state EXCEPT !.input = input]
  <2>2. Busy(c)
    BY <2>1 DEF At, Busy
  <2>3. copy \in State /\ Consistent(copy.review) /\ CopyOf(copy, state)
    BY <1>0, <2>2, StateParts DEF Good, CopyOf
  <2>4. Continues(c, "running", copy) /\ states' = [states EXCEPT ![calls[c].handle] = state]
    BY <1>0, <2>1, <2>2
  <2> HIDE DEF copy
  <2>5. IndInv'
    BY <1>0, <2>1, <2>2, <2>3, <2>4, ContinuesOK
  <2>6. Atomic
    BY <2>1 DEF Atomic, StateOf, Served
  <2> QED
    BY <2>5, <2>6
<1>2. CASE Run(c)
  <2> DEFINE done == Ran(calls[c].copy)
  <2>1. /\ Busy(c) /\ calls[c].at = "running"
        /\ states' = [states EXCEPT ![calls[c].handle] = done]
        /\ Continues(c, "saving", done)
        /\ UNCHANGED <<sessions, checkpoints, lastRequest>>
    BY <1>2 DEF Run, At, Busy
  <2>2. Consistent(calls[c].copy.review)
    BY <2>1 DEF IndInv, AllGood
  <2>3. done \in State /\ Good(done) /\ Consistent(done.review) /\ done.output = done.input
    BY <1>0, <2>1, <2>2, StateParts DEF Good
  <2>4. calls[c].session \in Polite /\ sessions[calls[c].session] = calls[c].handle =>
          done \in Served(states[calls[c].handle])
    BY <2>1 DEF IndInv, OneAtATime, CopyOf, Served
  <2> HIDE DEF done
  <2>5. IndInv'
    BY <1>0, <2>1, <2>3, ContinuesOK
  <2>6. Atomic
    <3>1. /\ states'[calls[c].handle] = done
          /\ \A h \in Handles \ {calls[c].handle} : states'[h] = states[h]
      BY <1>0, <2>1
    <3> QED
      BY <2>1, <2>4, <3>1, WriteIsAtomic
  <2> QED
    BY <2>5, <2>6
<1>3. CASE Snapshot(c)
  <2>1. /\ Busy(c) /\ Continues(c, "saving", state)
        /\ UNCHANGED <<sessions, states, checkpoints, lastRequest>>
    BY <1>3 DEF Snapshot, At, Busy, state
  <2>2. Consistent(state.review) /\ state.output = state.input
    BY <1>0, <2>1 DEF Good
  <2>3. IndInv'
    BY <1>0, <2>1, <2>2, ContinuesOK
  <2>4. Atomic
    BY <2>1 DEF Atomic, StateOf, Served
  <2> QED
    BY <2>3, <2>4
<1>4. ASSUME NEW op \in {"execute", "checkpoint"}, SaveCopy(c, op)
      PROVE  IndInv' /\ Atomic
  <2> DEFINE saved == [session |-> calls[c].session, op |-> op, state |-> calls[c].copy]
  <2>1. /\ Busy(c) /\ calls[c].at = "saving" /\ Answers(c)
        /\ checkpoints' = Append(checkpoints, saved)
        /\ UNCHANGED <<sessions, lastRequest>> /\ StatesBecome(states)
    BY <1>4 DEF SaveCopy, At, Busy
  <2>2. saved \in Saved /\ Good(saved.state)
    BY <1>0, <2>1 DEF Saved, Call, Ops, IndInv, AllGood, Good
  <2> HIDE DEF saved
  <2>3. /\ checkpoints' \in Seq(Saved)
        /\ \A k \in DOMAIN checkpoints' : Good(checkpoints'[k].state)
    <3>1. checkpoints \in Seq(Saved)
      BY DEF IndInv, Typed
    <3>2. /\ DOMAIN checkpoints' = 1 .. Len(checkpoints) + 1
          /\ DOMAIN checkpoints = 1 .. Len(checkpoints)
          /\ checkpoints' \in Seq(Saved)
          /\ \A k \in 1 .. Len(checkpoints) : checkpoints'[k] = checkpoints[k]
          /\ checkpoints'[Len(checkpoints) + 1] = saved
          /\ Len(checkpoints) \in Nat
      BY <2>1, <2>2, <3>1, AppendProperties, LenProperties
    <3> QED
      BY <2>2, <3>2 DEF IndInv, AllGood
  <2>4. StatesBecome([states EXCEPT ![calls[c].handle] = state])
    BY <1>0, <2>1
  <2>5. state \in Served(states[calls[c].handle]) /\ lastRequest' \in Nat
    BY <2>1 DEF state, Served, IndInv, Typed
  <2> QED
    BY <1>0, <2>1, <2>3, <2>4, <2>5, AnswersOK
<1>5. CASE HitlPause(c)
  <2> DEFINE request == lastRequest + 1
             new     == Pause(review, request)
  <2>1. Busy(c) /\ Reviews(c, new) /\ lastRequest' = request
    BY <1>5 DEF HitlPause, Reviews, At, Busy, Review, review, state
  <2>2. request \in Nat \ {NoRequest}
    BY DEF IndInv, Typed, NoRequest
  <2>3. new \in Reviewed /\ Consistent(new)
    BY <1>0, <2>1, <2>2, PauseKeeps
  <2>4. [state EXCEPT !.review = new] \in Served(state)
    BY DEF Served, review
  <2> HIDE DEF new, request
  <2> QED
    BY <2>1, <2>2, <2>3, <2>4, ReviewsOK DEF state
<1>6. CASE HitlEdit(c)
  <2>1. PICK edits \in Edits :
          /\ Busy(c) /\ lastRequest' = lastRequest
          /\ Reviews(c, IF MayQueueEdits(review) THEN QueueEdits(review, edits) ELSE review)
    BY <1>6 DEF HitlEdit, Reviews, At, Busy, Review, review, state
  <2> DEFINE new == IF MayQueueEdits(review) THEN QueueEdits(review, edits) ELSE review
  <2>2. new \in Reviewed /\ Consistent(new)
    BY <1>0, <2>1, QueueEditsKeeps
  <2>3. [state EXCEPT !.review = new] \in Served(state)
    <3>1. CASE MayQueueEdits(review)
      BY <3>1 DEF Served, review
    <3>2. CASE ~MayQueueEdits(review)
      BY <3>2, <1>0, <2>1, SameReview DEF Served, review
    <3> QED
      BY <3>1, <3>2
  <2>4. lastRequest' \in Nat /\ Reviews(c, new)
    BY <2>1 DEF IndInv, Typed
  <2> HIDE DEF new
  <2> QED
    BY <2>1, <2>2, <2>3, <2>4, ReviewsOK DEF state
<1>7. ASSUME NEW verdict \in Verdicts, HitlDecide(c, verdict)
      PROVE  IndInv' /\ Atomic
  <2> DEFINE new == IF MayDecide(review) THEN Decide(review, verdict) ELSE review
  <2>1. Busy(c) /\ lastRequest' = lastRequest /\ Reviews(c, new)
    BY <1>7 DEF HitlDecide, Reviews, At, Busy, Review, review, state
  <2>2. new \in Reviewed /\ Consistent(new)
    BY <1>0, <2>1, DecideKeeps
  <2>3. [state EXCEPT !.review = new] \in Served(state)
    <3>1. CASE MayDecide(review)
      BY <3>1 DEF Served, review
    <3>2. CASE ~MayDecide(review)
      BY <3>2, <1>0, <2>1, SameReview DEF Served, review
    <3> QED
      BY <3>1, <3>2
  <2>4. lastRequest' \in Nat
    BY <2>1 DEF IndInv, Typed
  <2> HIDE DEF new
  <2> QED
    BY <2>1, <2>2, <2>3, <2>4, ReviewsOK DEF state
<1> QED
  BY <1>1, <1>2, <1>3, <1>4, <1>5, <1>6, <1>7 DEF Handler, Verdicts

-----------------------------------------------------------------------------

LEMMA InitOK == Init => IndInv
<1> SUFFICES ASSUME Init PROVE IndInv
  OBVIOUS
<1>1. Live = {} /\ checkpoints \in Seq(Saved) /\ DOMAIN checkpoints = {}
  BY EmptySeq, LenProperties DEF Init, Live
<1>2. \A c \in Calls : ~Busy(c)
  BY DEF Init, Busy
<1>3. Typed
  BY <1>1, FreshIsGood DEF Init, Typed, NoRequest
<1>4. Owned /\ OneAtATime
  BY <1>1, <1>2 DEF Owned, OneAtATime
<1>5. AllGood
  BY <1>1, <1>2, FreshIsGood DEF Init, AllGood
<1> QED
  BY <1>3, <1>4, <1>5 DEF IndInv

LEMMA NextOK == IndInv /\ [Next]_vars => IndInv' /\ (Atomic \/ UNCHANGED vars)
<1> SUFFICES ASSUME IndInv, [Next]_vars
             PROVE  IndInv' /\ (Atomic \/ UNCHANGED vars)
  OBVIOUS
<1>1. ASSUME NEW s \in Sessions, CreateSession(s)
      PROVE  IndInv' /\ Atomic
  <2>1. s \notin Live /\ Points(s, Fresh)
    BY <1>1 DEF CreateSession
  <2>2. \A c \in Calls : Busy(c) => calls[c].session # s
    BY <2>1 DEF IndInv, Owned
  <2> QED
    BY <2>1, <2>2, FreshIsGood, PointsOK
<1>2. ASSUME NEW s \in Sessions, Restore(s)
      PROVE  IndInv' /\ Atomic
  <2>1. PICK state \in {checkpoints[k].state : k \in DOMAIN checkpoints} \cup {Fresh} :
          Points(s, state)
    BY <1>2 DEF Restore
  <2>2. state \in State /\ Good(state)
    <3>1. ASSUME NEW k \in DOMAIN checkpoints
          PROVE  checkpoints[k].state \in State /\ Good(checkpoints[k].state)
      <4>1. checkpoints[k] \in Saved
        BY ElementOfSeq, LenProperties DEF IndInv, Typed
      <4> QED
        BY <4>1 DEF IndInv, AllGood, Saved
    <3> QED
      BY <3>1, FreshIsGood
  <2>3. s \in Polite => \A c \in Calls : Busy(c) => calls[c].session # s
    BY <1>2 DEF Restore, Asks, Busy
  <2> QED
    BY <2>1, <2>2, <2>3, PointsOK
<1>3. ASSUME NEW c \in Calls, NEW s \in Sessions, NEW op \in Ops, Lookup(c, s, op)
      PROVE  IndInv' /\ Atomic
  BY <1>3, LookupOK
<1>4. ASSUME NEW c \in Calls, Handler(c)
      PROVE  IndInv' /\ Atomic
  BY <1>4, HandlerOK
<1>5. CASE UNCHANGED vars
  BY <1>5 DEF vars, IndInv, Typed, Owned, AllGood, OneAtATime, Busy, Live
<1> QED
  BY <1>1, <1>2, <1>3, <1>4, <1>5 DEF Next

\* Everything below rests on this invariant.
THEOREM Inductive == Spec => []IndInv
<1>1. IndInv /\ [Next]_vars => IndInv'
  BY NextOK
<1> QED
  BY <1>1, InitOK, PTL DEF Spec

\* Whatever hitl_pause, hitl_edit, hitl_approve, hitl_deny, execute's write-back
\* and restore do to one another, no session and no checkpoint ever shows a
\* review whose request, decision, edits and log disagree.
THEOREM ReviewsStayConsistent == Spec => []ReviewsAreConsistent
<1>1. IndInv => ReviewsAreConsistent
  BY DEF IndInv, Typed, AllGood, Good, ReviewsAreConsistent, Kept, StateOf
<1> QED
  BY <1>1, Inductive, PTL

\* No session and no checkpoint ever shows one execution's output beside the
\* input of another, however executes of a session overlap.
THEOREM ExecutionsStayApart == Spec => []ExecutionsDoNotMix
<1>1. IndInv => ExecutionsDoNotMix
  BY DEF IndInv, Typed, AllGood, Good, ExecutionsDoNotMix, Kept, StateOf
<1> QED
  BY <1>1, Inductive, PTL

\* A client that waits for each answer has every request take effect as a whole,
\* whatever the clients of other sessions do: execute's copy is then still the
\* state it replaces.
THEOREM PoliteRequestsAreAtomic == Spec => PoliteSessionsAreAtomic
<1>1. IndInv /\ [Next]_vars =>
        [\A s \in Live \cap Polite :
           sessions'[s] = sessions[s] => StateOf(s)' \in Served(StateOf(s))]_vars
  BY NextOK DEF Atomic
<1> QED
  BY <1>1, Inductive, PTL DEF Spec, PoliteSessionsAreAtomic
=============================================================================

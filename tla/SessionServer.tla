---------------------------- MODULE SessionServer ----------------------------
(***************************************************************************)
(* The session endpoints of the orchestrator server (bin/server.rs): what  *)
(* concurrent requests do to the sessions and to the checkpoints.          *)
(*                                                                         *)
(* A session is a handle to a shared agent state (Arc<RwLock<AgentState>>) *)
(* in a map.  Every handler looks the handle up first and works on what it *)
(* leads to later, under the state's own lock: restore may have given the  *)
(* session another handle meanwhile.  execute copies the state, runs the   *)
(* workflow on the copy and writes the whole copy back.                    *)
(***************************************************************************)
EXTENDS HumanReview, FiniteSets, SequencesExt

CONSTANTS Sessions,        \* session ids
          Calls,           \* slots for requests in flight
          Polite,          \* sessions whose client sends one request at a time
          Inputs,          \* inputs of execute
          Edits,           \* edits operators queue
          MaxHandles,      \* bound on states alive at a time
          MaxAsked         \* bound on requests to existing sessions, restores included

ASSUME PoliteAreSessions == Polite \subseteq Sessions
ASSUME BoundsAreNat      == MaxHandles \in Nat /\ MaxAsked \in Nat

VARIABLES sessions,     \* AppState::sessions: id -> handle
          states,       \* the state behind each handle
          checkpoints,  \* MemoryCheckpointer, in the order of saving
          calls,        \* requests in flight
          lastRequest,  \* the last approval request id drawn
          asked         \* requests sent so far (for the bound only)

vars == <<sessions, states, checkpoints, calls, lastRequest, asked>>

Handles == 1 .. MaxHandles
NoInput == "no input"
Fresh   == [review |-> NoReview, input |-> NoInput, output |-> NoInput]

Idle == [op |-> "idle"]
\* with_session_mut serves hitl_pause, hitl_edit, hitl_approve and hitl_deny: a
\* review request is one of the four.
Ops  == {"execute", "checkpoint", "review"}

Live     == DOMAIN sessions
Held     == {calls[c].handle : c \in {d \in Calls : calls[d] # Idle}}
InUse    == {sessions[s] : s \in Live} \cup Held
StateOf(s) == states[sessions[s]]

Init ==
  /\ sessions = <<>>
  /\ states = [h \in Handles |-> Fresh]
  /\ checkpoints = <<>>
  /\ calls = [c \in Calls |-> Idle]
  /\ lastRequest = NoRequest
  /\ asked = 0

-----------------------------------------------------------------------------
\* Sessions begin.


\* A state is freed with its last handle.
Unused == Handles \ InUse

\* What freed handles led to is forgotten.
StatesBecome(new) == states' = [h \in Handles |-> IF h \in InUse' THEN new[h] ELSE Fresh]

\* The session leads to a new shared state from now on.
Points(s, state) ==
  \E h \in Unused :
    /\ \A g \in Unused : h <= g
    /\ sessions' = [t \in Live \cup {s} |-> IF t = s THEN h ELSE sessions[t]]
    /\ UNCHANGED <<checkpoints, calls, lastRequest>>
    /\ StatesBecome([states EXCEPT ![h] = state])

CreateSession(s) == s \notin Live /\ Points(s, Fresh) /\ UNCHANGED asked

Asks(s) ==
  /\ s \in Polite => \A c \in Calls : calls[c] # Idle => calls[c].session # s
  /\ asked < MaxAsked
  /\ asked' = asked + 1

\* By the id of any checkpoint, of this session or another (a checkpoint never
\* changes, so loading it and replacing the handle are one step), or from a body:
\* a state the client kept is like a checkpoint, one that does not parse is
\* replaced by a new state.
Restore(s) ==
  /\ Asks(s)
  /\ \E state \in {checkpoints[k].state : k \in DOMAIN checkpoints} \cup {Fresh} :
       Points(s, state)

-----------------------------------------------------------------------------
\* Requests to a session.

\* get_session_shared
Lookup(c, s, op) ==
  /\ calls[c] = Idle
  /\ s \in Live
  /\ Asks(s)
  /\ calls' = [calls EXCEPT ![c] = [op |-> op, at |-> "found", session |-> s,
                                    handle |-> sessions[s], copy |-> Fresh]]
  /\ UNCHANGED <<sessions, states, checkpoints, lastRequest>>

At(c, op, at) == calls[c] # Idle /\ calls[c].op = op /\ calls[c].at = at

Continues(c, at, copy) == calls' = [calls EXCEPT ![c].at = at, ![c].copy = copy]
Answers(c) == calls' = [calls EXCEPT ![c] = Idle]

\* Mutant: execute begins with a new agent state.
CopyFresh(c) ==
  /\ At(c, "execute", "found")
  /\ \E input \in Inputs : Continues(c, "running", [Fresh EXCEPT !.input = input])
  /\ UNCHANGED <<sessions, states, checkpoints, lastRequest, asked>>

Copy(c) ==
  /\ At(c, "execute", "found")
  /\ \E input \in Inputs :
       Continues(c, "running", [states[calls[c].handle] EXCEPT !.input = input])
  /\ UNCHANGED <<sessions, states, checkpoints, lastRequest, asked>>

\* What the two nodes of the workflow make of a state.
Ran(state) == [state EXCEPT !.output = state.input]

\* Mutant: the workflow reads its input from the session instead of the copy.
RunShared(c) ==
  LET h    == calls[c].handle
      done == [Ran(calls[c].copy) EXCEPT !.output = states[h].input]
  IN  /\ At(c, "execute", "running")
      /\ states' = [states EXCEPT ![h] = done]
      /\ Continues(c, "saving", done)
      /\ UNCHANGED <<sessions, checkpoints, lastRequest, asked>>

\* The workflow runs on the copy, and write_back_session replaces the state.
Run(c) ==
  LET done == Ran(calls[c].copy)
  IN  /\ At(c, "execute", "running")
      /\ states' = [states EXCEPT ![calls[c].handle] = done]
      /\ Continues(c, "saving", done)
      /\ UNCHANGED <<sessions, checkpoints, lastRequest, asked>>

Snapshot(c) ==
  /\ At(c, "checkpoint", "found")
  /\ Continues(c, "saving", states[calls[c].handle])
  /\ UNCHANGED <<sessions, states, checkpoints, lastRequest, asked>>

\* execute and checkpoint save their copy and answer.
SaveCopy(c, op) ==
  /\ At(c, op, "saving")
  /\ checkpoints' = Append(checkpoints,
       [session |-> calls[c].session, op |-> op, state |-> calls[c].copy])
  /\ Answers(c)
  /\ UNCHANGED <<sessions, lastRequest, asked>>
  /\ StatesBecome(states)

\* with_session_mut: one change of the review, or an error and none.
Review(c) == states[calls[c].handle].review

Reviews(c, review) ==
  /\ At(c, "review", "found")
  /\ Answers(c)
  /\ UNCHANGED <<sessions, checkpoints, asked>>
  /\ StatesBecome([states EXCEPT ![calls[c].handle].review = review])

HitlPause(c) ==
  /\ lastRequest' = lastRequest + 1
  /\ Reviews(c, Pause(Review(c), lastRequest + 1))

HitlEdit(c) ==
  /\ UNCHANGED lastRequest
  /\ \E edits \in Edits :
       Reviews(c, IF MayQueueEdits(Review(c)) THEN QueueEdits(Review(c), edits) ELSE Review(c))

HitlDecide(c, verdict) ==
  /\ UNCHANGED lastRequest
  /\ Reviews(c, IF MayDecide(Review(c)) THEN Decide(Review(c), verdict) ELSE Review(c))

Handler(c) ==
  \/ Copy(c) \/ Run(c) \/ SaveCopy(c, "execute")
  \/ Snapshot(c) \/ SaveCopy(c, "checkpoint")
  \/ HitlPause(c) \/ HitlEdit(c) \/ HitlDecide(c, "approved") \/ HitlDecide(c, "denied")

Next == \/ \E s \in Sessions : CreateSession(s) \/ Restore(s)
        \/ \E c \in Calls : \/ \E s \in Sessions, op \in Ops : Lookup(c, s, op)
                            \/ Handler(c)

Spec == Init /\ [][Next]_vars

-----------------------------------------------------------------------------
\* The variables are well formed; no two sessions lead to the same state, and a
\* request holds its own session's state or one no session leads to any more
\* (a handle is freed with its last owner).
TypeOK ==
  /\ Live \subseteq Sessions /\ \A s \in Live : sessions[s] \in Handles
  /\ \A s, t \in Live : sessions[s] = sessions[t] => s = t
  /\ lastRequest \in 0 .. asked /\ Len(checkpoints) <= asked
  /\ \A c \in Calls : calls[c] # Idle =>
       /\ calls[c].session \in Live /\ calls[c].op \in Ops
       /\ \A s \in Live : sessions[s] = calls[c].handle => s = calls[c].session

\* Every agent state the server can still show or restore.
Kept == {StateOf(s) : s \in Live} \cup {checkpoints[k].state : k \in DOMAIN checkpoints}

\* However pauses, edits, decisions, executions, checkpoints and restores
\* interleave, the review part of every state that can be seen or restored tells
\* one story: what is pending, decided, queued and logged agree (hitl_*
\* handlers, execute's write-back and restore).
ReviewsAreConsistent == \A state \in Kept : Consistent(state.review)

\* execute works on a copy of its own: no state shows the output of one
\* execution beside the input of another (execute, write_back_session).
ExecutionsDoNotMix == \A state \in Kept : state.output = state.input

\* What one request makes of a state it meets.
Served(state) ==
  {state} \cup {Ran([state EXCEPT !.input = input]) : input \in Inputs}
          \cup {[state EXCEPT !.review = r] :
                  r \in {Pause(state.review, lastRequest + 1)}
                        \cup {QueueEdits(state.review, e) : e \in Edits}
                        \cup {Decide(state.review, v) : v \in Verdicts}}

\* A session whose client waits for each answer loses nothing, whatever the
\* other sessions' clients do: each request takes effect as a whole on the state
\* the one before it left (the handlers of execute and hitl_*).
PoliteSessionsAreAtomic ==
  [][\A s \in Live \cap Polite :
       sessions'[s] = sessions[s] => StateOf(s)' \in Served(StateOf(s))]_vars

\* hitl/types.rs calls approval_events an append-only audit log: as long as a
\* session keeps its state, its log only grows.
AuditLogIsAppendOnly ==
  [][\A s \in Live :
       sessions'[s] = sessions[s] => IsPrefix(StateOf(s).review.log, StateOf(s)'.review.log)]_vars
=============================================================================

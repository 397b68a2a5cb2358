--------------------------- MODULE KeyValueStore ---------------------------
(***************************************************************************)
(* What the persistence worker promises its callers: an operation takes    *)
(* effect once, at one moment between its call and its answer, the answer  *)
(* is that operation's result, and an operation answered with Failed has   *)
(* no effect and never will. Operations fail only once the store closed.   *)
(***************************************************************************)
CONSTANTS
  Clients, Keys, Values,
  Missing,     \* "no value under this key"
  NoCall,      \* "this client has no call"
  Pending,     \* "not answered"
  Done,        \* the answer to Set and Delete
  Failed       \* the answer to an operation that was not done

VARIABLES
  store,    \* the value under each key
  call,     \* call[c]: the operation client c has called
  answer,   \* answer[c]: its answer
  open      \* operations may take effect

vars == <<store, call, answer, open>>

Operations == [op : {"Set"}, key : Keys, value : Values] \cup [op : {"Get", "Delete"}, key : Keys]

Effect(s, o) ==
  CASE o.op = "Set" -> [s EXCEPT ![o.key] = o.value]
    [] o.op = "Delete" -> [s EXCEPT ![o.key] = Missing]
    [] o.op = "Get" -> s

Result(s, o) == IF o.op = "Get" THEN s[o.key] ELSE Done

Init ==
  /\ store = [k \in Keys |-> Missing]
  /\ call = [c \in Clients |-> NoCall]
  /\ answer = [c \in Clients |-> Pending]
  /\ open = TRUE

Invoke(c, o) ==
  /\ call[c] = NoCall
  /\ call' = [call EXCEPT ![c] = o]
  /\ UNCHANGED <<store, answer, open>>

Perform(c) ==
  /\ open /\ call[c] # NoCall /\ answer[c] = Pending
  /\ store' = Effect(store, call[c])
  /\ answer' = [answer EXCEPT ![c] = Result(store, call[c])]
  /\ UNCHANGED <<call, open>>

Reject(c) ==
  /\ ~open /\ call[c] # NoCall /\ answer[c] = Pending
  /\ answer' = [answer EXCEPT ![c] = Failed]
  /\ UNCHANGED <<store, call, open>>

Return(c) ==
  /\ answer[c] # Pending
  /\ call' = [call EXCEPT ![c] = NoCall]
  /\ answer' = [answer EXCEPT ![c] = Pending]
  /\ UNCHANGED <<store, open>>

Close ==
  /\ open /\ open' = FALSE
  /\ UNCHANGED <<store, call, answer>>

Next ==
  \/ \E c \in Clients : Perform(c) \/ Reject(c) \/ Return(c) \/ \E o \in Operations : Invoke(c, o)
  \/ Close

Spec == Init /\ [][Next]_vars

=============================================================================

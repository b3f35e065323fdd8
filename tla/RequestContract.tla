-------------------------- MODULE RequestContract ---------------------------
(***************************************************************************)
(* What the host may rely on, request by request, without queues, tasks or  *)
(* stores: a request is refused or accepted; an accepted one ends with one  *)
(* terminal; what is reported has ended, and is reported once.  Only a      *)
(* session change takes an answer away, and it never takes a request that   *)
(* holds a gate before that request has ended.                              *)
(***************************************************************************)
CONSTANTS Ids,    \* request identifiers
          Codes   \* terminal codes

VARIABLES state,     \* state of each request
          owner,     \* the requests that own the motion or the STOP gate
          terminals  \* the terminals each request got, with their codes

States == {"none", "refused", "accepted", "ended", "reported", "dropped"}

Init == /\ state = [i \in Ids |-> "none"]
        /\ owner = {}
        /\ terminals = [i \in Ids |-> {}]

Refuse(i) == state[i] = "none" /\ state'[i] = "refused"
Accept(i) == state[i] = "none" /\ state'[i] = "accepted"
End(i) == /\ state[i] = "accepted" /\ state'[i] = "ended"
          /\ \E t \in terminals'[i] : terminals'[i] = {t} /\ t.code \in Codes
Report(i) == state[i] = "ended" /\ state'[i] = "reported"
Drop(i) == /\ state[i] = "ended" \/ (state[i] = "accepted" /\ i \notin owner)
           /\ state'[i] = "dropped"
Rest(i) == state'[i] = state[i]

\* One step of the system may move several requests, each by one edge; only
\* End gives a terminal, and owning a gate is for ever.
Next == /\ \A i \in Ids :
             \/ End(i)
             \/ /\ Refuse(i) \/ Accept(i) \/ Report(i) \/ Drop(i) \/ Rest(i)
                /\ terminals'[i] = terminals[i]
        /\ owner \subseteq owner'

Spec == Init /\ [][Next]_<<state, owner, terminals>>
=============================================================================

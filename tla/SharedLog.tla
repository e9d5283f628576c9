----------------------------- MODULE SharedLog -----------------------------
(***************************************************************************)
(* What the synchronisation of a transcript promises when the agent of one *)
(* machine writes it: the origin's transcript is the log; its steps become *)
(* public one by one, in any order, and stay public with the content they  *)
(* have; every other machine's copy only grows, in the order of the        *)
(* indices, by steps that are public.  A step is its index and what the    *)
(* agent wrote: the machine_id it carries is left out, since it does not   *)
(* stay unchanged.                                                         *)
(***************************************************************************)
EXTENDS Integers, Sequences

CONSTANTS Machine, Origin, MaxIndex

VARIABLES
  copy,       \* copy[m]: the transcript of machine m
  published   \* the steps the other machines can read

logVars == <<copy, published>>

Steps(m) == {copy[m][k] : k \in DOMAIN copy[m]}
Beyond(m, s) == \A t \in Steps(m) : t.idx < s.idx

Init ==
  /\ copy = [m \in Machine |-> <<>>]
  /\ published = {}

(* The agent extends the log by the step that follows its last one.        *)
Write ==
  \E i \in 0 .. MaxIndex :
    /\ i = Len(copy[Origin])
    /\ copy' = [copy EXCEPT ![Origin] = Append(@, [idx |-> i, by |-> Origin])]
    /\ UNCHANGED published

Publish ==
  \E s \in Steps(Origin) :
    /\ published' = published \cup {s}
    /\ UNCHANGED copy

Learn(m) ==
  \E s \in published :
    /\ m # Origin
    /\ Beyond(m, s)
    /\ copy' = [copy EXCEPT ![m] = Append(@, s)]
    /\ UNCHANGED published

Next == Write \/ Publish \/ \E m \in Machine : Learn(m)

Spec == Init /\ [][Next]_logVars

=============================================================================

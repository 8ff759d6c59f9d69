------------------------------ MODULE Sentence ------------------------------
(***************************************************************************)
(* The grammar of the word card game                                       *)
(* (gdserver/server/src/servers/battle/game.go): which part of speech may  *)
(* follow which, and where a card may be inserted into the sentence on the *)
(* table.  Positions count from 0, as in the code.                         *)
(***************************************************************************)
EXTENDS Integers, Sequences, SequencesExt

Entities == {"NP-HUMAN-PRONOUN", "NP-HUMAN-KINSHIP", "NP-HUMAN-NAME"}
Manner   == {"Adv-MANNER", "V-EVENT"}

POS == {"Adv-TIME-DATE", "Adv-TIME-PART", "Adv-LOC", "Adj"} \cup Entities \cup Manner

allowedNext ==
  [p \in POS |->
     CASE p = "Adv-TIME-DATE"    -> POS \ {"Adv-TIME-DATE"}
       [] p = "Adv-TIME-PART"    -> POS \ {"Adv-TIME-DATE", "Adv-TIME-PART"}
       [] p = "Adv-LOC"          -> Manner
       [] p = "Adj"              -> Entities \cup {"Adj"}
       [] p = "NP-HUMAN-PRONOUN" -> Manner \cup {"NP-HUMAN-KINSHIP", "Adv-LOC"}
       [] p = "NP-HUMAN-KINSHIP" -> Manner \cup {"Adv-LOC"}
       [] p = "NP-HUMAN-NAME"    -> Manner \cup {"Adv-LOC"}
       [] p = "Adv-MANNER"       -> {"V-EVENT"}
       [] p = "V-EVENT"          -> {}]

(* The slice expression of playCard, for a position within the slice. *)
Insert(s, e, index) == InsertAt(s, index + 1, e)

(* Every word may follow the one before it. *)
Grammatical(seq) ==
  \A i \in 1..(Len(seq) - 1) : seq[i + 1] \in allowedNext[seq[i]]

-----------------------------------------------------------------------------
(* A plausible slip: an insertion looks only at the word before it. *)
canInsertAfterOnly(seq, pos, index) ==
  (seq # <<>> /\ index > 0) => pos \in allowedNext[seq[index]]

(* canInsert, for an index at which it does not panic. *)
canInsert(seq, pos, index) ==
  \/ seq = <<>>
  \/ /\ index > 0 => pos \in allowedNext[seq[index]]
     /\ index < Len(seq) => seq[index + 1] \in allowedNext[pos]

(* canInsert and the slice expressions after it index out of range: an     *)
(* empty table accepts every position and then has no room for it.         *)
Panics(seq, index) == index < 0 \/ index > Len(seq)
=============================================================================

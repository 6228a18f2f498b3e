------------------------------ MODULE ErrorLog ------------------------------
(***************************************************************************)
(* What SyntaxErrors promises: diagnostics as nested transactions.  A      *)
(* transaction has a candidate (its best error, if any) and the errors its *)
(* committed children handed to it.  Committing hands both to the parent,  *)
(* or publishes them when there is none; aborting drops both and touches   *)
(* nothing else.  There is no shared buffer and there are no indices.      *)
(***************************************************************************)
EXTENDS Naturals, Sequences

CONSTANT Error

VARIABLES transactions,   \* open transactions, innermost last
          published       \* the errors the caller of the parser gets

logVars == <<transactions, published>>

Depth == Len(transactions)

Parents == SubSeq(transactions, 1, Depth - 1)

LogInit == transactions = <<>> /\ published = <<>>

Begin == /\ transactions' = Append(transactions, [candidate |-> <<>>, kept |-> <<>>])
         /\ UNCHANGED published

(* A new candidate replaces the old one, or is ignored. *)
Propose(err) == /\ Depth > 0
                /\ transactions' = [transactions EXCEPT ![Depth].candidate = <<err>>]
                /\ UNCHANGED published

PublishDirectly(err) == /\ Depth = 0
                        /\ published' = Append(published, err)
                        /\ UNCHANGED transactions

Result == transactions[Depth].kept \o transactions[Depth].candidate

CommitToParent == /\ Depth > 1
                  /\ transactions' = [Parents EXCEPT ![Depth - 1].kept = @ \o Result]
                  /\ UNCHANGED published

CommitOutermost == /\ Depth = 1
                   /\ transactions' = <<>>
                   /\ published' = published \o Result

Abort == /\ Depth > 0
         /\ transactions' = Parents
         /\ UNCHANGED published

LogNext == \/ Begin \/ CommitToParent \/ CommitOutermost \/ Abort
           \/ \E err \in Error : Propose(err) \/ PublishDirectly(err)

LogSpec == LogInit /\ [][LogNext]_logVars
=============================================================================

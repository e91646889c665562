------------------------------- MODULE Ledger --------------------------------
(***************************************************************************)
(* What the warehouse promises, without transactions, locks or             *)
(* projections: a book to which one legal movement at a time is appended.  *)
(* Legality is judged from the book alone.                                 *)
(***************************************************************************)
EXTENDS Journal

VARIABLE book   \* the movements so far, oldest first

\* Every balance that m changes stays within the supported range.
Covered(m) ==
  LET b == Append(book, m) IN
  /\ \A i \in DOMAIN m.lines, l \in Places(m) : InRange(JournalStock(b, i, l))
  /\ m.custody # None =>
       \A i \in DOMAIN m.lines : InRange(JournalCustody(b, m.custody, i))

\* A reversal undoes exactly one movement, once.
UndoesOnce(m) ==
  /\ m.src = book[m.orig].dst /\ m.dst = book[m.orig].src
  /\ m.lines = book[m.orig].lines /\ m.custody = book[m.orig].custody
  /\ \A n \in DOMAIN book : ~(book[n].type = "REVERSAL" /\ book[n].orig = m.orig)

\* A correction concerns its original, which nobody holds in custody.
Concerns(m) ==
  /\ book[m.orig].custody = None
  /\ DOMAIN m.lines \subseteq DOMAIN book[m.orig].lines
  /\ Places(m) \cap Places(book[m.orig]) # {}

Legal(m) ==
  /\ ValidPositions(m)
  /\ \A n \in DOMAIN book : ~SameKey(book[n], m)
  /\ m.orig # 0 => m.orig \in DOMAIN book /\ book[m.orig].type # "REVERSAL"
  /\ m.type = "REVERSAL" => UndoesOnce(m)
  /\ m.type = "CORRECTION" => Concerns(m)
  /\ Covered(m)

Init == book = <<>>

Enter(m) == Legal(m) /\ book' = Append(book, m)

\* One movement at a time, and it stays where it was entered.
Next ==
  /\ Len(book') = Len(book) + 1
  /\ book'[Len(book')] \in Movements
  /\ Enter(book'[Len(book')])

Spec == Init /\ [][Next]_book
=============================================================================

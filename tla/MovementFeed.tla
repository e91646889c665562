---------------------------- MODULE MovementFeed ----------------------------
(***************************************************************************)
(* The history feed: pages of the movement journal, newest first, read     *)
(* through a signed cursor while movements are being posted.               *)
(*                                                                         *)
(* A movement gets its time, its transaction id and its journal number at  *)
(* three different moments and becomes visible at a fourth, so none of the *)
(* four orders agrees with another.  The first page takes a snapshot of    *)
(* the database, the later ones carry it in their cursor; every page is a  *)
(* statement of its own and reads what is committed when it runs.  The     *)
(* page in the browser keeps a stack of cursors and goes forward and back. *)
(*                                                                         *)
(* Of the filters three are kept, which differ in what they depend on: the *)
(* actor (on the reader's role), the period (on the time of the snapshot)  *)
(* and the long range view (on the catalog as it is when a page is read).  *)
(* The signature of a cursor is left out: a client sends back what it got. *)
(***************************************************************************)
EXTENDS Integers, FiniteSets, Sequences, SequencesExt, FiniteSetsExt, Policy

CONSTANTS
  Writers,      \* transactions that post movements
  Author,       \* the user each of them acts for
  Moved,        \* the items it may move
  Items,
  LongItems,    \* items that reach 2000 m at first
  Reader,       \* the user who reads the feed
  ReaderRoles,  \* roles that the reader is given
  Asks,         \* filters that the reader chooses
  Limit,        \* movements on a page
  Period,       \* how far a bounded period reaches back
  CursorTTL,    \* _CURSOR_TTL_SECONDS
  XidWidth,     \* transaction ids that xmin tells apart, 2^32 in PostgreSQL
  MaxClock,     \* bound on the moments that are told apart
  MaxTurns,     \* bound on going back, asking again and changing a filter
  None

\* A row of movements: its journal number, xmin, time, item and actor.
Movements ==
  [seq : Nat, xid : Nat, at : Nat, item : Items, actor : {Author[w] : w \in Writers}]

\* The filters a request is granted.
Scopes ==
  [actor : Range(Author) \cup {Reader, None}, long : BOOLEAN, bounded : BOOLEAN]

\* What a cursor carries; committed and selected are history, for the
\* properties.
Cursors ==
  [at : Nat, snapshot : [xmax : Nat, xip : SUBSET Nat], before : Nat \cup {None},
   iat : Nat, scope : Scopes, committed : SUBSET Movements, selected : SUBSET Movements]

ASSUME FeedAssumption ==
  /\ Moved \in [Writers -> SUBSET Items]
  /\ LongItems \subseteq Items /\ ReaderRoles \subseteq Roles
  /\ Asks \subseteq Scopes
  /\ {Limit, XidWidth} \subseteq Nat \ {0}
  /\ {Period, CursorTTL, MaxClock, MaxTurns} \subseteq Nat
  /\ None \notin Items /\ None \notin Cursors

VARIABLES
  clock,    \* the database's clock; every reading of it differs
  xids,     \* the last transaction id
  seqs,     \* the last journal number, movements_journal_seq_seq
  tx,       \* the movement that each writer is about to commit
  journal,  \* the committed movements
  catalog,  \* reach of each item and when it was last edited
  role,     \* the reader's role
  phase,    \* stage of the request for a page
  ask,      \* the filters in the browser
  scope,    \* the filters the request was granted
  stack,    \* cursorStack, with what each page left behind showed
  data,     \* the answer: its cursor, its movements and the next cursor
  turns

tables == <<journal, catalog, role>>
client == <<phase, ask, scope, stack, data, turns>>
vars == <<clock, xids, seqs, tx, journal, catalog, role, phase, ask, scope, stack, data, turns>>

Idle == [stage |-> "idle", at |-> 0, xid |-> 0, seq |-> 0, item |-> None]
Top  == stack[Len(stack)]

\* A page of the stack: the cursor that asks for it (none for the first page
\* at first), and what it showed when it was left.
Page(cursor) == [cursor |-> cursor, left |-> None]

Init ==
  /\ clock = 0 /\ xids = 0 /\ seqs = 0 /\ turns = 0
  /\ tx = [w \in Writers |-> Idle]
  /\ journal = {}
  /\ catalog = [i \in Items |-> [long |-> i \in LongItems, edited |-> 0]]
  /\ role \in ReaderRoles
  /\ ask \in Asks
  /\ phase = "asked" /\ scope = None /\ data = None /\ stack = <<Page(None)>>

Time == clock < MaxClock /\ clock' = clock + 1

-----------------------------------------------------------------------------
(* Movements                                                                *)

\* _create_movement reads the time once it has the lock of its key.
StampMovement(w) ==
  /\ tx[w] = Idle /\ Time
  /\ tx' = [tx EXCEPT ![w].stage = "stamped", ![w].at = clock]
  /\ UNCHANGED <<xids, seqs, tables, client>>

\* The first row lock makes the transaction ask for an id; writers of the
\* same item wait for each other.
LockItem(w) ==
  /\ tx[w].stage = "stamped"
  /\ \E i \in Moved[w] :
       /\ \A v \in Writers : tx[v].item # i
       /\ tx' = [tx EXCEPT ![w].stage = "locked", ![w].xid = xids + 1, ![w].item = i]
  /\ xids' = xids + 1
  /\ UNCHANGED <<clock, seqs, tables, client>>

\* The insert takes the next journal number.
InsertMovement(w) ==
  /\ tx[w].stage = "locked"
  /\ seqs' = seqs + 1
  /\ tx' = [tx EXCEPT ![w].stage = "inserted", ![w].seq = seqs + 1]
  /\ UNCHANGED <<clock, xids, tables, client>>

CommitMovement(w) ==
  /\ tx[w].stage = "inserted"
  /\ journal' = journal \cup {[seq |-> tx[w].seq, xid |-> tx[w].xid, at |-> tx[w].at,
                               item |-> tx[w].item, actor |-> Author[w]]}
  /\ tx' = [tx EXCEPT ![w] = Idle]
  /\ UNCHANGED <<clock, xids, seqs, catalog, role, client>>

\* A refused movement leaves a gap in the journal numbers.
AbortMovement(w) ==
  /\ tx[w] # Idle
  /\ tx' = [tx EXCEPT ![w] = Idle]
  /\ UNCHANGED <<clock, xids, seqs, tables, client>>

\* update_item changes the reach of an item whose row nobody has locked.
EditItem(i) ==
  /\ \A w \in Writers : tx[w].item # i
  /\ Time
  /\ catalog' = [catalog EXCEPT ![i] = [long |-> ~@.long, edited |-> clock]]
  /\ UNCHANGED <<xids, seqs, tx, journal, role, client>>

AssignRole(r) ==
  /\ r # role /\ role' = r
  /\ UNCHANGED <<clock, xids, seqs, tx, journal, catalog, client>>

-----------------------------------------------------------------------------
(* A page of the feed                                                       *)

\* pg_current_snapshot: ids from xmax on and those of open transactions are
\* not visible in it.
CurrentSnapshot ==
  [xmax |-> xids + 1, xip |-> {tx[w].xid : w \in Writers} \ {0}]

\* Mutant: whatever is committed is on the page.
VisibleAlways(x, s) == TRUE

\* pg_visible_in_snapshot of a row's xmin, which is cast from its 32 bits.
\* Rows of a transaction in progress are the reader's own: it writes none.
Visible(x, s) == x % XidWidth < s.xmax /\ x % XidWidth \notin s.xip

\* The filters of a page, with the catalog as it is now.
Selected(r, s, snapshot_at) ==
  /\ s.actor # None => r.actor = s.actor
  /\ s.long => catalog[r.item].long
  /\ s.bounded => r.at >= snapshot_at - Period
  /\ r.at < snapshot_at

\* The movements from a cursor on.
Following(cursor) ==
  {r \in journal : /\ Selected(r, scope, cursor.at)
                   /\ Visible(r.xid, cursor.snapshot)
                   /\ cursor.before # None => r.seq < cursor.before}

\* get_movement_feed, up to its first statement: who may not read the whole
\* journal reads the own movements.
Authorize ==
  LET all == role \in ReadAllRoles IN
  /\ phase = "asked"
  /\ IF role \in MovementReadRoles /\ (all \/ ask.actor \in {None, Reader})
     THEN /\ scope' = [ask EXCEPT !.actor = IF all THEN @ ELSE Reader]
          /\ phase' = "authorized"
     ELSE /\ scope' = None
          /\ phase' = "refused"
  /\ UNCHANGED <<clock, xids, seqs, tx, tables, ask, stack, data, turns>>

\* acquire_movement_feed_snapshot.  The cursor holds a digest of the filters,
\* which no other filters share; the committed movements are remembered for
\* the properties.
AcquireSnapshot ==
  /\ phase = "authorized" /\ Top.cursor = None
  /\ clock' = clock + 1
  /\ data' = [cursor |-> [at |-> clock, snapshot |-> CurrentSnapshot, before |-> None,
                          iat |-> clock, scope |-> scope,
                          committed |-> journal,
                          selected |-> {r \in journal : Selected(r, scope, clock)}],
              rows |-> {}, next |-> None]
  /\ phase' = "reading"
  /\ UNCHANGED <<xids, seqs, tx, tables, ask, scope, stack, turns>>

\* decode_movement_feed_cursor refuses a cursor that is old or was issued for
\* other filters.
DecodeCursor ==
  LET c == Top.cursor IN
  /\ phase = "authorized" /\ c # None
  /\ IF clock - c.iat <= CursorTTL /\ c.scope = scope
     THEN /\ data' = [cursor |-> c, rows |-> {}, next |-> None]
          /\ phase' = "reading"
     ELSE /\ data' = None
          /\ phase' = "refused"
  /\ UNCHANGED <<clock, xids, seqs, tx, tables, ask, scope, stack, turns>>

\* encode_movement_feed_cursor: the next cursor continues below the last
\* movement of the page and is issued anew.
NextCursor(cursor, page) == [cursor EXCEPT !.before = Min(page), !.iat = clock]

\* list_movements_cursor and the answer.
ReadPage ==
  LET matching == {r.seq : r \in Following(data.cursor)}
      page == {n \in matching : Cardinality({m \in matching : m > n}) < Limit}
  IN /\ phase = "reading"
     /\ data' = [data EXCEPT
          !.rows = {r \in journal : r.seq \in page},
          !.next = IF page = matching THEN None
                   ELSE NextCursor(data.cursor, page)]
     /\ phase' = "shown"
     /\ UNCHANGED <<clock, xids, seqs, tx, tables, ask, scope, stack, turns>>

-----------------------------------------------------------------------------
(* The page in the browser                                                  *)

\* Mutant: the first page of the stack stays without a cursor.
PinnedNot == [Top EXCEPT !.left = data.rows]

\* The page that is left keeps the cursor of its answer.
Pinned == [cursor |-> data.cursor, left |-> data.rows]

Ask(pages) == stack' = pages /\ phase' = "asked" /\ data' = None /\ scope' = None

Turn == turns < MaxTurns /\ turns' = turns + 1

\* Mutant: the page is asked for again and again.
GoNextAgain ==
  /\ phase = "shown" /\ data.next # None
  /\ Ask(Append(Front(stack), Pinned))
  /\ UNCHANGED <<clock, xids, seqs, tx, tables, ask, turns>>

GoNext ==
  /\ phase = "shown" /\ data.next # None
  /\ Ask(Front(stack) \o <<Pinned, Page(data.next)>>)
  /\ UNCHANGED <<clock, xids, seqs, tx, tables, ask, turns>>

GoBack ==
  /\ phase \in {"shown", "refused"} /\ Len(stack) > 1 /\ Turn
  /\ Ask(Front(stack))
  /\ UNCHANGED <<clock, xids, seqs, tx, tables, ask>>

\* The query is run again (the window gets the focus, the request is retried).
Refetch ==
  /\ phase \in {"shown", "refused"} /\ Turn
  /\ Ask(stack)
  /\ UNCHANGED <<clock, xids, seqs, tx, tables, ask>>

\* Another filter starts at the first page.
SetFilter(a) ==
  /\ phase \in {"shown", "refused"} /\ a # ask /\ Turn
  /\ ask' = a /\ Ask(<<Page(None)>>)
  /\ UNCHANGED <<clock, xids, seqs, tx, tables>>

-----------------------------------------------------------------------------
Request == Authorize \/ AcquireSnapshot \/ DecodeCursor \/ ReadPage

Next ==
  \/ \E w \in Writers : \/ StampMovement(w) \/ LockItem(w) \/ InsertMovement(w)
                        \/ CommitMovement(w) \/ AbortMovement(w)
  \/ \E i \in Items : EditItem(i)
  \/ \E r \in ReaderRoles : AssignRole(r)
  \/ Request \/ GoNext \/ GoBack \/ Refetch
  \/ \E a \in Asks : SetFilter(a)

\* Requests are answered, and the reader turns the pages.
Spec == Init /\ [][Next]_vars /\ WF_vars(Request) /\ WF_vars(GoNext)

-----------------------------------------------------------------------------
(* Properties                                                               *)

\* Movements whose item has not been edited since the snapshot was taken.
Steady(rows) == {r \in rows : catalog[r.item].edited < data.cursor.at}

\* However movements commit while a reader turns the pages, a page holds the
\* movements that were committed when the first page was read, from its cursor
\* down to the next page's, all of them and no other, under the filters of the
\* first page.
FeedIsSnapshot ==
  phase = "shown" =>
    LET c    == data.cursor
        from == IF data.next = None THEN 0 ELSE data.next.before
    IN /\ data.rows \subseteq c.committed
       /\ Cardinality(data.rows) <= Limit
       /\ Steady(data.rows) =
            {r \in Steady(c.selected) :
               r.seq >= from /\ (c.before # None => r.seq < c.before)}

\* The catalog does not matter to the filters of c, or no item that had
\* moved was edited since the snapshot: an edit may move a movement off its
\* page, and the next page's first one onto it.
Calm(c) == c.scope.long => \A r \in c.committed : catalog[r.item].edited < c.at

\* Going back to a page shows the movements that it showed.
PagesStay ==
  phase = "shown" /\ Top.left # None /\ Calm(data.cursor) => data.rows = Top.left

\* Turning the pages ends at the last page or with a refusal.
PagingEnds ==
  phase = "shown" ~> phase = "refused" \/ (phase = "shown" /\ data.next = None)
=============================================================================

------------------------- MODULE MovementFeedProofs -------------------------
(***************************************************************************)
(* Theorems about module MovementFeed, for any number of writers, pages    *)
(* and filters.                                                            *)
(***************************************************************************)
EXTENDS MovementFeed, FiniteLemmas, SequenceTheorems

Open == {"locked", "inserted"}

Jobs == [stage : {"idle", "stamped", "locked", "inserted"}, at : Nat, xid : Nat, seq : Nat,
         item : Items \cup {None}]

Pages == [cursor : Cursors \cup {None}, left : (SUBSET Movements) \cup {None}]

Answers == [cursor : Cursors, rows : SUBSET Movements, next : Cursors \cup {None}]

\* The transaction ids have not come round.
Unwrapped == xids < XidWidth

\* Clocks and rows.
TablesTyped ==
  /\ clock \in Nat /\ xids \in Nat /\ seqs \in Nat
  /\ tx \in [Writers -> Jobs]
  /\ journal \subseteq Movements /\ IsFiniteSet(journal)
  /\ catalog \in [Items -> [long : BOOLEAN, edited : Nat]]

\* A writer has an id and an item once it has locked a row, and a number once
\* it has inserted one.
WritersShaped ==
  \A w \in Writers :
    /\ tx[w].xid <= xids /\ tx[w].seq <= seqs
    /\ tx[w].xid # 0 <=> tx[w].stage \in Open
    /\ tx[w].seq # 0 <=> tx[w].stage = "inserted"
    /\ tx[w].stage \in Open => tx[w].item \in Items

\* Ids and numbers are given once.
NumbersUnique ==
  /\ \A r \in journal : r.xid \in 1 .. xids /\ r.seq \in 1 .. seqs
  /\ \A r, s \in journal : r.seq = s.seq => r = s
  /\ \A v, w \in Writers : v # w /\ tx[v].xid # 0 => tx[v].xid # tx[w].xid
  /\ \A v, w \in Writers : v # w /\ tx[v].seq # 0 => tx[v].seq # tx[w].seq
  /\ \A r \in journal, w \in Writers : r.xid # tx[w].xid /\ r.seq # tx[w].seq

Tables == TablesTyped /\ WritersShaped /\ NumbersUnique

\* A cursor's snapshot tells exactly the movements that were committed when it
\* was taken, from those that are and from those that will be.
Sound(c) ==
  /\ c \in Cursors /\ c.at < clock
  /\ c.snapshot.xmax <= xids + 1
  /\ c.committed \subseteq journal /\ c.selected \subseteq c.committed
  /\ \A r \in journal : Visible(r.xid, c.snapshot) <=> r \in c.committed
  /\ \A w \in Writers : tx[w].xid # 0 => ~Visible(tx[w].xid, c.snapshot)
  /\ \A r \in c.committed :
       catalog[r.item].edited < c.at => (r \in c.selected <=> Selected(r, c.scope, c.at))

\* The movements that a page with cursor c shows, from the snapshot alone.
Rest(c) ==
  {r \in c.committed : Selected(r, c.scope, c.at) /\ (c.before # None => r.seq < c.before)}

Numbers(c) == {r.seq : r \in Rest(c)}

Newest(M) == {x \in M : Cardinality({y \in M : y > x}) < Limit}

Shown(c) == {r \in Rest(c) : r.seq \in Newest(Numbers(c))}

\* Every page of the stack has a sound cursor, and showed what it shows.
PageSound(p) ==
  /\ p \in Pages
  /\ p.cursor # None => Sound(p.cursor)
  /\ p.left # None =>
       p.cursor # None /\ (Calm(p.cursor) => p.left = Shown(p.cursor))

PagesSound == stack \in Seq(Pages) /\ stack # <<>> /\ \A n \in 1 .. Len(stack) : PageSound(stack[n])

\* An answer holds the movements of its snapshot between its two cursors, and
\* its next cursor continues the snapshot.
Between(r, d) ==
  /\ r.seq >= IF d.next = None THEN 0 ELSE d.next.before
  /\ d.cursor.before # None => r.seq < d.cursor.before

Answered(d) ==
  /\ d.next # None => Sound(d.next)
  /\ Calm(d.cursor) => d.rows = Shown(d.cursor)
  /\ d.rows \subseteq d.cursor.committed /\ Cardinality(d.rows) <= Limit
  /\ \A r \in d.cursor.committed :
       catalog[r.item].edited < d.cursor.at =>
         (r \in d.rows <=> r \in d.cursor.selected /\ Between(r, d))

\* The request and its answer.
AnswerSound ==
  /\ ask \in Scopes
  /\ phase \in {"asked", "authorized", "reading", "shown", "refused"}
  /\ phase \in {"authorized", "reading", "shown"} => scope \in Scopes
  /\ phase \in {"reading", "shown"} =>
       /\ data \in Answers /\ Sound(data.cursor) /\ data.cursor.scope = scope
       /\ Top.cursor # None => data.cursor = Top.cursor
  /\ phase = "shown" => Answered(data)

IInv == Tables /\ PagesSound /\ AnswerSound

-----------------------------------------------------------------------------
(* The newest of a set of numbers                                           *)

\* A finite set of numbers has a least element.
LEMMA LeastOf ==
  ASSUME NEW T, T \subseteq Nat, IsFiniteSet(T), T # {}
  PROVE  Min(T) \in T /\ \A y \in T : Min(T) <= y
<1>1. T \subseteq Int
  OBVIOUS
<1>2. \E x \in T : \A y \in T : x <= y
  BY <1>1, LeastNumber
<1> QED
  BY <1>2 DEF Min

\* The greatest numbers of a finite set are no more than Limit, and there are
\* no others between them.
LEMMA NewestFacts ==
  ASSUME NEW M, M \subseteq Nat, IsFiniteSet(M)
  PROVE  /\ Newest(M) \subseteq M
         /\ IsFiniteSet(Newest(M)) /\ Cardinality(Newest(M)) <= Limit
         /\ \A x \in Newest(M), z \in M : z >= x => z \in Newest(M)
         /\ M # {} => Newest(M) # {}
<1> DEFINE n == Limit
<1>0. n \in Nat \ {0}
  BY FeedAssumption
<1> HIDE DEF n
<1> DEFINE Above(x) == {y \in M : y > x}
           P == {x \in M : Cardinality(Above(x)) < n}
<1>1. \A x : IsFiniteSet(Above(x)) /\ Cardinality(Above(x)) \in Nat
  <2>1. \A x : Above(x) \subseteq M
    OBVIOUS
  <2> HIDE DEF Above
  <2> QED
    BY <2>1, FS_Subset, FS_CardinalityType
<1>2. ASSUME NEW x \in P, NEW z \in M, z >= x PROVE z \in P
  <2>1. x \in Nat /\ z \in Nat
    OBVIOUS
  <2>2. Above(z) \subseteq Above(x)
    <3> SUFFICES ASSUME NEW y \in M, y > z PROVE y > x
      OBVIOUS
    <3> y \in Nat
      OBVIOUS
    <3> QED
      BY <1>2, <2>1
  <2>3. Cardinality(Above(z)) <= Cardinality(Above(x))
    <3> HIDE DEF Above
    <3> QED
      BY <1>1, <2>2, FS_Subset
  <2>4. Cardinality(Above(x)) < n
    OBVIOUS
  <2> HIDE DEF Above
  <2> QED
    BY <1>0, <1>1, <2>3, <2>4
<1>3. ASSUME M # {} PROVE P # {}
  <2>1. PICK x \in M : \A y \in M : y <= x
    <3>1. M \subseteq Int
      OBVIOUS
    <3> QED
      BY <1>3, <3>1, GreatestNumber
  <2>2. Above(x) = {}
    <3> SUFFICES ASSUME NEW y \in M, y > x PROVE FALSE
      OBVIOUS
    <3> x \in Nat /\ y \in Nat
      OBVIOUS
    <3> QED
      BY <2>1
  <2>3. Cardinality(Above(x)) = 0
    BY <2>2, FS_EmptySet
  <2> QED
    BY <1>0, <2>3
<1>4. IsFiniteSet(P) /\ Cardinality(P) <= n
  <2>1. P \subseteq M
    OBVIOUS
  <2>2. IsFiniteSet(P)
    BY <2>1, FS_Subset
  <2>3. CASE P = {}
    <3>1. Cardinality(P) = 0
      BY <2>3, FS_EmptySet
    <3> QED
      BY <1>0, <2>2, <3>1
  <2>4. CASE P # {}
    <3> DEFINE x == Min(P)
    <3>1. x \in P /\ \A y \in P : x <= y
      <4>1. P \subseteq Nat
        BY <2>1
      <4> HIDE DEF P
      <4> QED
        BY <2>2, <2>4, <4>1, LeastOf
    <3>2. P \ {x} \subseteq Above(x)
      <4> SUFFICES ASSUME NEW y \in P, y # x PROVE y \in M /\ y > x
        OBVIOUS
      <4>1. y \in M /\ x \in Nat /\ y \in Nat /\ x <= y
        <5> HIDE DEF x
        <5> QED
          BY <3>1
      <4> HIDE DEF x, P
      <4> QED
        BY <4>1
    <3>3. Cardinality(Above(x)) < n
      <4> HIDE DEF x
      <4> QED
        BY <3>1
    <3> HIDE DEF P, Above, x
    <3>4. Cardinality(P \ {x}) <= Cardinality(Above(x)) /\ Cardinality(P \ {x}) = Cardinality(P) - 1
      BY <1>1, <2>2, <3>1, <3>2, FS_Subset, FS_RemoveElement
    <3>5. Cardinality(P) \in Nat /\ Cardinality(Above(x)) \in Nat
      BY <1>1, <2>2, FS_CardinalityType
    <3> QED
      BY <1>0, <2>2, <3>3, <3>4, <3>5
  <2> QED
    BY <2>3, <2>4
<1>5. Newest(M) = P
  BY DEF Newest, n
<1>6. P \subseteq M
  OBVIOUS
<1> HIDE DEF P
<1> QED
  BY <1>2, <1>3, <1>4, <1>5, <1>6 DEF n

\* Below the width, xmin is the transaction id.
LEMMA Narrow ==
  ASSUME NEW x \in Nat, x < XidWidth
  PROVE  x % XidWidth = x
<1>1. XidWidth \in Nat \ {0}
  BY FeedAssumption
<1> QED
  BY <1>1

-----------------------------------------------------------------------------
(* Writers                                                                  *)

\* What a step may do to the movements and to the catalog: a movement that
\* appears carries the id of a transaction that was open, an id that appears is
\* the next one, and an item that changes is edited now.
Progress ==
  /\ clock' >= clock /\ xids' >= xids
  /\ journal \subseteq journal'
  /\ \A r \in journal' \ journal : \E w \in Writers : tx[w].xid # 0 /\ r.xid = tx[w].xid
  /\ \A w \in Writers : tx'[w].xid # 0 =>
       tx'[w].xid = tx[w].xid \/ (tx'[w].xid = xids + 1 /\ xids' = xids + 1)
  /\ \A i \in Items : catalog'[i] = catalog[i] \/ catalog'[i].edited = clock

Still == UNCHANGED <<xids, seqs, tx, journal, catalog>> /\ clock' \in {clock, clock + 1}

\* The steps of the reader and of the administrator write no table of these.
LEMMA StillSteps ==
  ASSUME \/ UNCHANGED vars \/ \E r \in ReaderRoles : AssignRole(r)
         \/ Request \/ GoNext \/ GoBack \/ Refetch \/ \E a \in Asks : SetFilter(a)
  PROVE  Still
BY DEF vars, tables, AssignRole, Request, Authorize, AcquireSnapshot, DecodeCursor, ReadPage,
       GoNext, GoBack, Refetch, SetFilter, Still

\* One lemma for each action: it keeps the tables in order and is progress.
LEMMA StillKeeps ==
  ASSUME Tables, Still
  PROVE  Tables' /\ Progress
BY DEF Tables, TablesTyped, WritersShaped, NumbersUnique, Still, Progress

LEMMA StampKeeps ==
  ASSUME Tables, NEW w \in Writers, StampMovement(w)
  PROVE  Tables' /\ Progress
<1> USE DEF Jobs, Idle, Open, tables, StampMovement, Time, Tables, TablesTyped
<1>1. TablesTyped'
  <2>1. tx' = [tx EXCEPT ![w] = [tx[w] EXCEPT !.stage = "stamped", !.at = clock]]
    OBVIOUS
  <2>2. [tx[w] EXCEPT !.stage = "stamped", !.at = clock] \in Jobs
    OBVIOUS
  <2> QED
    BY <2>1, <2>2
<1>2. WritersShaped'
  BY DEF WritersShaped
<1>3. NumbersUnique'
  BY DEF NumbersUnique
<1>4. Progress
  BY DEF Progress
<1> QED
  BY <1>1, <1>2, <1>3, <1>4

LEMMA LockKeeps ==
  ASSUME Tables, NEW w \in Writers, LockItem(w)
  PROVE  Tables' /\ Progress
<1> USE DEF Jobs, Open, tables, LockItem, Tables, TablesTyped
<1>0. Moved[w] \subseteq Items
  BY FeedAssumption
<1>1. TablesTyped'
  BY <1>0
<1>2. WritersShaped'
  BY <1>0 DEF WritersShaped
<1>3. NumbersUnique'
  BY DEF NumbersUnique, WritersShaped, Movements
<1>4. Progress
  BY DEF Progress
<1> QED
  BY <1>1, <1>2, <1>3, <1>4

LEMMA InsertKeeps ==
  ASSUME Tables, NEW w \in Writers, InsertMovement(w)
  PROVE  Tables' /\ Progress
<1> USE DEF Jobs, Open, tables, InsertMovement, Tables, TablesTyped
<1>1. TablesTyped'
  <2>1. tx' = [tx EXCEPT ![w] = [tx[w] EXCEPT !.stage = "inserted", !.seq = seqs + 1]]
    OBVIOUS
  <2>2. [tx[w] EXCEPT !.stage = "inserted", !.seq = seqs + 1] \in Jobs
    <3>1. tx[w] \in Jobs /\ seqs + 1 \in Nat
      OBVIOUS
    <3> QED
      BY <3>1
  <2> QED
    BY <2>1, <2>2
<1>2. WritersShaped'
  BY DEF WritersShaped
<1>3. NumbersUnique'
  BY DEF NumbersUnique, WritersShaped, Movements
<1>4. Progress
  BY DEF Progress
<1> QED
  BY <1>1, <1>2, <1>3, <1>4

LEMMA CommitKeeps ==
  ASSUME Tables, NEW w \in Writers, CommitMovement(w)
  PROVE  Tables' /\ Progress
<1> USE DEF Jobs, Open, CommitMovement, Tables, TablesTyped
<1> DEFINE row == [seq |-> tx[w].seq, xid |-> tx[w].xid, at |-> tx[w].at,
                   item |-> tx[w].item, actor |-> Author[w]]
<1>0. row \in Movements
  BY DEF Movements, WritersShaped
<1>1. TablesTyped'
  <2>1. IsFiniteSet(journal')
    BY FS_AddElement
  <2> QED
    BY <1>0, <2>1 DEF Idle
<1>2. WritersShaped'
  BY DEF WritersShaped, Idle
<1>3. NumbersUnique'
  BY <1>0 DEF NumbersUnique, WritersShaped, Movements, Idle
<1>4. Progress
  BY DEF Progress, WritersShaped, Idle
<1> QED
  BY <1>1, <1>2, <1>3, <1>4

LEMMA AbortKeeps ==
  ASSUME Tables, NEW w \in Writers, AbortMovement(w)
  PROVE  Tables' /\ Progress
<1> USE DEF Jobs, Open, Idle, tables, AbortMovement, Tables, TablesTyped
<1>1. TablesTyped'
  OBVIOUS
<1>2. WritersShaped'
  BY DEF WritersShaped
<1>3. NumbersUnique'
  BY DEF NumbersUnique, WritersShaped
<1>4. Progress
  BY DEF Progress
<1> QED
  BY <1>1, <1>2, <1>3, <1>4

LEMMA EditKeeps ==
  ASSUME Tables, NEW i \in Items, EditItem(i)
  PROVE  Tables' /\ Progress
<1> USE DEF EditItem, Time, Tables, TablesTyped
<1>1. TablesTyped'
  OBVIOUS
<1>2. WritersShaped' /\ NumbersUnique'
  BY DEF WritersShaped, NumbersUnique
<1>3. Progress
  BY DEF Progress
<1> QED
  BY <1>1, <1>2, <1>3

-----------------------------------------------------------------------------
(* Cursors and answers that are kept                                        *)

\* The ids that a snapshot does not show stay hidden: the next id is not below
\* its xmax.
LEMMA HiddenKept ==
  ASSUME Tables, Tables', Progress, Unwrapped', NEW c, Sound(c), NEW w \in Writers,
         tx'[w].xid # 0
  PROVE  ~Visible(tx'[w].xid, c.snapshot)
<1>1. CASE tx'[w].xid = tx[w].xid
  BY <1>1 DEF Sound
<1>2. CASE tx'[w].xid = xids + 1 /\ xids' = xids + 1
  <2>1. xids + 1 \in Nat /\ xids + 1 < XidWidth
    BY <1>2 DEF Tables, TablesTyped, Unwrapped
  <2>2. (xids + 1) % XidWidth = xids + 1
    BY <2>1, Narrow
  <2>3. c.snapshot.xmax \in Nat /\ c.snapshot.xmax <= xids + 1
    BY DEF Sound, Cursors
  <2> QED
    BY <1>2, <2>1, <2>2, <2>3 DEF Visible
<1> QED
  BY <1>1, <1>2 DEF Progress

\* A movement of the snapshot that is steady after a step was so before it, and
\* its item is as it was.
LEMMA SteadyKept ==
  ASSUME Tables, Progress, NEW c, Sound(c), NEW r \in c.committed,
         catalog'[r.item].edited < c.at
  PROVE  catalog'[r.item] = catalog[r.item]
<1>1. r.item \in Items /\ c.at \in Nat /\ c.at < clock /\ clock \in Nat
  BY DEF Tables, TablesTyped, Sound, Cursors, Movements
<1>2. catalog'[r.item].edited # clock
  BY <1>1
<1> QED
  BY <1>1, <1>2 DEF Progress

\* No step makes a cursor unsound: not a commit, nor an id that is given later.
LEMMA SoundKept ==
  ASSUME Tables, Tables', Progress, Unwrapped', NEW c, Sound(c)
  PROVE  Sound(c)'
<1>1. c \in Cursors /\ c.at < clock'
  BY DEF Tables, TablesTyped, Progress, Sound, Cursors
<1>2. c.snapshot.xmax <= xids' + 1
  <2>1. c.snapshot.xmax \in Nat /\ xids \in Nat /\ xids' \in Nat
    BY DEF Tables, TablesTyped, Sound, Cursors
  <2> QED
    BY <2>1 DEF Progress, Sound
<1>3. c.committed \subseteq journal' /\ c.selected \subseteq c.committed
  BY DEF Progress, Sound
<1>4. ASSUME NEW r \in journal' PROVE Visible(r.xid, c.snapshot) <=> r \in c.committed
  <2>1. CASE r \in journal
    BY <2>1 DEF Sound
  <2>2. CASE r \notin journal
    <3>1. PICK w \in Writers : tx[w].xid # 0 /\ r.xid = tx[w].xid
      BY <2>2 DEF Progress
    <3> QED
      BY <2>2, <3>1 DEF Sound
  <2> QED
    BY <2>1, <2>2
<1>5. \A w \in Writers : tx'[w].xid # 0 => ~Visible(tx'[w].xid, c.snapshot)
  BY HiddenKept
<1>6. ASSUME NEW r \in c.committed, catalog'[r.item].edited < c.at
      PROVE  r \in c.selected <=> Selected(r, c.scope, c.at)'
  <2>1. catalog'[r.item] = catalog[r.item]
    BY <1>6, SteadyKept
  <2> QED
    BY <1>6, <2>1 DEF Sound, Selected
<1> QED
  BY <1>1, <1>2, <1>3, <1>4, <1>5, <1>6 DEF Sound, Visible

\* A snapshot that is calm after a step was calm before it and shows the same.
LEMMA CalmKept ==
  ASSUME Tables, Progress, NEW c, Sound(c), Calm(c)'
  PROVE  Calm(c) /\ Shown(c)' = Shown(c)
<1>1. ASSUME NEW r \in c.committed
      PROVE  /\ c.scope.long => catalog[r.item].edited < c.at
             /\ Selected(r, c.scope, c.at)' <=> Selected(r, c.scope, c.at)
  <2>1. CASE c.scope.long
    <3>1. catalog'[r.item].edited < c.at
      BY <2>1 DEF Calm
    <3>2. catalog'[r.item] = catalog[r.item]
      BY <3>1, SteadyKept
    <3> QED
      BY <3>1, <3>2 DEF Selected
  <2>2. CASE ~c.scope.long
    BY <2>2 DEF Selected
  <2> QED
    BY <2>1, <2>2
<1>2. Rest(c)' = Rest(c)
  BY <1>1 DEF Rest
<1>3. Shown(c)' = Shown(c)
  BY <1>2 DEF Shown, Numbers, Newest
<1> QED
  BY <1>1, <1>3 DEF Calm

\* A page of the stack stays sound, whatever step is taken.
LEMMA PageKept ==
  ASSUME Tables, Tables', Progress, Unwrapped', NEW p, PageSound(p)
  PROVE  PageSound(p)'
<1>1. p.cursor # None => Sound(p.cursor)'
  BY SoundKept DEF PageSound
<1>2. p.left # None /\ Calm(p.cursor)' => Calm(p.cursor) /\ Shown(p.cursor)' = Shown(p.cursor)
  BY CalmKept DEF PageSound
<1> QED
  BY <1>1, <1>2 DEF PageSound

\* So does an answer.
LEMMA AnswerKept ==
  ASSUME Tables, Tables', Progress, Unwrapped', NEW d, Sound(d.cursor), Answered(d)
  PROVE  Answered(d)'
<1>1. d.next # None => Sound(d.next)'
  BY SoundKept DEF Answered
<1>2. Calm(d.cursor)' => d.rows = Shown(d.cursor)'
  BY CalmKept DEF Answered
<1>3. ASSUME NEW r \in d.cursor.committed, catalog'[r.item].edited < d.cursor.at
      PROVE  r \in d.rows <=> r \in d.cursor.selected /\ Between(r, d)
  <2>1. catalog'[r.item] = catalog[r.item]
    BY <1>3, SteadyKept
  <2> QED
    BY <1>3, <2>1 DEF Answered
<1> QED
  BY <1>1, <1>2, <1>3 DEF Answered, Between

-----------------------------------------------------------------------------
(* A snapshot and a page                                                    *)

\* The cursor of a first page, as AcquireSnapshot makes it.
FirstCursor ==
  [at |-> clock, snapshot |-> CurrentSnapshot, before |-> None, iat |-> clock,
   scope |-> scope, committed |-> journal,
   selected |-> {r \in journal : Selected(r, scope, clock)}]

\* A new snapshot shows the committed movements and hides the open ones.
LEMMA SnapshotSound ==
  ASSUME Tables, Unwrapped, Still, clock' = clock + 1, scope \in Scopes
  PROVE  FirstCursor \in Cursors /\ \A c : c = FirstCursor => Sound(c)'
<1> DEFINE s == CurrentSnapshot
<1>1. s \in [xmax : Nat, xip : SUBSET Nat] /\ s.xmax = xids + 1
  BY DEF CurrentSnapshot, Tables, TablesTyped, Jobs
<1>2. ASSUME NEW r \in journal PROVE Visible(r.xid, s)
  <2>1. r.xid \in Nat /\ r.xid <= xids /\ xids \in Nat /\ XidWidth \in Nat
    BY FeedAssumption DEF Tables, TablesTyped, NumbersUnique, Movements
  <2>2. r.xid % XidWidth = r.xid
    BY <2>1, Narrow DEF Unwrapped
  <2>3. r.xid \notin s.xip
    BY DEF Tables, NumbersUnique, CurrentSnapshot
  <2> QED
    BY <1>1, <2>1, <2>2, <2>3 DEF Visible
<1>3. ASSUME NEW w \in Writers, tx[w].xid # 0 PROVE ~Visible(tx[w].xid, s)
  <2>1. tx[w].xid \in Nat /\ tx[w].xid <= xids /\ xids \in Nat /\ XidWidth \in Nat
    BY FeedAssumption DEF Tables, TablesTyped, WritersShaped, Jobs
  <2>2. tx[w].xid % XidWidth = tx[w].xid
    BY <2>1, Narrow DEF Unwrapped
  <2>3. tx[w].xid \in s.xip
    BY <1>3 DEF CurrentSnapshot
  <2> QED
    BY <2>2, <2>3 DEF Visible
<1> HIDE DEF s
<1>4. FirstCursor \in Cursors
  BY <1>1 DEF FirstCursor, Cursors, Tables, TablesTyped, s
<1>5. /\ FirstCursor.at = clock /\ FirstCursor.snapshot = s /\ FirstCursor.scope = scope
      /\ FirstCursor.committed = journal
      /\ FirstCursor.selected = {r \in journal : Selected(r, scope, clock)}
  BY DEF FirstCursor, s
<1> SUFFICES ASSUME NEW c, c = FirstCursor PROVE Sound(c)'
  BY <1>4
<1>6. c.at < clock' /\ c.snapshot.xmax <= xids' + 1
  BY <1>1, <1>5 DEF Tables, TablesTyped, Still
<1>7. \A r \in c.committed : r \in c.selected <=> Selected(r, c.scope, c.at)'
  BY <1>5 DEF Selected, Still
<1> QED
  BY <1>2, <1>3, <1>4, <1>5, <1>6, <1>7 DEF Sound, Still, Visible

\* What a page reads is what is left of its snapshot.
LEMMA FollowingIsRest ==
  ASSUME NEW c, Sound(c), c.scope = scope
  PROVE  Following(c) = Rest(c)
BY DEF Sound, Following, Rest

\* The numbers of a page, and its movements.
LEMMA PageFacts ==
  ASSUME Tables, NEW c, Sound(c)
  PROVE  /\ Numbers(c) \subseteq Nat /\ IsFiniteSet(Numbers(c))
         /\ Shown(c) = {r \in journal : r.seq \in Newest(Numbers(c))}
         /\ Shown(c) \subseteq c.committed /\ Shown(c) \subseteq Movements
         /\ Cardinality(Shown(c)) <= Limit
<1> DEFINE P == Newest(Numbers(c))
<1>1. /\ Rest(c) \subseteq c.committed /\ c.committed \subseteq journal
      /\ journal \subseteq Movements /\ IsFiniteSet(journal)
  BY DEF Rest, Sound, Tables, TablesTyped
<1>2. Numbers(c) \subseteq Nat
  BY <1>1 DEF Numbers, Movements
<1>3. IsFiniteSet(Numbers(c))
  <2>1. IsFiniteSet(Rest(c))
    BY <1>1, FS_Subset
  <2> DEFINE f == [r \in Rest(c) |-> r.seq]
  <2>2. f \in [Rest(c) -> Numbers(c)] /\ \A n \in Numbers(c) : \E r \in Rest(c) : f[r] = n
    BY DEF Numbers
  <2> HIDE DEF f
  <2>3. f \in Surjection(Rest(c), Numbers(c))
    BY <2>2 DEF Surjection
  <2> QED
    BY <2>1, <2>3, FS_Surjection
<1>4. /\ P \subseteq Numbers(c) /\ IsFiniteSet(P) /\ Cardinality(P) <= Limit
  BY <1>2, <1>3, NewestFacts
<1>5. Shown(c) = {r \in journal : r.seq \in P}
  <2>1. ASSUME NEW r \in journal, r.seq \in P PROVE r \in Rest(c)
    <3>1. PICK q \in Rest(c) : q.seq = r.seq
      BY <1>4, <2>1 DEF Numbers
    <3>2. q = r
      BY <1>1, <3>1 DEF Tables, NumbersUnique
    <3> QED
      BY <3>1, <3>2
  <2> QED
    BY <1>1, <2>1 DEF Shown
<1>6. Cardinality(Shown(c)) <= Limit
  <2> DEFINE f == [r \in Shown(c) |-> r.seq]
  <2>1. f \in Injection(Shown(c), P)
    <3>1. f \in [Shown(c) -> P]
      BY <1>5
    <3>2. \A r, q \in Shown(c) : f[r] = f[q] => r = q
      BY <1>5 DEF Tables, NumbersUnique
    <3> HIDE DEF f, P
    <3> QED
      BY <3>1, <3>2 DEF Injection, IsInjective
  <2>2. IsFiniteSet(Shown(c)) /\ Cardinality(Shown(c)) <= Cardinality(P)
    <3> HIDE DEF f, P
    <3> QED
      BY <1>4, <2>1, FS_Injection
  <2>3. Cardinality(Shown(c)) \in Nat /\ Cardinality(P) \in Nat /\ Limit \in Nat
    BY <1>4, <2>2, FS_CardinalityType, FeedAssumption
  <2> HIDE DEF P
  <2> QED
    BY <1>4, <2>2, <2>3
<1> QED
  BY <1>1, <1>2, <1>3, <1>5, <1>6 DEF Shown

\* The answer that ReadPage gives to a sound cursor: the newest movements that
\* are left of its snapshot, and a cursor below them when there are more.
LEMMA PageAnswered ==
  ASSUME Tables, Tables', Progress, Unwrapped', NEW d \in Answers, NEW e,
         Sound(d.cursor), d.cursor.scope = scope, Still,
         LET matching == {r.seq : r \in Following(d.cursor)}
             page == {n \in matching : Cardinality({m \in matching : m > n}) < Limit}
         IN e = [d EXCEPT
              !.rows = {r \in journal : r.seq \in page},
              !.next = IF page = matching THEN None ELSE NextCursor(d.cursor, page)]
  PROVE  e \in Answers /\ e.cursor = d.cursor /\ Answered(e)'
<1> DEFINE c == d.cursor
           P == Newest(Numbers(c))
           n == IF P = Numbers(c) THEN None ELSE NextCursor(c, P)
<1>1. e = [d EXCEPT !.rows = {r \in journal : r.seq \in P}, !.next = n]
  <2>1. {r.seq : r \in Following(c)} = Numbers(c)
    BY FollowingIsRest DEF Numbers
  <2> QED
    BY <2>1 DEF Newest
<1>2. c \in Cursors /\ Sound(c)'
  BY SoundKept DEF Answers
<1>3. /\ Numbers(c) \subseteq Nat /\ IsFiniteSet(Numbers(c))
      /\ Shown(c) = {r \in journal : r.seq \in P}
      /\ Shown(c) \subseteq c.committed /\ Shown(c) \subseteq Movements
      /\ Cardinality(Shown(c)) <= Limit
  BY PageFacts
<1>4. /\ P \subseteq Numbers(c) /\ IsFiniteSet(P)
      /\ \A x \in P, z \in Numbers(c) : z >= x => z \in P
      /\ Numbers(c) # {} => P # {}
  BY <1>3, NewestFacts
<1>5. ASSUME P # Numbers(c)
      PROVE  /\ Min(P) \in P /\ \A x \in P : Min(P) <= x
             /\ Min(P) \in Nat
             /\ n \in Cursors /\ n.before = Min(P) /\ \A m : m = n => Sound(m)'
  <2>1. P # {} /\ P \subseteq Nat
    BY <1>3, <1>4, <1>5
  <2>2. Min(P) \in P /\ \A x \in P : Min(P) <= x
    <3> HIDE DEF P
    <3> QED
      BY <1>4, <2>1, LeastOf
  <2>3. Min(P) \in Nat
    BY <2>1, <2>2
  <2>4. n = [c EXCEPT !.before = Min(P), !.iat = clock]
    BY <1>5 DEF NextCursor
  <2>5. /\ n \in Cursors /\ n.before = Min(P)
        /\ n.at = c.at /\ n.snapshot = c.snapshot /\ n.scope = c.scope
        /\ n.committed = c.committed /\ n.selected = c.selected
    <3> HIDE DEF n, P, c
    <3> QED
      BY <1>2, <2>3, <2>4 DEF Cursors, Tables, TablesTyped
  <2>6. ASSUME NEW m, m = n PROVE Sound(m)'
    <3> HIDE DEF n, c
    <3> QED
      BY <1>2, <2>5, <2>6 DEF Sound, Visible, Selected
  <2> QED
    BY <2>2, <2>3, <2>5, <2>6
<1>6. n \in Cursors \cup {None} /\ (n # None <=> P # Numbers(c))
  BY <1>5, FeedAssumption
<1>7. /\ e \in Answers /\ e.cursor = c /\ e.rows = Shown(c) /\ e.next = n
  <2> HIDE DEF n, P
  <2> QED
    BY <1>1, <1>3, <1>6 DEF Answers
<1>8. e.next # None => Sound(e.next)'
  BY <1>5, <1>6, <1>7
<1>9. Calm(e.cursor)' => e.rows = Shown(e.cursor)'
  BY <1>7, CalmKept
<1>10. ASSUME NEW r \in c.committed, catalog'[r.item].edited < c.at
       PROVE  r \in e.rows <=> r \in c.selected /\ Between(r, e)
  <2>1. catalog'[r.item] = catalog[r.item]
    BY <1>10, SteadyKept
  <2>2. r \in c.selected <=> Selected(r, c.scope, c.at)
    BY <1>10, <2>1 DEF Sound
  <2>3. r \in journal /\ r.seq \in Nat
    BY DEF Sound, Tables, TablesTyped, Movements
  <2>4. ASSUME r \in Rest(c) PROVE r \in Shown(c) <=> r.seq >= IF n = None THEN 0 ELSE n.before
    <3>1. r.seq \in Numbers(c)
      BY <2>4 DEF Numbers
    <3>2. r \in Shown(c) <=> r.seq \in P
      BY <1>3, <2>3
    <3>3. CASE P = Numbers(c)
      <4>1. n = None
        BY <3>3
      <4> HIDE DEF n, P
      <4> QED
        BY <2>3, <3>1, <3>2, <3>3, <4>1
    <3>4. CASE P # Numbers(c)
      <4>1. /\ n # None /\ n.before = Min(P) /\ Min(P) \in P /\ Min(P) \in Nat
            /\ \A x \in P : Min(P) <= x
        BY <1>5, <1>6, <3>4
      <4> HIDE DEF n, P
      <4>2. r.seq \in P => r.seq >= Min(P)
        BY <2>3, <4>1
      <4>3. r.seq >= Min(P) => r.seq \in P
        BY <1>4, <3>1, <4>1
      <4> QED
        BY <3>2, <4>1, <4>2, <4>3
    <3> QED
      BY <3>3, <3>4
  <2>5. r \in Rest(c) <=> r \in c.selected /\ (c.before # None => r.seq < c.before)
    BY <2>2 DEF Rest
  <2>6. r \in Shown(c) => r \in Rest(c)
    BY DEF Shown
  <2> HIDE DEF n, P
  <2> QED
    BY <1>7, <2>4, <2>5, <2>6 DEF Between
<1> QED
  BY <1>3, <1>7, <1>8, <1>9, <1>10 DEF Answered, Between

-----------------------------------------------------------------------------
(* The invariant                                                            *)

\* A step that leaves the browser's stack alone keeps its pages.
LEMMA StackKept ==
  ASSUME Tables, Tables', Progress, Unwrapped', PagesSound, UNCHANGED stack
  PROVE  PagesSound'
<1>1. \A p : PageSound(p) => PageSound(p)'
  BY PageKept
<1> QED
  BY <1>1 DEF PagesSound

\* A step of another actor keeps the request and its answer.
LEMMA OthersKeep ==
  ASSUME Tables, Tables', Progress, Unwrapped', PagesSound, AnswerSound, UNCHANGED client
  PROVE  PagesSound' /\ AnswerSound'
<1>1. PagesSound'
  BY StackKept DEF client
<1>2. phase \in {"reading", "shown"} => Sound(data.cursor)'
  <2>1. \A c : Sound(c) => Sound(c)'
    BY SoundKept
  <2> QED
    BY <2>1 DEF AnswerSound, client
<1>3. phase = "shown" => Answered(data)'
  <2>1. \A d : Sound(d.cursor) /\ Answered(d) => Answered(d)'
    BY AnswerKept
  <2> QED
    BY <2>1 DEF AnswerSound, client
<1> QED
  BY <1>1, <1>2, <1>3 DEF AnswerSound, client, Top

\* The stages of a request: each keeps the stack and the answer sound.
LEMMA AuthorizeKeeps ==
  ASSUME Tables, Tables', Progress, Unwrapped', PagesSound, AnswerSound, Authorize
  PROVE  PagesSound' /\ AnswerSound'
<1>1. PagesSound'
  BY StackKept DEF Authorize
<1>2. ask' \in Scopes /\ phase' \in {"authorized", "refused"}
  BY DEF Authorize, AnswerSound
<1>3. phase' = "authorized" => scope' \in Scopes
  BY DEF Authorize, AnswerSound, Scopes
<1> QED
  BY <1>1, <1>2, <1>3 DEF AnswerSound

LEMMA AcquireKeeps ==
  ASSUME Tables, Tables', Progress, Unwrapped, Unwrapped', Still, PagesSound, AnswerSound,
         AcquireSnapshot
  PROVE  PagesSound' /\ AnswerSound'
<1>1. PagesSound'
  BY StackKept DEF AcquireSnapshot
<1>2. /\ scope \in Scopes /\ scope' = scope /\ ask' = ask /\ ask \in Scopes
      /\ phase' = "reading" /\ clock' = clock + 1 /\ stack' = stack /\ Top.cursor = None
  BY DEF AcquireSnapshot, AnswerSound
<1>3. data' = [cursor |-> FirstCursor, rows |-> {}, next |-> None]
  BY DEF AcquireSnapshot, FirstCursor
<1>4. FirstCursor \in Cursors /\ \A c : c = FirstCursor => Sound(c)'
  BY <1>2, SnapshotSound
<1>5. FirstCursor.scope = scope
  BY DEF FirstCursor
<1>6. data' \in Answers /\ data'.cursor = FirstCursor
  BY <1>3, <1>4 DEF Answers
<1>7. Sound(data.cursor)'
  BY <1>4, <1>6
<1>8. Top'.cursor = None
  BY <1>2 DEF Top
<1> QED
  BY <1>1, <1>2, <1>5, <1>6, <1>7, <1>8 DEF AnswerSound

LEMMA DecodeKeeps ==
  ASSUME Tables, Tables', Progress, Unwrapped', PagesSound, AnswerSound, DecodeCursor
  PROVE  PagesSound' /\ AnswerSound'
<1> DEFINE c == Top.cursor
<1>1. PagesSound'
  BY StackKept DEF DecodeCursor
<1>2. /\ scope \in Scopes /\ scope' = scope /\ ask' = ask /\ ask \in Scopes
      /\ phase' \in {"reading", "refused"} /\ stack' = stack /\ c # None
  BY DEF DecodeCursor, AnswerSound
<1>3. Len(stack) \in 1 .. Len(stack)
  BY DEF PagesSound
<1>4. c \in Cursors /\ Sound(c)
  BY <1>2, <1>3 DEF PagesSound, PageSound, Pages, Top
<1>5. \A k : Sound(k) => Sound(k)'
  BY SoundKept
<1>6. ASSUME phase' = "reading"
      PROVE  /\ data' \in Answers /\ data'.cursor = c /\ c.scope = scope /\ Sound(data.cursor)'
  <2>1. data' = [cursor |-> c, rows |-> {}, next |-> None] /\ c.scope = scope
    BY <1>6 DEF DecodeCursor
  <2>2. data' \in Answers /\ data'.cursor = c
    BY <1>4, <2>1 DEF Answers
  <2> HIDE DEF c
  <2> QED
    BY <1>4, <1>5, <2>1, <2>2
<1>7. Top'.cursor = c
  BY <1>2 DEF Top
<1> HIDE DEF c
<1> QED
  BY <1>1, <1>2, <1>6, <1>7 DEF AnswerSound

LEMMA ReadKeeps ==
  ASSUME Tables, Tables', Progress, Unwrapped', Still, PagesSound, AnswerSound, ReadPage
  PROVE  PagesSound' /\ AnswerSound'
<1>1. PagesSound'
  BY StackKept DEF ReadPage
<1>2. /\ scope \in Scopes /\ scope' = scope /\ ask' = ask /\ ask \in Scopes
      /\ phase' = "shown" /\ stack' = stack
      /\ data \in Answers /\ Sound(data.cursor) /\ data.cursor.scope = scope
      /\ Top.cursor # None => data.cursor = Top.cursor
  BY DEF ReadPage, AnswerSound
<1>3. data' \in Answers /\ data'.cursor = data.cursor /\ Answered(data)'
  <2>1. ASSUME NEW d, NEW e, d = data, e = data'
        PROVE  e \in Answers /\ e.cursor = d.cursor /\ Answered(e)'
    BY <1>2, <2>1, PageAnswered DEF ReadPage
  <2> QED
    BY <2>1
<1>4. Sound(data.cursor)'
  <2>1. \A c : Sound(c) => Sound(c)'
    BY SoundKept
  <2> QED
    BY <1>2, <1>3, <2>1
<1>5. Top' = Top
  BY <1>2 DEF Top
<1> QED
  BY <1>1, <1>2, <1>3, <1>4, <1>5 DEF AnswerSound

\* The pages below the top one.
LEMMA FrontFacts ==
  ASSUME PagesSound
  PROVE  /\ Front(stack) \in Seq(Pages) /\ Len(stack) \in Nat \ {0}
         /\ Len(Front(stack)) = Len(stack) - 1
         /\ \A n \in 1 .. Len(stack) - 1 : Front(stack)[n] = stack[n]
<1>1. stack \in Seq(Pages) /\ Len(stack) \in Nat \ {0}
  BY DEF PagesSound
<1> DEFINE k == Len(stack) - 1
<1>2. k \in Nat /\ \A n \in 1 .. k : stack[n] \in Pages
  BY <1>1
<1>3. /\ SubSeq(stack, 1, k) \in Seq(Pages)
      /\ Len(SubSeq(stack, 1, k)) = IF 1 <= k THEN k - 1 + 1 ELSE 0
      /\ \A n \in 1 .. k - 1 + 1 : SubSeq(stack, 1, k)[n] = stack[1 + n - 1]
  <2> HIDE DEF k
  <2> QED
    BY <1>2, SubSeqProperties
<1>4. \A n \in 1 .. k : n \in 1 .. k - 1 + 1 /\ 1 + n - 1 = n
  BY <1>2
<1>5. Len(SubSeq(stack, 1, k)) = k /\ \A n \in 1 .. k : SubSeq(stack, 1, k)[n] = stack[n]
  <2> HIDE DEF k
  <2> QED
    BY <1>2, <1>3, <1>4
<1>6. Front(stack) = SubSeq(stack, 1, k)
  BY DEF Front
<1> HIDE DEF Front
<1> QED
  BY <1>1, <1>3, <1>5, <1>6

\* The request that a click starts.
LEMMA AskKeeps ==
  ASSUME Tables, Tables', Progress, Unwrapped', ask' \in Scopes, NEW pages, Ask(pages),
         pages \in Seq(Pages), pages # <<>>, \A n \in 1 .. Len(pages) : PageSound(pages[n])
  PROVE  PagesSound' /\ AnswerSound'
<1>1. \A p : PageSound(p) => PageSound(p)'
  BY PageKept
<1>2. stack' = pages /\ phase' = "asked"
  BY DEF Ask
<1>3. PagesSound'
  BY <1>1, <1>2 DEF PagesSound
<1> QED
  BY <1>2, <1>3 DEF AnswerSound

\* The clicks of the reader: each leaves a stack of sound pages.
LEMMA GoNextKeeps ==
  ASSUME Tables, Tables', Progress, Unwrapped', PagesSound, AnswerSound, GoNext
  PROVE  PagesSound' /\ AnswerSound'
<1> DEFINE pages == Front(stack) \o <<Pinned, Page(data.next)>>
<1>1. /\ data \in Answers /\ data.next # None /\ Sound(data.cursor) /\ Answered(data)
      /\ ask' \in Scopes /\ Ask(pages)
  BY DEF GoNext, AnswerSound
<1>2. data.cursor # None /\ data.cursor \in Cursors
  BY <1>1, FeedAssumption DEF Answers
<1>3. Pinned \in Pages /\ Page(data.next) \in Pages
  BY <1>1 DEF Pinned, Page, Pages, Answers
<1>4. PageSound(Pinned)
  BY <1>1, <1>2, <1>3 DEF PageSound, Pinned, Answered
<1>5. PageSound(Page(data.next))
  BY <1>1, <1>3 DEF PageSound, Page, Answered
<1>6. pages \in Seq(Pages) /\ pages # <<>>
  <2>1. Front(stack) \in Seq(Pages) /\ <<Pinned, Page(data.next)>> \in Seq(Pages)
    BY <1>3, FrontFacts
  <2>2. Len(pages) = Len(Front(stack)) + 2 /\ Len(Front(stack)) \in Nat
    BY <2>1
  <2> QED
    BY <2>1, <2>2
<1>7. ASSUME NEW n \in 1 .. Len(pages) PROVE PageSound(pages[n])
  <2> DEFINE last == <<Pinned, Page(data.next)>>
  <2>1. /\ Front(stack) \in Seq(Pages) /\ last \in Seq(Pages) /\ Len(last) = 2
        /\ last[1] = Pinned /\ last[2] = Page(data.next)
    BY <1>3, FrontFacts
  <2>2. CASE n \in 1 .. Len(stack) - 1
    <3>1. pages[n] = stack[n]
      BY <2>1, <2>2, FrontFacts
    <3> QED
      BY <2>2, <3>1, FrontFacts DEF PagesSound
  <2>3. CASE n = Len(stack)
    <3>1. pages[n] = Pinned
      BY <2>1, <2>3, FrontFacts
    <3> QED
      BY <1>4, <3>1
  <2>4. CASE n = Len(stack) + 1
    <3>1. pages[n] = Page(data.next)
      BY <2>1, <2>4, FrontFacts
    <3> QED
      BY <1>5, <3>1
  <2> QED
    BY <2>1, <2>2, <2>3, <2>4, FrontFacts
<1>8. \A s : s = pages => PagesSound' /\ AnswerSound'
  <2> HIDE DEF pages
  <2> QED
    BY <1>1, <1>6, <1>7, AskKeeps DEF Ask
<1> QED
  BY <1>8

LEMMA GoBackKeeps ==
  ASSUME Tables, Tables', Progress, Unwrapped', PagesSound, AnswerSound, GoBack
  PROVE  PagesSound' /\ AnswerSound'
<1>1. ask' \in Scopes /\ Ask(Front(stack)) /\ Len(stack) > 1
  BY DEF GoBack, AnswerSound
<1>2. Front(stack) # <<>> /\ \A n \in 1 .. Len(Front(stack)) : PageSound(Front(stack)[n])
  BY <1>1, FrontFacts DEF PagesSound
<1>3. ASSUME NEW s, s = Front(stack) PROVE PagesSound' /\ AnswerSound'
  BY <1>1, <1>2, <1>3, FrontFacts, AskKeeps DEF Ask
<1> QED
  BY <1>3

LEMMA RefetchKeeps ==
  ASSUME Tables, Tables', Progress, Unwrapped', PagesSound, AnswerSound, Refetch
  PROVE  PagesSound' /\ AnswerSound'
<1>1. ASSUME NEW s, s = stack PROVE PagesSound' /\ AnswerSound'
  BY <1>1, AskKeeps DEF Refetch, AnswerSound, PagesSound, Ask
<1> QED
  BY <1>1

LEMMA SetFilterKeeps ==
  ASSUME Tables, Tables', Progress, Unwrapped', PagesSound, NEW a \in Asks, SetFilter(a)
  PROVE  PagesSound' /\ AnswerSound'
<1>1. ask' \in Scopes /\ Ask(<<Page(None)>>)
  BY FeedAssumption DEF SetFilter
<1>2. PageSound(Page(None))
  BY DEF PageSound, Page, Pages
<1>3. <<Page(None)>> \in Seq(Pages) /\ \A n \in 1 .. Len(<<Page(None)>>) : PageSound(<<Page(None)>>[n])
  BY <1>2 DEF Page, Pages
<1> QED
  BY <1>1, <1>3, AskKeeps

\* The invariant holds at first.
LEMMA Start ==
  ASSUME Init
  PROVE  IInv
<1>1. TablesTyped
  <2>1. IsFiniteSet(journal)
    BY FS_EmptySet DEF Init
  <2> QED
    BY <2>1, FeedAssumption DEF Init, TablesTyped, Jobs, Idle
<1>2. WritersShaped /\ NumbersUnique
  BY DEF Init, WritersShaped, NumbersUnique, Idle, Open
<1>3. PageSound(Page(None)) /\ <<Page(None)>> \in Seq(Pages)
  BY DEF PageSound, Page, Pages
<1>4. PagesSound
  BY <1>3 DEF Init, PagesSound
<1>5. AnswerSound
  BY FeedAssumption DEF Init, AnswerSound
<1> QED
  BY <1>1, <1>2, <1>4, <1>5 DEF IInv, Tables

\* Every step keeps the invariant, below the width of xmin.
LEMMA Invariant ==
  ASSUME IInv, [Next]_vars, Unwrapped, Unwrapped'
  PROVE  IInv'
<1> USE DEF IInv
<1>1. ASSUME NEW w \in Writers,
             \/ StampMovement(w) \/ LockItem(w) \/ InsertMovement(w)
             \/ CommitMovement(w) \/ AbortMovement(w)
      PROVE  IInv'
  <2>1. Tables' /\ Progress
    BY <1>1, StampKeeps, LockKeeps, InsertKeeps, CommitKeeps, AbortKeeps
  <2>2. UNCHANGED client
    BY <1>1 DEF StampMovement, LockItem, InsertMovement, CommitMovement, AbortMovement
  <2> QED
    BY <2>1, <2>2, OthersKeep
<1>2. ASSUME NEW i \in Items, EditItem(i) PROVE IInv'
  <2>1. Tables' /\ Progress
    BY <1>2, EditKeeps
  <2>2. UNCHANGED client
    BY <1>2 DEF EditItem
  <2> QED
    BY <2>1, <2>2, OthersKeep
<1>3. CASE UNCHANGED vars \/ \E r \in ReaderRoles : AssignRole(r)
  <2>1. Tables' /\ Progress
    BY <1>3, StillSteps, StillKeeps
  <2>2. UNCHANGED client
    BY <1>3 DEF vars, client, AssignRole
  <2> QED
    BY <2>1, <2>2, OthersKeep
<1>4. CASE Request
  <2>1. Still /\ Tables' /\ Progress
    BY <1>4, StillSteps, StillKeeps
  <2> QED
    BY <1>4, <2>1, AuthorizeKeeps, AcquireKeeps, DecodeKeeps, ReadKeeps DEF Request
<1>5. CASE GoNext \/ GoBack \/ Refetch \/ \E a \in Asks : SetFilter(a)
  <2>1. Tables' /\ Progress
    BY <1>5, StillSteps, StillKeeps
  <2> QED
    BY <1>5, <2>1, GoNextKeeps, GoBackKeeps, RefetchKeeps, SetFilterKeeps
<1> QED
  BY <1>1, <1>2, <1>3, <1>4, <1>5 DEF Next

\* The invariant holds as long as no transaction id has come round.
LEMMA InvariantHolds == Spec /\ []Unwrapped => []IInv
BY Start, Invariant, PTL DEF Spec

-----------------------------------------------------------------------------
(* The theorems                                                             *)

\* The invariant implies both properties.
LEMMA FeedFromInvariant ==
  ASSUME IInv
  PROVE  FeedIsSnapshot
<1> SUFFICES ASSUME phase = "shown" PROVE FeedIsSnapshot
  BY DEF FeedIsSnapshot
<1> DEFINE c == data.cursor
<1>1. /\ data.rows \subseteq c.committed /\ Cardinality(data.rows) <= Limit
      /\ c.selected \subseteq c.committed
      /\ \A r \in c.committed : catalog[r.item].edited < c.at =>
           (r \in data.rows <=> r \in c.selected /\ Between(r, data))
  BY DEF IInv, AnswerSound, Answered, Sound
<1>2. Steady(data.rows) = {r \in Steady(c.selected) : Between(r, data)}
  BY <1>1 DEF Steady
<1> QED
  BY <1>1, <1>2 DEF FeedIsSnapshot, Between

LEMMA StayFromInvariant ==
  ASSUME IInv
  PROVE  PagesStay
<1> SUFFICES ASSUME phase = "shown", Top.left # None, Calm(data.cursor)
             PROVE  data.rows = Top.left
  BY DEF PagesStay
<1>1. PageSound(Top)
  <2>1. Len(stack) \in 1 .. Len(stack)
    BY DEF IInv, PagesSound
  <2> QED
    BY <2>1 DEF IInv, PagesSound, Top
<1>2. Top.cursor # None /\ data.cursor = Top.cursor
  BY <1>1 DEF PageSound, IInv, AnswerSound
<1>3. Top.left = Shown(data.cursor)
  BY <1>1, <1>2 DEF PageSound
<1>4. data.rows = Shown(data.cursor)
  BY DEF IInv, AnswerSound, Answered
<1> QED
  BY <1>3, <1>4

\* Every page of the feed (list_movements_cursor under the snapshot of
\* acquire_movement_feed_snapshot) holds the movements that were committed when
\* the first page was read, from its cursor down to the next page's, all of
\* them and no other, while any number of transactions take ids, take numbers,
\* commit and abort in any order, items are edited and the reader's role
\* changes.  It rests on xmin being the whole transaction id, as it is until
\* the 32 bits of xmin come round.
THEOREM PagesAreSnapshots == Spec /\ []Unwrapped => []FeedIsSnapshot
BY InvariantHolds, FeedFromInvariant, PTL

\* A page of the browser's stack of cursors shows what it showed when it was
\* left, however often it is left and asked for again and whatever commits in
\* between, unless the filter is of the catalog and an item was edited.
THEOREM PagesAreKept == Spec /\ []Unwrapped => []PagesStay
BY InvariantHolds, StayFromInvariant, PTL
=============================================================================

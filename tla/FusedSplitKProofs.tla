-------------------------- MODULE FusedSplitKProofs --------------------------
(***************************************************************************)
(* Theorems about FusedSplitK, for every list of shapes and of             *)
(* configurations, every size of the scratch memory and every number of    *)
(* calls: no launch leaves the scratch memory dirty or accesses memory     *)
(* outside of it, and FusedSplitK implements FusedProduct: whatever the    *)
(* order of the programs' additions, an output is never seen with part of  *)
(* a sum or a share of another launch.                                     *)
(***************************************************************************)
EXTENDS FusedSplitK, FiniteSetTheorems, SequenceTheorems, TLAPS

-----------------------------------------------------------------------------
(***************************************************************************)
(* The inductive invariant.                                                *)
(***************************************************************************)

\* A buffer of scratch memory: entries 0 .. n - 1, for some n.
Buffers(Values) == UNION {[0 .. n - 1 -> Values] : n \in Nat}

Size(buffer) == Cardinality(DOMAIN buffer)

Terms == Nat \X Nat

Launches == [id : Nat, call : Nat, shape : Shapes, cfg : ConfigType,
             ws : Positive, cnt : Positive]

\* What is launched was pruned for the shape, or was launched before.
HostInv ==
    /\ launched \in Nat /\ calls \in Seq(Shapes)
    /\ tuned \in [Shapes -> ConfigType \cup {None}]
    /\ _launch_cache \in [Shapes \X Layouts -> ConfigType \cup {None}]
    /\ ws \in Seq(Buffers(SUBSET Terms))
    /\ cnt \in Seq(Buffers(Nat))

\* The buffers a launch was given are large enough for its shape.
HasRoom(l) ==
    /\ l.ws \in DOMAIN ws /\ l.shape.m * l.shape.n <= Size(ws[l.ws])
    /\ l.cnt \in DOMAIN cnt /\ CountersNeeded(l.shape) <= Size(cnt[l.cnt])

StreamInv ==
    /\ stream \in Seq(Launches)
    /\ \A i \in DOMAIN stream : HasRoom(stream[i])

Programs(l) ==
    [Grid(l) -> [pc : {"add", "finish", "reset", "done"}, left : SUBSET Elements(l.shape)]]

ProgInv ==
    Running => /\ stream # <<>> /\ prog \in Programs(L)
               /\ \A p \in Grid(L) : prog[p].left \subseteq TileElements(L, p)

\* The element e of the workspace still has terms that p, which is to add more
\* or to clear it, has not dealt with.
Owes(p, e) ==
    \/ prog[p].pc = "add"
    \/ prog[p].pc \in {"finish", "reset"} /\ e \in prog[p].left

\* Only the running launch uses scratch memory, and every dirty element of its
\* workspace has a program that will clear it or hand it on.
WsInv ==
    \A i \in DOMAIN ws : \A j \in DOMAIN ws[i] : ws[i][j] # {} =>
        /\ Running /\ L.cfg.sk > 1 /\ i = L.ws
        /\ \E p \in Grid(L) : \E e \in TileElements(L, p) : WsIndex(L, e) = j /\ Owes(p, e)

CntInv ==
    \A i \in DOMAIN cnt : \A t \in DOMAIN cnt[i] : cnt[i][t] # 0 =>
        /\ Running /\ L.cfg.sk > 1 /\ i = L.cnt
        /\ \E p \in Grid(L) : tile(L, p) = t

\* The programs of the tile of p, and those of them that have arrived.
Tile(l, p) == {q \in Grid(l) : q.m = p.m /\ q.n = p.n}
ArrivedAt(p) == {q \in Tile(L, p) : prog[q].pc # "add"}

\* The counter of a tile counts the arrivals until the last program has arrived,
\* which finishes the tile and, once, resets the counter.
TileInv ==
    Running /\ L.cfg.sk > 1 => \A p \in Grid(L) :
        IF ArrivedAt(p) # Tile(L, p)
        THEN /\ cnt[L.cnt][tile(L, p)] = Cardinality(ArrivedAt(p))
             /\ \A q \in ArrivedAt(p) : prog[q].pc = "done"
        ELSE /\ \E q \in Tile(L, p) : prog[q].pc # "done"
             /\ (\E q \in Tile(L, p) : prog[q].pc = "reset") => cnt[L.cnt][tile(L, p)] = 0

Inv == HostInv /\ StreamInv /\ ProgInv /\ WsInv /\ CntInv /\ TileInv

-----------------------------------------------------------------------------
(***************************************************************************)
(* Arithmetic of the grid.                                                 *)
(***************************************************************************)

\* cdiv is the least number of blocks of size y that cover x.
LEMMA CdivCovers ==
    ASSUME NEW x \in Nat, NEW y \in Positive
    PROVE  /\ cdiv(x, y) \in Nat
           /\ cdiv(x, y) * y >= x
           /\ (cdiv(x, y) - 1) * y < x
           /\ x > 0 => cdiv(x, y) > 0
  BY DEF cdiv, Positive

\* Larger blocks, no more of them.
LEMMA CdivAntitone ==
    ASSUME NEW x \in Nat, NEW y \in Positive, NEW z \in Positive, y <= z
    PROVE  cdiv(x, z) <= cdiv(x, y)
  <1> DEFINE few == cdiv(x, z)
             many == cdiv(x, y)
  <1>1. few \in Nat /\ many \in Nat /\ (few - 1) * z < x /\ x <= many * y
    BY CdivCovers
  <1> HIDE DEF few, many
  <1>2. many * y <= many * z
    BY <1>1 DEF Positive
  <1>3. (few - 1) * z < many * z
    BY <1>1, <1>2 DEF Positive
  <1>4. few - 1 < many
    BY <1>1, <1>3 DEF Positive
  <1> QED
    BY <1>1, <1>4 DEF few, many

\* Numbering the entries of a table row by row stays within its size.
LEMMA RowMajor ==
    ASSUME NEW rows \in Nat, NEW cols \in Nat,
           NEW a \in 0 .. rows - 1, NEW b \in 0 .. cols - 1
    PROVE  a * cols + b \in 0 .. rows * cols - 1
  <1>1. a * cols + b \in Nat
    OBVIOUS
  <1>2. (a + 1) * cols <= rows * cols
    OBVIOUS
  <1>3. (a + 1) * cols = a * cols + cols
    OBVIOUS
  <1> QED
    BY <1>1, <1>2, <1>3

\* No two entries have the same number.
LEMMA RowMajorOnce ==
    ASSUME NEW cols \in Nat, NEW a \in Nat, NEW c \in Nat,
           NEW b \in 0 .. cols - 1, NEW d \in 0 .. cols - 1,
           a * cols + b = c * cols + d
    PROVE  a = c /\ b = d
  OBVIOUS

-----------------------------------------------------------------------------
(***************************************************************************)
(* The scratch memory of a launch.                                         *)
(***************************************************************************)

LEMMA SizeOf ==
    ASSUME NEW Values, NEW buffer \in Buffers(Values)
    PROVE  /\ Size(buffer) \in Nat
           /\ DOMAIN buffer = 0 .. Size(buffer) - 1
           /\ buffer \in [DOMAIN buffer -> Values]
  <1>1. PICK n \in Nat : buffer \in [0 .. n - 1 -> Values]
    BY DEF Buffers
  <1>2. Cardinality(0 .. n - 1) = n
    BY FS_Interval
  <1> QED
    BY <1>1, <1>2 DEF Size

\* Of a launch with room, every program finds its counter and its elements.
LEMMA RoomIsEnough ==
    ASSUME HostInv, NEW l \in Launches, HasRoom(l), NEW p \in Grid(l)
    PROVE  /\ tile(l, p) \in DOMAIN cnt[l.cnt]
           /\ \A e \in TileElements(l, p) : WsIndex(l, e) \in DOMAIN ws[l.ws]
  <1>1. /\ l.shape.m \in Positive /\ l.shape.n \in Positive
        /\ l.cfg.bm \in Positive /\ l.cfg.bn \in Positive
        /\ l.cfg.bm >= MinBM /\ l.cfg.bn >= MinBN
        /\ MinBM \in Positive /\ MinBN \in Positive
    BY SplitKAssumption DEF Launches, ConfigType
  <1> DEFINE rows == TilesM(l)
             cols == TilesN(l)
             mostRows == cdiv(l.shape.m, MinBM)
             mostCols == cdiv(l.shape.n, MinBN)
  <1>2. /\ rows \in Nat /\ cols \in Nat /\ mostRows \in Nat /\ mostCols \in Nat
        /\ rows <= mostRows /\ cols <= mostCols
    BY <1>1, CdivCovers, CdivAntitone DEF TilesM, TilesN, Positive
  <1>3. p.m \in 0 .. rows - 1 /\ p.n \in 0 .. cols - 1
    BY DEF Grid
  <1>4. tile(l, p) \in 0 .. rows * cols - 1
    <2> HIDE DEF rows
    <2>1. tile(l, p) = p.m * cols + p.n
      BY DEF tile
    <2> HIDE DEF cols
    <2> QED
      BY <1>2, <1>3, <2>1, RowMajor
  <1>5. rows * cols <= CountersNeeded(l.shape)
    <2>1. CountersNeeded(l.shape) = mostRows * mostCols
      BY DEF CountersNeeded
    <2> HIDE DEF rows, cols, mostRows, mostCols
    <2> QED
      BY <1>2, <2>1
  <1>6. CountersNeeded(l.shape) <= Size(cnt[l.cnt]) /\ cnt[l.cnt] \in Buffers(Nat)
    BY DEF HasRoom, HostInv
  <1>7. tile(l, p) \in DOMAIN cnt[l.cnt]
    <2>1. CountersNeeded(l.shape) \in Int /\ rows * cols \in Int
      <3>1. CountersNeeded(l.shape) = mostRows * mostCols
        BY DEF CountersNeeded
      <3> HIDE DEF rows, cols, mostRows, mostCols
      <3> QED
        BY <1>2, <3>1
    <2>2. Size(cnt[l.cnt]) \in Nat /\ DOMAIN cnt[l.cnt] = 0 .. Size(cnt[l.cnt]) - 1
      BY <1>6, SizeOf
    <2> HIDE DEF rows, cols
    <2> QED
      BY <1>4, <1>5, <1>6, <2>1, <2>2
  <1>8. ASSUME NEW e \in TileElements(l, p) PROVE WsIndex(l, e) \in DOMAIN ws[l.ws]
    <2>1. e[1] \in 0 .. l.shape.m - 1 /\ e[2] \in 0 .. l.shape.n - 1
      BY DEF TileElements, Elements
    <2>2. WsIndex(l, e) \in 0 .. l.shape.m * l.shape.n - 1
      <3>1. l.shape.m \in Nat /\ l.shape.n \in Nat
        BY <1>1 DEF Positive
      <3>2. e[1] * l.shape.n + e[2] \in 0 .. l.shape.m * l.shape.n - 1
        BY <2>1, <3>1, RowMajor
      <3> QED
        BY <3>2 DEF WsIndex
    <2>3. /\ l.shape.m * l.shape.n <= Size(ws[l.ws])
          /\ Size(ws[l.ws]) \in Nat /\ DOMAIN ws[l.ws] = 0 .. Size(ws[l.ws]) - 1
      <3>1. ws[l.ws] \in Buffers(SUBSET Terms)
        BY DEF HasRoom, HostInv
      <3> QED
        BY <3>1, SizeOf DEF HasRoom
    <2>4. l.shape.m * l.shape.n \in Int
      BY <1>1 DEF Positive
    <2> QED
      BY <2>2, <2>3, <2>4
  <1> QED
    BY <1>7, <1>8

\* A tile has one program per slice of K.
LEMMA TileHasSlices ==
    ASSUME NEW l \in Launches, NEW p \in Grid(l)
    PROVE  /\ IsFiniteSet(Tile(l, p)) /\ Cardinality(Tile(l, p)) = l.cfg.sk
           /\ l.cfg.sk \in Positive /\ p \in Tile(l, p)
  <1> DEFINE slices == 0 .. l.cfg.sk - 1
             f == [s \in slices |-> [n |-> p.n, s |-> s, m |-> p.m]]
  <1>1. l.cfg.sk \in Positive
    BY DEF Launches, ConfigType
  <1>2. IsFiniteSet(slices) /\ Cardinality(slices) = l.cfg.sk
    <2>1. l.cfg.sk - 1 \in Int /\ l.cfg.sk > 0 /\ l.cfg.sk \in Nat
      BY <1>1 DEF Positive
    <2>2. /\ IsFiniteSet(slices)
          /\ Cardinality(slices) = IF 0 > l.cfg.sk - 1 THEN 0 ELSE l.cfg.sk - 1 - 0 + 1
      BY <2>1, FS_Interval, 0 \in Int
    <2> HIDE DEF slices
    <2> QED
      BY <2>1, <2>2
  <1>3. p \in Tile(l, p)
    BY DEF Tile
  <1>4. ASSUME NEW s \in slices PROVE f[s] \in Tile(l, p)
    BY DEF Tile, Grid
  <1>5. ASSUME NEW q \in Tile(l, p) PROVE q.s \in slices /\ f[q.s] = q
    BY DEF Tile, Grid
  <1>6. f \in Bijection(slices, Tile(l, p))
    <2>1. f \in [slices -> Tile(l, p)]
      BY <1>4
    <2>2. \A s, t \in slices : f[s] = f[t] => s = t
      OBVIOUS
    <2>3. \A q \in Tile(l, p) : \E s \in slices : f[s] = q
      BY <1>5
    <2> HIDE DEF f
    <2> QED
      BY <2>1, <2>2, <2>3 DEF Bijection, Injection, Surjection, IsInjective
  <1> HIDE DEF f, slices
  <1>7. IsFiniteSet(Tile(l, p)) /\ Cardinality(Tile(l, p)) = Cardinality(slices)
    BY <1>2, <1>6, FS_Bijection DEF ExistsBijection
  <1> QED
    BY <1>1, <1>2, <1>3, <1>7

\* The programs with one counter are those of one tile.
LEMMA TilesApart ==
    ASSUME NEW l \in Launches, NEW p \in Grid(l), NEW q \in Grid(l), tile(l, p) = tile(l, q)
    PROVE  q \in Tile(l, p) /\ Tile(l, p) = Tile(l, q)
  <1> DEFINE rows == TilesM(l)
             cols == TilesN(l)
  <1>1. rows \in Nat /\ cols \in Nat
    <2>1. /\ l.shape.m \in Nat /\ l.shape.n \in Nat
          /\ l.cfg.bm \in Positive /\ l.cfg.bn \in Positive
      BY SplitKAssumption DEF Launches, ConfigType, Positive
    <2> QED
      BY <2>1, CdivCovers DEF TilesM, TilesN
  <1>2. /\ p.m \in 0 .. rows - 1 /\ p.n \in 0 .. cols - 1
        /\ q.m \in 0 .. rows - 1 /\ q.n \in 0 .. cols - 1
    BY DEF Grid
  <1>3. p.m * cols + p.n = q.m * cols + q.n
    BY DEF tile
  <1> HIDE DEF rows, cols
  <1>4. p.m = q.m /\ p.n = q.n
    <2>1. p.m \in Nat /\ q.m \in Nat
      BY <1>1, <1>2
    <2>2. \A a, c \in Nat : \A b, d \in 0 .. cols - 1 :
            a * cols + b = c * cols + d => a = c /\ b = d
      BY <1>1, RowMajorOnce
    <2>3. p.n \in 0 .. cols - 1 /\ q.n \in 0 .. cols - 1
      BY <1>2
    <2> QED
      BY <1>3, <2>1, <2>2, <2>3
  <1> QED
    BY <1>4 DEF Tile

-----------------------------------------------------------------------------
(***************************************************************************)
(* Updates of the scratch memory.                                          *)
(***************************************************************************)

\* One entry of one buffer is written.
LEMMA WriteEntry ==
    ASSUME NEW V, NEW bufs \in Seq(Buffers(V)), NEW i \in DOMAIN bufs, NEW x, NEW v \in V,
           NEW new, new = [bufs EXCEPT ![i] = [bufs[i] EXCEPT ![x] = v]]
    PROVE  /\ new \in Seq(Buffers(V)) /\ DOMAIN new = DOMAIN bufs
           /\ \A k \in DOMAIN bufs : DOMAIN new[k] = DOMAIN bufs[k]
           /\ \A k \in DOMAIN bufs : \A j \in DOMAIN bufs[k] :
                new[k][j] = IF k = i /\ j = x THEN v ELSE bufs[k][j]
  <1>1. bufs[i] \in Buffers(V)
    OBVIOUS
  <1>2. PICK n \in Nat : bufs[i] \in [0 .. n - 1 -> V]
    BY <1>1 DEF Buffers
  <1> DEFINE b == [bufs[i] EXCEPT ![x] = v]
  <1>3. /\ b \in [0 .. n - 1 -> V] /\ DOMAIN b = DOMAIN bufs[i]
        /\ \A j \in DOMAIN bufs[i] : b[j] = IF j = x THEN v ELSE bufs[i][j]
    BY <1>2
  <1>4. b \in Buffers(V)
    BY <1>2, <1>3 DEF Buffers
  <1> HIDE DEF b
  <1>5. new = [bufs EXCEPT ![i] = b]
    BY DEF b
  <1>6. new \in Seq(Buffers(V)) /\ DOMAIN new = DOMAIN bufs
    <2>1. i \in 1 .. Len(bufs) /\ DOMAIN new = DOMAIN bufs
      BY <1>5
    <2>2. [bufs EXCEPT ![i] = b] \in Seq(Buffers(V))
      BY <1>4, <2>1, ExceptSeq
    <2> QED
      BY <1>5, <2>1, <2>2
  <1>7. \A k \in DOMAIN bufs : new[k] = IF k = i THEN b ELSE bufs[k]
    BY <1>5
  <1> QED
    BY <1>3, <1>6, <1>7

\* Buffers that keep their sizes keep room for the launches.
LEMMA RoomKept ==
    ASSUME StreamInv, stream' = stream,
           DOMAIN ws' = DOMAIN ws, \A i \in DOMAIN ws : DOMAIN ws'[i] = DOMAIN ws[i],
           DOMAIN cnt' = DOMAIN cnt, \A i \in DOMAIN cnt : DOMAIN cnt'[i] = DOMAIN cnt[i]
    PROVE  StreamInv'
  <1>1. ASSUME NEW i \in DOMAIN stream PROVE HasRoom(stream[i])'
    BY <1>1 DEF StreamInv, HasRoom, Size
  <1> QED
    BY <1>1 DEF StreamInv

\* _get_workspace, for one of its two buffers.
Ensured(bufs, need, floor, zero) ==
    IF bufs = <<>> \/ (bufs # <<>> /\ Cardinality(DOMAIN bufs[Len(bufs)]) < need)
    THEN Append(bufs, Zeros(Larger(need, floor), zero)) ELSE bufs

LEMMA EnsureSize ==
    ASSUME NEW V, NEW zero \in V, NEW bufs \in Seq(Buffers(V)),
           NEW need \in Nat, NEW floor \in Nat, NEW new,
           new = Ensured(bufs, need, floor, zero)
    PROVE  /\ new \in Seq(Buffers(V)) /\ Len(new) \in Positive /\ Len(new) \in DOMAIN new
           /\ \A i \in DOMAIN bufs : i \in DOMAIN new /\ new[i] = bufs[i]
           /\ need <= Size(new[Len(new)])
           /\ \A i \in DOMAIN new : i \in DOMAIN bufs \/ \A j \in DOMAIN new[i] : new[i][j] = zero
  <1> DEFINE small == \/ bufs = <<>>
                      \/ bufs # <<>> /\ Cardinality(DOMAIN bufs[Len(bufs)]) < need
             n == Larger(need, floor)
             fresh == Zeros(n, zero)
  <1>1. n \in Nat /\ need <= n
    BY DEF Larger
  <1>2. fresh \in [0 .. n - 1 -> V] /\ \A j \in DOMAIN fresh : fresh[j] = zero
    BY DEF Zeros
  <1>3. fresh \in Buffers(V)
    BY <1>1, <1>2 DEF Buffers
  <1>4. Size(fresh) = n
    <2>1. n - 1 \in Int /\ 0 \in Int
      BY <1>1
    <2>2. Cardinality(0 .. n - 1) = IF 0 > n - 1 THEN 0 ELSE n - 1 - 0 + 1
      BY <2>1, FS_Interval
    <2>3. DOMAIN fresh = 0 .. n - 1
      BY <1>2
    <2> HIDE DEF n, fresh
    <2> QED
      BY <1>1, <2>2, <2>3 DEF Size
  <1>5. CASE small
    <2>1. new = Append(bufs, fresh)
      BY <1>5 DEF Ensured
    <2> HIDE DEF fresh, n, small
    <2>2. /\ new \in Seq(Buffers(V)) /\ Len(new) = Len(bufs) + 1
          /\ DOMAIN new = 1 .. Len(bufs) + 1 /\ DOMAIN bufs = 1 .. Len(bufs)
          /\ Len(bufs) \in Nat /\ new[Len(bufs) + 1] = fresh
          /\ \A i \in 1 .. Len(bufs) : new[i] = bufs[i]
      BY <1>3, <2>1
    <2>3. \A i \in DOMAIN new : i \in DOMAIN bufs \/ i = Len(bufs) + 1
      BY <2>2
    <2> QED
      BY <1>1, <1>2, <1>4, <2>2, <2>3 DEF Positive
  <1>6. CASE ~small
    <2>1. new = bufs /\ bufs # <<>> /\ ~ (Cardinality(DOMAIN bufs[Len(bufs)]) < need)
      BY <1>6 DEF Ensured
    <2>2. Len(bufs) \in Positive /\ Len(bufs) \in DOMAIN bufs
      BY <2>1 DEF Positive
    <2>3. Size(bufs[Len(bufs)]) \in Nat
      BY <2>2, SizeOf
    <2> HIDE DEF small
    <2> QED
      BY <2>1, <2>2, <2>3 DEF Size
  <1> QED
    BY <1>5, <1>6

LEMMA Current ==
    ASSUME StreamInv, ProgInv, Running
    PROVE  /\ L \in Launches /\ HasRoom(L) /\ stream # <<>>
           /\ prog \in Programs(L) /\ DOMAIN prog = Grid(L)
           /\ \A p \in Grid(L) : prog[p].left \subseteq TileElements(L, p)
  <1>1. /\ stream # <<>> /\ prog \in Programs(L)
        /\ \A p \in Grid(L) : prog[p].left \subseteq TileElements(L, p)
    BY DEF ProgInv
  <1>2. 1 \in DOMAIN stream /\ L = stream[1]
    BY <1>1 DEF L, StreamInv
  <1> QED
    BY <1>1, <1>2 DEF StreamInv, Programs

-----------------------------------------------------------------------------
(***************************************************************************)
(* The steps of the GPU.                                                   *)
(***************************************************************************)

\* A launch starts on clean memory.
LEMMA StartKeeps == ASSUME Inv, StartLaunch PROVE Inv'
  <1> USE DEF StartLaunch, hostVars
  <1>1. HostInv' /\ StreamInv'
    BY DEF Inv, HostInv, StreamInv, HasRoom
  <1>2. L \in Launches /\ L' = L
    <2>1. 1 \in DOMAIN stream /\ L = stream[1]
      BY DEF Inv, StreamInv, L
    <2> QED
      BY <2>1 DEF Inv, StreamInv, L
  <1>3. /\ DOMAIN prog' = Grid(L)
        /\ \A p \in Grid(L) : prog'[p].pc = "add" /\ prog'[p].left = TileElements(L, p)
    OBVIOUS
  <1>4. ProgInv'
    <2>1. \A p \in Grid(L) : TileElements(L, p) \subseteq Elements(L.shape)
      BY DEF TileElements
    <2>2. prog' \in Programs(L)
      BY <2>1 DEF Programs
    <2> QED
      BY <1>2, <1>3, <2>2 DEF ProgInv
  <1>5. WsInv' /\ CntInv'
    <2>1. \A i \in DOMAIN ws : \A j \in DOMAIN ws[i] : ws[i][j] = {}
      BY DEF Inv, WsInv
    <2>2. \A i \in DOMAIN cnt : \A t \in DOMAIN cnt[i] : cnt[i][t] = 0
      BY DEF Inv, CntInv
    <2> QED
      BY <2>1, <2>2 DEF WsInv, CntInv
  <1>6. TileInv'
    <2>1. ASSUME NEW p \in Grid(L), L.cfg.sk > 1
          PROVE  /\ ArrivedAt(p)' = {} /\ Tile(L, p) # {}
                 /\ cnt[L.cnt][tile(L, p)] = Cardinality({})
      <3>1. ArrivedAt(p)' = {}
        BY <1>2, <1>3 DEF ArrivedAt, Tile
      <3>2. p \in Tile(L, p)
        BY DEF Tile
      <3>3. HasRoom(L)
        <4>1. 1 \in DOMAIN stream /\ L = stream[1]
          BY DEF Inv, StreamInv, L
        <4> QED
          BY <4>1 DEF Inv, StreamInv
      <3>4. tile(L, p) \in DOMAIN cnt[L.cnt] /\ L.cnt \in DOMAIN cnt
        BY <1>2, <3>3, RoomIsEnough DEF Inv, HasRoom
      <3>5. cnt[L.cnt][tile(L, p)] = 0
        BY <3>4 DEF Inv, CntInv
      <3> QED
        BY <3>1, <3>2, <3>5, FS_EmptySet
    <2> QED
      BY <1>2, <2>1 DEF TileInv
  <1> QED
    BY <1>1, <1>4, <1>5, <1>6 DEF Inv

\* A launch without a split uses no scratch memory.
LEMMA StoreKeeps == ASSUME Inv, Running, NEW p \in Grid(L), Store(p) PROVE Inv'
  <1> USE DEF Store, hostVars
  <1>1. /\ L \in Launches /\ prog \in Programs(L) /\ stream # <<>> /\ L' = L
        /\ DOMAIN prog = Grid(L)
        /\ \A q \in Grid(L) : prog[q].left \subseteq TileElements(L, q)
    BY Current DEF Inv, L
  <1>2. /\ DOMAIN prog' = DOMAIN prog
        /\ \E e \in prog[p].left : prog' = [prog EXCEPT ![p].left = @ \ {e}]
    OBVIOUS
  <1>3. HostInv' /\ StreamInv'
    BY DEF Inv, HostInv, StreamInv, HasRoom
  <1>4. ProgInv'
    <2>1. prog' \in Programs(L)
      BY <1>1, <1>2 DEF Programs
    <2>2. \A q \in Grid(L) : prog'[q].left \subseteq prog[q].left
      BY <1>1, <1>2
    <2> QED
      BY <1>1, <2>1, <2>2 DEF ProgInv
  <1>5. L.cfg.sk = 1
    OBVIOUS
  <1>6. WsInv' /\ CntInv' /\ TileInv'
    BY <1>1, <1>5 DEF Inv, WsInv, CntInv, TileInv
  <1> QED
    BY <1>3, <1>4, <1>6 DEF Inv

\* A program adds its share to an element that is not clean until it arrives.
LEMMA AddKeeps == ASSUME Inv, Running, NEW p \in Grid(L), AddPartial(p) PROVE Inv'
  <1>1. PICK e \in prog[p].left :
            /\ prog' = [prog EXCEPT ![p].left = @ \ {e}]
            /\ ws' = [ws EXCEPT ![L.ws][WsIndex(L, e)] = Plus(@, acc(L, p))]
    BY DEF AddPartial
  <1>2. /\ L \in Launches /\ HasRoom(L) /\ stream # <<>>
        /\ prog \in Programs(L) /\ DOMAIN prog = Grid(L)
        /\ \A q \in Grid(L) : prog[q].left \subseteq TileElements(L, q)
    BY Current DEF Inv
  <1>3. /\ stream' = stream /\ cnt' = cnt /\ UNCHANGED <<hostVars, Y>> /\ L' = L
        /\ L.cfg.sk > 1 /\ prog[p].pc = "add"
    BY DEF AddPartial, L
  <1>4. e \in TileElements(L, p) /\ WsIndex(L, e) \in DOMAIN ws[L.ws] /\ L.ws \in DOMAIN ws
    BY <1>2, RoomIsEnough DEF Inv, HasRoom
  <1> DEFINE x == WsIndex(L, e)
             v == Plus(ws[L.ws][x], acc(L, p))
  <1>5. v \in SUBSET Terms
    <2>1. ws[L.ws] \in Buffers(SUBSET Terms)
      BY <1>4 DEF Inv, HostInv
    <2>2. ws[L.ws][x] \in SUBSET Terms
      BY <1>4, <2>1, SizeOf
    <2>3. acc(L, p) \in SUBSET Terms
      <3>1. L.id \in Nat /\ \A k \in Slice(L, p.s) : k \in Nat
        BY <1>2 DEF Slice, Launches
      <3> QED
        BY <3>1 DEF acc, Terms
    <2> QED
      BY <2>2, <2>3 DEF Plus, Terms
  <1>6. /\ ws' \in Seq(Buffers(SUBSET Terms)) /\ DOMAIN ws' = DOMAIN ws
        /\ \A k \in DOMAIN ws : DOMAIN ws'[k] = DOMAIN ws[k]
        /\ \A k \in DOMAIN ws : \A j \in DOMAIN ws[k] :
                ws'[k][j] = IF k = L.ws /\ j = x THEN v ELSE ws[k][j]
    <2>1. ws' = [ws EXCEPT ![L.ws] = [ws[L.ws] EXCEPT ![x] = v]]
      BY <1>1
    <2>2. ws \in Seq(Buffers(SUBSET Terms))
      BY DEF Inv, HostInv
    <2> HIDE DEF x, v
    <2> QED
      BY <1>4, <1>5, <2>1, <2>2, WriteEntry
  <1>7. HostInv' /\ StreamInv'
    <2>1. HostInv'
      BY <1>3, <1>6 DEF Inv, HostInv, hostVars
    <2>2. StreamInv'
      BY <1>3, <1>6, RoomKept DEF Inv
    <2> QED
      BY <2>1, <2>2
  <1>8. /\ DOMAIN prog' = Grid(L) /\ prog' \in Programs(L) /\ Running'
        /\ \A q \in Grid(L) : /\ prog'[q].pc = prog[q].pc
                              /\ prog'[q].left \subseteq prog[q].left
                              /\ q # p => prog'[q] = prog[q]
    <2>1. /\ DOMAIN prog' = Grid(L)
          /\ \A q \in Grid(L) : /\ prog'[q].pc = prog[q].pc
                                /\ prog'[q].left \subseteq prog[q].left
                                /\ q # p => prog'[q] = prog[q]
      BY <1>1, <1>2 DEF Programs
    <2>2. prog' \in Programs(L)
      BY <1>1, <1>2 DEF Programs
    <2>3. Running'
      BY <2>1 DEF Running
    <2> QED
      BY <2>1, <2>2, <2>3
  <1>9. ProgInv'
    BY <1>2, <1>3, <1>8 DEF ProgInv
  <1>10. WsInv'
    <2> SUFFICES ASSUME NEW i \in DOMAIN ws, NEW j \in DOMAIN ws[i], ws'[i][j] # {}
                 PROVE  /\ i = L.ws
                        /\ \E q \in Grid(L) : \E f \in TileElements(L, q) :
                                WsIndex(L, f) = j /\ Owes(q, f)'
      BY <1>3, <1>6, <1>8 DEF WsInv
    <2>1. CASE i = L.ws /\ j = x
      <3>1. Owes(p, e)'
        BY <1>3, <1>8 DEF Owes
      <3> QED
        BY <1>4, <2>1, <3>1
    <2>2. CASE ~ (i = L.ws /\ j = x)
      <3>1. ws[i][j] # {}
        BY <1>6, <2>2
      <3>2. i = L.ws
        BY <3>1 DEF Inv, WsInv
      <3>3. PICK q \in Grid(L) : \E f \in TileElements(L, q) : WsIndex(L, f) = j /\ Owes(q, f)
        BY <3>1 DEF Inv, WsInv
      <3>4. PICK f \in TileElements(L, q) : WsIndex(L, f) = j /\ Owes(q, f)
        BY <3>3
      <3>5. q # p => Owes(q, f)'
        BY <1>3, <1>8, <3>4 DEF Owes
      <3>6. Owes(p, f)'
        BY <1>3, <1>8 DEF Owes
      <3> QED
        BY <3>2, <3>4, <3>5, <3>6
    <2> QED
      BY <2>1, <2>2
  <1>11. CntInv'
    BY <1>3, <1>8 DEF Inv, CntInv
  <1>12. TileInv'
    <2>1. \A q \in Grid(L) : prog'[q].pc = prog[q].pc
      BY <1>8
    <2>2. \A q \in Grid(L) : ArrivedAt(q)' = ArrivedAt(q)
      BY <1>3, <2>1 DEF ArrivedAt, Tile
    <2>3. \A q \in Grid(L) : Tile(L, q) \subseteq Grid(L)
      BY DEF Tile
    <2>4. \A q \in Grid(L) : ArrivedAt(q) \subseteq Grid(L)
      BY <2>3 DEF ArrivedAt
    <2> QED
      BY <1>3, <2>1, <2>2, <2>3, <2>4 DEF Inv, TileInv
  <1> QED
    BY <1>7, <1>9, <1>10, <1>11, <1>12 DEF Inv

\* A program that arrives hands its elements on to one of its tile that has not
\* arrived yet; the last one takes them over.
LEMMA ArriveKeeps == ASSUME Inv, Running, NEW p \in Grid(L), Arrive(p) PROVE Inv'
  <1> DEFINE t == tile(L, p)
             arrived == cnt[L.cnt][t]
  <1>1. /\ L \in Launches /\ HasRoom(L) /\ stream # <<>>
        /\ prog \in Programs(L) /\ DOMAIN prog = Grid(L)
        /\ \A q \in Grid(L) : prog[q].left \subseteq TileElements(L, q)
    BY Current DEF Inv
  <1>2. /\ stream' = stream /\ ws' = ws /\ UNCHANGED <<hostVars, Y>> /\ L' = L
        /\ L.cfg.sk > 1 /\ prog[p].pc = "add"
    BY DEF Arrive, L
  <1>3. /\ cnt' = [cnt EXCEPT ![L.cnt][t] = arrived + 1]
        /\ prog' = [prog EXCEPT ![p] =
              IF IsLast(arrived) THEN [pc |-> "finish", left |-> TileElements(L, p)]
                                 ELSE [pc |-> "done", left |-> {}]]
    BY DEF Arrive
  <1>4. t \in DOMAIN cnt[L.cnt] /\ L.cnt \in DOMAIN cnt /\ arrived \in Nat
    <2>1. t \in DOMAIN cnt[L.cnt] /\ L.cnt \in DOMAIN cnt
      BY <1>1, RoomIsEnough DEF Inv, HasRoom
    <2>2. cnt[L.cnt] \in Buffers(Nat)
      BY <2>1 DEF Inv, HostInv
    <2> QED
      BY <2>1, <2>2, SizeOf
  <1>5. /\ cnt' \in Seq(Buffers(Nat)) /\ DOMAIN cnt' = DOMAIN cnt
        /\ \A k \in DOMAIN cnt : DOMAIN cnt'[k] = DOMAIN cnt[k]
        /\ \A k \in DOMAIN cnt : \A j \in DOMAIN cnt[k] :
                cnt'[k][j] = IF k = L.cnt /\ j = t THEN arrived + 1 ELSE cnt[k][j]
    <2>1. cnt' = [cnt EXCEPT ![L.cnt] = [cnt[L.cnt] EXCEPT ![t] = arrived + 1]]
      BY <1>3
    <2>2. cnt \in Seq(Buffers(Nat)) /\ arrived + 1 \in Nat
      BY <1>4 DEF Inv, HostInv
    <2> HIDE DEF t, arrived
    <2> QED
      BY <1>4, <2>1, <2>2, WriteEntry
  <1> HIDE DEF arrived
  <1>6. HostInv' /\ StreamInv'
    <2>1. HostInv'
      BY <1>2, <1>5 DEF Inv, HostInv, hostVars
    <2>2. StreamInv'
      BY <1>2, <1>5, RoomKept DEF Inv
    <2> QED
      BY <2>1, <2>2
  <1>7. /\ DOMAIN prog' = Grid(L) /\ Running'
        /\ \A q \in Grid(L) : q # p => prog'[q] = prog[q]
        /\ prog'[p] = IF IsLast(arrived) THEN [pc |-> "finish", left |-> TileElements(L, p)]
                                         ELSE [pc |-> "done", left |-> {}]
    <2>1. DOMAIN prog' = Grid(L)
      BY <1>1, <1>3
    <2>2. Running'
      BY <2>1 DEF Running
    <2> QED
      BY <1>1, <1>3, <2>1, <2>2
  <1>8. ProgInv'
    <2>1. TileElements(L, p) \subseteq Elements(L.shape)
      BY DEF TileElements
    <2>2. /\ prog'[p] \in [pc : {"add", "finish", "reset", "done"},
                           left : SUBSET Elements(L.shape)]
          /\ prog'[p].left \subseteq TileElements(L, p)
      BY <1>7, <2>1
    <2>3. prog' \in Programs(L)
      BY <1>1, <1>3, <1>7, <2>2 DEF Programs
    <2> QED
      BY <1>1, <1>2, <1>7, <2>2, <2>3 DEF ProgInv
  \* The arrivals at the tile of p, before and after.
  <1> DEFINE T == Tile(L, p)
             A == ArrivedAt(p)
  <1>9. /\ IsFiniteSet(T) /\ Cardinality(T) = L.cfg.sk /\ L.cfg.sk \in Nat
        /\ p \in T /\ T \subseteq Grid(L)
    BY <1>1, TileHasSlices DEF Tile, Positive
  <1>10. A \subseteq T /\ p \notin A /\ IsFiniteSet(A)
    <2>1. A \subseteq T /\ p \notin A
      BY <1>2 DEF ArrivedAt
    <2> QED
      BY <1>9, <2>1, FS_Subset
  <1>11. /\ arrived = Cardinality(A) /\ \A q \in A : prog[q].pc = "done"
    BY <1>2, <1>9, <1>10 DEF Inv, TileInv, arrived
  <1>12. ArrivedAt(p)' = A \cup {p}
    BY <1>2, <1>7, <1>9 DEF ArrivedAt, Tile
  <1>13. /\ Cardinality(A \cup {p}) = arrived + 1
         /\ A \cup {p} = T <=> IsLast(arrived)
    <2> HIDE DEF A, T
    <2>1. Cardinality(A \cup {p}) = Cardinality(A) + 1 /\ IsFiniteSet(A \cup {p})
      BY <1>10, FS_AddElement
    <2>2. A \cup {p} \subseteq T
      BY <1>9, <1>10
    <2>3. A \cup {p} # T => Cardinality(A \cup {p}) < Cardinality(T)
      BY <1>9, <2>1, <2>2, FS_Subset, FS_CardinalityType
    <2>4. IsLast(arrived) <=> arrived + 1 = L.cfg.sk
      BY <1>4, <1>9 DEF IsLast, arrived
    <2> QED
      BY <1>4, <1>9, <1>11, <2>1, <2>3, <2>4 DEF arrived
  <1>14. \A q \in T : Tile(L, q) = T /\ tile(L, q) = t
    BY <1>9 DEF Tile, tile
  <1>15. WsInv'
    <2> SUFFICES ASSUME NEW i \in DOMAIN ws, NEW j \in DOMAIN ws[i], ws[i][j] # {}
                 PROVE  /\ i = L.ws
                        /\ \E q \in Grid(L) : \E f \in TileElements(L, q) :
                                WsIndex(L, f) = j /\ Owes(q, f)'
      BY <1>2, <1>7 DEF WsInv
    <2>1. i = L.ws
      BY DEF Inv, WsInv
    <2>2. PICK q \in Grid(L) : \E f \in TileElements(L, q) : WsIndex(L, f) = j /\ Owes(q, f)
      BY DEF Inv, WsInv
    <2>3. PICK f \in TileElements(L, q) : WsIndex(L, f) = j /\ Owes(q, f)
      BY <2>2
    <2>4. CASE q # p
      <3>1. Owes(q, f)'
        BY <1>7, <2>3, <2>4 DEF Owes
      <3> QED
        BY <2>1, <2>3, <3>1
    <2>5. CASE q = p /\ IsLast(arrived)
      <3>1. Owes(p, f)'
        BY <1>7, <2>3, <2>5 DEF Owes
      <3> QED
        BY <2>1, <2>3, <2>5, <3>1
    <2>6. CASE q = p /\ ~IsLast(arrived)
      <3>1. PICK r \in T : r \notin A \cup {p}
        BY <1>9, <1>10, <1>13, <2>6
      <3>2. r \in Grid(L) /\ prog[r].pc = "add" /\ r # p
        BY <1>9, <3>1 DEF ArrivedAt
      <3>3. Owes(r, f)'
        BY <1>7, <3>2 DEF Owes
      <3>4. f \in TileElements(L, r)
        BY <2>3, <2>6, <3>1 DEF Tile, TileElements
      <3> QED
        BY <2>1, <2>3, <3>2, <3>3, <3>4
    <2> QED
      BY <2>4, <2>5, <2>6
  <1>16. CntInv'
    <2> SUFFICES ASSUME NEW i \in DOMAIN cnt, NEW j \in DOMAIN cnt[i], cnt'[i][j] # 0
                 PROVE  i = L.cnt /\ \E q \in Grid(L) : tile(L, q) = j
      BY <1>2, <1>5, <1>7 DEF CntInv
    <2>1. CASE i = L.cnt /\ j = t
      BY <2>1
    <2>2. CASE ~ (i = L.cnt /\ j = t)
      BY <1>5, <2>2 DEF Inv, CntInv
    <2> QED
      BY <2>1, <2>2
  <1>17. TileInv'
    <2> SUFFICES ASSUME NEW q \in Grid(L)
                 PROVE  IF ArrivedAt(q)' # Tile(L, q)
                        THEN /\ cnt'[L.cnt][tile(L, q)] = Cardinality(ArrivedAt(q)')
                             /\ \A r \in ArrivedAt(q)' : prog'[r].pc = "done"
                        ELSE /\ \E r \in Tile(L, q) : prog'[r].pc # "done"
                             /\ (\E r \in Tile(L, q) : prog'[r].pc = "reset")
                                    => cnt'[L.cnt][tile(L, q)] = 0
      BY <1>2 DEF TileInv
    <2>1. CASE q \in T
      <3>1. ArrivedAt(q)' = A \cup {p} /\ Tile(L, q) = T /\ tile(L, q) = t
        <4>1. Tile(L, q) = T /\ tile(L, q) = t
          BY <1>14, <2>1
        <4>2. ArrivedAt(q)' = ArrivedAt(p)'
          BY <1>2, <4>1 DEF ArrivedAt
        <4> QED
          BY <1>12, <4>1, <4>2
      <3>2. cnt'[L.cnt][t] = arrived + 1
        BY <1>4, <1>5
      <3>3. CASE IsLast(arrived)
        <4>1. prog'[p].pc = "finish" /\ \A r \in A : prog'[r].pc = "done"
          BY <1>7, <1>9, <1>10, <1>11, <3>3
        <4>2. A \cup {p} = T
          BY <1>13, <3>3
        <4> HIDE DEF A, T
        <4> QED
          BY <3>1, <4>1, <4>2
      <3>4. CASE ~IsLast(arrived)
        <4>1. prog'[p].pc = "done" /\ \A r \in A : prog'[r].pc = "done"
          BY <1>7, <1>9, <1>10, <1>11, <3>4
        <4> HIDE DEF A, T
        <4> QED
          BY <1>13, <3>1, <3>2, <3>4, <4>1
      <3> QED
        BY <3>3, <3>4
    <2>2. CASE q \notin T
      <3>1. p \notin Tile(L, q)
        BY <2>2 DEF Tile
      <3>2. tile(L, q) # t
        BY <1>1, <2>2, TilesApart
      <3>3. \A r \in Tile(L, q) : r \in Grid(L) /\ prog'[r] = prog[r]
        BY <1>7, <3>1 DEF Tile
      <3>4. ArrivedAt(q)' = ArrivedAt(q) /\ ArrivedAt(q) \subseteq Tile(L, q)
        BY <1>2, <3>3 DEF ArrivedAt
      <3>5. tile(L, q) \in DOMAIN cnt[L.cnt]
        BY <1>1, RoomIsEnough DEF Inv
      <3>6. cnt'[L.cnt][tile(L, q)] = cnt[L.cnt][tile(L, q)]
        BY <1>4, <1>5, <3>2, <3>5
      <3>7. IF ArrivedAt(q) # Tile(L, q)
            THEN /\ cnt[L.cnt][tile(L, q)] = Cardinality(ArrivedAt(q))
                 /\ \A r \in ArrivedAt(q) : prog[r].pc = "done"
            ELSE /\ \E r \in Tile(L, q) : prog[r].pc # "done"
                 /\ (\E r \in Tile(L, q) : prog[r].pc = "reset")
                        => cnt[L.cnt][tile(L, q)] = 0
        BY <1>2 DEF Inv, TileInv
      <3> QED
        BY <3>3, <3>4, <3>6, <3>7
    <2> QED
      BY <2>1, <2>2
  <1> QED
    BY <1>6, <1>8, <1>15, <1>16, <1>17 DEF Inv

\* The programs that finish a tile store and clear its elements.
LEMMA TotalKeeps == ASSUME Inv, Running, NEW p \in Grid(L), StoreTotal(p) PROVE Inv'
  <1>1. PICK e \in prog[p].left :
            /\ prog' = [prog EXCEPT ![p].left = @ \ {e}]
            /\ ws' = [ws EXCEPT ![L.ws][WsIndex(L, e)] = {}]
    BY DEF StoreTotal, Cleared
  <1>2. /\ L \in Launches /\ HasRoom(L) /\ stream # <<>>
        /\ prog \in Programs(L) /\ DOMAIN prog = Grid(L)
        /\ \A q \in Grid(L) : prog[q].left \subseteq TileElements(L, q)
    BY Current DEF Inv
  <1>3. /\ stream' = stream /\ cnt' = cnt /\ UNCHANGED hostVars /\ L' = L
    BY DEF StoreTotal, L
  <1>4. L.ws \in DOMAIN ws
    BY <1>2 DEF HasRoom
  <1> DEFINE x == WsIndex(L, e)
             v == {}
  <1>5. /\ ws' \in Seq(Buffers(SUBSET Terms)) /\ DOMAIN ws' = DOMAIN ws
        /\ \A k \in DOMAIN ws : DOMAIN ws'[k] = DOMAIN ws[k]
        /\ \A k \in DOMAIN ws : \A j \in DOMAIN ws[k] :
                ws'[k][j] = IF k = L.ws /\ j = x THEN v ELSE ws[k][j]
    <2>1. ws' = [ws EXCEPT ![L.ws] = [ws[L.ws] EXCEPT ![x] = v]]
      BY <1>1
    <2>2. ws \in Seq(Buffers(SUBSET Terms)) /\ v \in SUBSET Terms
      BY DEF Inv, HostInv
    <2> HIDE DEF x, v
    <2> QED
      BY <1>4, <2>1, <2>2, WriteEntry
  <1>6. HostInv' /\ StreamInv'
    <2>1. HostInv'
      BY <1>3, <1>5 DEF Inv, HostInv, hostVars
    <2>2. StreamInv'
      BY <1>3, <1>5, RoomKept DEF Inv
    <2> QED
      BY <2>1, <2>2
  <1>7. /\ DOMAIN prog' = Grid(L) /\ prog' \in Programs(L) /\ Running'
        /\ \A q \in Grid(L) : /\ prog'[q].pc = prog[q].pc
                              /\ prog'[q].left = prog[q].left \ (IF q = p THEN {e} ELSE {})
    <2>1. /\ DOMAIN prog' = Grid(L)
          /\ \A q \in Grid(L) : /\ prog'[q].pc = prog[q].pc
                                /\ prog'[q].left = prog[q].left \ (IF q = p THEN {e} ELSE {})
      BY <1>1, <1>2 DEF Programs
    <2>2. prog' \in Programs(L)
      BY <1>1, <1>2 DEF Programs
    <2>3. Running'
      BY <2>1 DEF Running
    <2> QED
      BY <2>1, <2>2, <2>3
  <1>8. ProgInv'
    BY <1>2, <1>3, <1>7 DEF ProgInv
  <1>9. WsInv'
    <2> SUFFICES ASSUME NEW i \in DOMAIN ws, NEW j \in DOMAIN ws[i], ws'[i][j] # {}
                 PROVE  /\ L.cfg.sk > 1 /\ i = L.ws
                        /\ \E q \in Grid(L) : \E f \in TileElements(L, q) :
                                WsIndex(L, f) = j /\ Owes(q, f)'
      BY <1>3, <1>5, <1>7 DEF WsInv
    <2>1. ws[i][j] # {} /\ ~ (i = L.ws /\ j = x)
      BY <1>5
    <2>2. L.cfg.sk > 1 /\ i = L.ws
      BY <2>1 DEF Inv, WsInv
    <2>3. PICK q \in Grid(L) : \E f \in TileElements(L, q) : WsIndex(L, f) = j /\ Owes(q, f)
      BY <2>1 DEF Inv, WsInv
    <2>4. PICK f \in TileElements(L, q) : WsIndex(L, f) = j /\ Owes(q, f)
      BY <2>3
    <2>5. f # e
      BY <2>1, <2>2, <2>4
    <2>6. Owes(q, f)'
      BY <1>7, <2>4, <2>5 DEF Owes
    <2> QED
      BY <2>2, <2>4, <2>6
  <1>10. CntInv'
    BY <1>3, <1>7 DEF Inv, CntInv
  <1>11. TileInv'
    <2>1. \A q \in Grid(L) : prog'[q].pc = prog[q].pc
      BY <1>7
    <2>2. \A q \in Grid(L) : ArrivedAt(q)' = ArrivedAt(q)
      BY <1>3, <2>1 DEF ArrivedAt, Tile
    <2>3. \A q \in Grid(L) : Tile(L, q) \subseteq Grid(L)
      BY DEF Tile
    <2>4. CASE L.cfg.sk > 1
      <3>1. \A q \in Grid(L) : ArrivedAt(q) \subseteq Grid(L)
        BY <2>3 DEF ArrivedAt
      <3> QED
        BY <1>3, <2>1, <2>2, <2>3, <2>4, <3>1 DEF Inv, TileInv
    <2>5. CASE ~ (L.cfg.sk > 1)
      BY <1>3, <2>5 DEF TileInv
    <2> QED
      BY <2>4, <2>5
  <1> QED
    BY <1>6, <1>8, <1>9, <1>10, <1>11 DEF Inv

\* The counter is reset when all programs of the tile have arrived.
LEMMA ResetKeeps == ASSUME Inv, Running, NEW p \in Grid(L), ResetCounter(p) PROVE Inv'
  <1> DEFINE t == tile(L, p)
             v == 0
  <1>1. /\ L \in Launches /\ HasRoom(L) /\ stream # <<>>
        /\ prog \in Programs(L) /\ DOMAIN prog = Grid(L)
        /\ \A q \in Grid(L) : prog[q].left \subseteq TileElements(L, q)
    BY Current DEF Inv
  <1>2. /\ stream' = stream /\ ws' = ws /\ UNCHANGED hostVars /\ L' = L
        /\ prog[p].pc = "finish"
        /\ prog' = [prog EXCEPT ![p].pc = "reset"]
    BY DEF ResetCounter, L
  <1>3. /\ t \in DOMAIN cnt[L.cnt] /\ L.cnt \in DOMAIN cnt
    BY <1>1, RoomIsEnough DEF Inv, HasRoom
  <1>4. /\ cnt' \in Seq(Buffers(Nat)) /\ DOMAIN cnt' = DOMAIN cnt
        /\ \A k \in DOMAIN cnt : DOMAIN cnt'[k] = DOMAIN cnt[k]
        /\ \A k \in DOMAIN cnt : \A j \in DOMAIN cnt[k] :
                cnt'[k][j] = IF k = L.cnt /\ j = t THEN v ELSE cnt[k][j]
    <2>1. cnt' = [cnt EXCEPT ![L.cnt] = [cnt[L.cnt] EXCEPT ![t] = v]]
      BY DEF ResetCounter
    <2>2. cnt \in Seq(Buffers(Nat)) /\ v \in Nat
      BY DEF Inv, HostInv
    <2> HIDE DEF t, v
    <2> QED
      BY <1>3, <2>1, <2>2, WriteEntry
  <1>5. HostInv' /\ StreamInv'
    <2>1. HostInv'
      BY <1>2, <1>4 DEF Inv, HostInv, hostVars
    <2>2. StreamInv'
      BY <1>2, <1>4, RoomKept DEF Inv
    <2> QED
      BY <2>1, <2>2
  <1>6. /\ DOMAIN prog' = Grid(L) /\ prog' \in Programs(L) /\ Running'
        /\ \A q \in Grid(L) : /\ prog'[q].left = prog[q].left
                              /\ prog'[q].pc = IF q = p THEN "reset" ELSE prog[q].pc
    <2>1. /\ DOMAIN prog' = Grid(L)
          /\ \A q \in Grid(L) : /\ prog'[q].left = prog[q].left
                                /\ prog'[q].pc = IF q = p THEN "reset" ELSE prog[q].pc
      BY <1>1, <1>2 DEF Programs
    <2>2. prog' \in Programs(L)
      BY <1>1, <1>2 DEF Programs
    <2>3. Running'
      BY <2>1 DEF Running
    <2> QED
      BY <2>1, <2>2, <2>3
  <1>7. ProgInv'
    BY <1>1, <1>2, <1>6 DEF ProgInv
  <1>8. WsInv'
    <2> SUFFICES ASSUME NEW i \in DOMAIN ws, NEW j \in DOMAIN ws[i], ws[i][j] # {}
                 PROVE  /\ L.cfg.sk > 1 /\ i = L.ws
                        /\ \E q \in Grid(L) : \E f \in TileElements(L, q) :
                                WsIndex(L, f) = j /\ Owes(q, f)'
      BY <1>2, <1>6 DEF WsInv
    <2>1. L.cfg.sk > 1 /\ i = L.ws
      BY DEF Inv, WsInv
    <2>2. PICK q \in Grid(L) : \E f \in TileElements(L, q) : WsIndex(L, f) = j /\ Owes(q, f)
      BY DEF Inv, WsInv
    <2>3. PICK f \in TileElements(L, q) : WsIndex(L, f) = j /\ Owes(q, f)
      BY <2>2
    <2>4. Owes(q, f)'
      BY <1>2, <1>6, <2>3 DEF Owes
    <2> QED
      BY <2>1, <2>3, <2>4
  <1>9. CntInv'
    BY <1>2, <1>4, <1>6 DEF Inv, CntInv
  <1>10. TileInv'
    <2> SUFFICES ASSUME L.cfg.sk > 1, NEW q \in Grid(L)
                 PROVE  IF ArrivedAt(q)' # Tile(L, q)
                        THEN /\ cnt'[L.cnt][tile(L, q)] = Cardinality(ArrivedAt(q)')
                             /\ \A r \in ArrivedAt(q)' : prog'[r].pc = "done"
                        ELSE /\ \E r \in Tile(L, q) : prog'[r].pc # "done"
                             /\ (\E r \in Tile(L, q) : prog'[r].pc = "reset")
                                    => cnt'[L.cnt][tile(L, q)] = 0
      BY <1>2 DEF TileInv
    <2>1. /\ Tile(L, q) \subseteq Grid(L)
          /\ p \in Tile(L, q) => tile(L, q) = t
      BY DEF Tile, tile
    <2>2. ArrivedAt(q)' = ArrivedAt(q)
      <3>1. \A r \in Tile(L, q) : prog'[r].pc # "add" <=> prog[r].pc # "add"
        BY <1>2, <1>6, <2>1
      <3> QED
        BY <1>2, <3>1 DEF ArrivedAt
    <2>3. IF ArrivedAt(q) # Tile(L, q)
          THEN /\ cnt[L.cnt][tile(L, q)] = Cardinality(ArrivedAt(q))
               /\ \A r \in ArrivedAt(q) : prog[r].pc = "done"
          ELSE /\ \E r \in Tile(L, q) : prog[r].pc # "done"
               /\ (\E r \in Tile(L, q) : prog[r].pc = "reset")
                      => cnt[L.cnt][tile(L, q)] = 0
      BY DEF Inv, TileInv
    <2>4. CASE p \in Tile(L, q)
      <3>1. p \in ArrivedAt(q)
        BY <1>2, <2>4 DEF ArrivedAt
      <3>2. ArrivedAt(q) = Tile(L, q)
        BY <1>2, <2>3, <3>1
      <3>3. cnt'[L.cnt][tile(L, q)] = 0 /\ prog'[p].pc = "reset"
        BY <1>3, <1>4, <1>6, <2>1, <2>4
      <3> QED
        BY <2>2, <2>4, <3>2, <3>3
    <2>5. CASE p \notin Tile(L, q)
      <3>1. tile(L, q) # t
        BY <1>1, <2>5, TilesApart
      <3>2. tile(L, q) \in DOMAIN cnt[L.cnt]
        BY <1>1, RoomIsEnough DEF Inv
      <3>3. cnt'[L.cnt][tile(L, q)] = cnt[L.cnt][tile(L, q)]
        BY <1>3, <1>4, <3>1, <3>2
      <3>4. \A r \in Tile(L, q) : prog'[r].pc = prog[r].pc
        BY <1>6, <2>1, <2>5
      <3>5. ArrivedAt(q) \subseteq Tile(L, q)
        BY DEF ArrivedAt
      <3> QED
        BY <2>2, <2>3, <3>3, <3>4, <3>5
    <2> QED
      BY <2>4, <2>5
  <1> QED
    BY <1>5, <1>7, <1>8, <1>9, <1>10 DEF Inv

\* All programs of a launch that ends have handed on or cleared everything.
LEMMA EndKeeps == ASSUME Inv, EndLaunch PROVE Inv'
  <1>1. /\ Running /\ prog' = <<>> /\ stream' = Tail(stream) /\ stream # <<>>
        /\ ws' = ws /\ cnt' = cnt /\ UNCHANGED hostVars /\ ~Running'
        /\ L \in Launches
    BY Current DEF EndLaunch, Inv, Running
  <1>2. \A p \in Grid(L) : /\ prog[p].left = {}
                           /\ L.cfg.sk > 1 => prog[p].pc \in {"done", "reset"}
    BY DEF EndLaunch, Ended
  <1>3. ASSUME NEW i \in DOMAIN ws, NEW j \in DOMAIN ws[i] PROVE ws[i][j] = {}
    <2> SUFFICES ASSUME ws[i][j] # {} PROVE FALSE
      OBVIOUS
    <2>1. L.cfg.sk > 1
      BY DEF Inv, WsInv
    <2>2. PICK q \in Grid(L) : \E f \in TileElements(L, q) : WsIndex(L, f) = j /\ Owes(q, f)
      BY DEF Inv, WsInv
    <2>3. PICK f \in TileElements(L, q) : Owes(q, f)
      BY <2>2
    <2>4. prog[q].left = {} /\ prog[q].pc \in {"done", "reset"}
      BY <1>2, <2>1
    <2>5. prog[q].pc # "add" /\ f \notin prog[q].left
      BY <2>4
    <2> QED
      BY <2>3, <2>5 DEF Owes
  <1>4. ASSUME NEW i \in DOMAIN cnt, NEW t \in DOMAIN cnt[i] PROVE cnt[i][t] = 0
    <2> SUFFICES ASSUME cnt[i][t] # 0 PROVE FALSE
      OBVIOUS
    <2>1. L.cfg.sk > 1 /\ i = L.cnt
      BY DEF Inv, CntInv
    <2>2. PICK p \in Grid(L) : tile(L, p) = t
      BY DEF Inv, CntInv
    <2>3. Tile(L, p) \subseteq Grid(L)
      BY DEF Tile
    <2>4. \A q \in Tile(L, p) : prog[q].pc \in {"done", "reset"}
      BY <1>2, <2>1, <2>3
    <2>5. ArrivedAt(p) = Tile(L, p)
      BY <2>4 DEF ArrivedAt
    <2>6. \E q \in Tile(L, p) : prog[q].pc # "done"
      BY <1>1, <2>1, <2>5 DEF Inv, TileInv
    <2>7. \E q \in Tile(L, p) : prog[q].pc = "reset"
      BY <2>4, <2>6
    <2>8. cnt[L.cnt][tile(L, p)] = 0
      BY <1>1, <2>1, <2>5, <2>7 DEF Inv, TileInv
    <2> QED
      BY <2>1, <2>2, <2>8
  <1>5. HostInv'
    BY <1>1 DEF Inv, HostInv, hostVars
  <1>6. StreamInv'
    <2>1. stream \in Seq(Launches)
      BY DEF Inv, StreamInv
    <2>2. /\ Tail(stream) \in Seq(Launches)
          /\ \A i \in DOMAIN Tail(stream) : i + 1 \in DOMAIN stream
                                           /\ Tail(stream)[i] = stream[i + 1]
      BY <1>1, <2>1
    <2>3. \A i \in DOMAIN stream : HasRoom(stream[i])
      BY DEF Inv, StreamInv
    <2> QED
      BY <1>1, <2>2, <2>3 DEF StreamInv, HasRoom
  <1> QED
    BY <1>1, <1>3, <1>4, <1>5, <1>6 DEF Inv, ProgInv, WsInv, CntInv, TileInv

-----------------------------------------------------------------------------
(***************************************************************************)
(* The steps of the host.                                                  *)
(***************************************************************************)

\* A call keeps the running launch and its memory, and gives its launches
\* buffers with room.
LEMMA ForwardKeeps ==
    ASSUME Inv, NEW shape \in Shapes, NEW layout \in Layouts, _forward_triton(shape, layout)
    PROVE  Inv'
  <1> DEFINE hit == _launch_cache[<<shape, layout>>] # None
             tune == ~hit /\ tuned[shape] = None
             launch(i, c) == [id |-> launched + i, call |-> Len(calls) + 1, shape |-> shape,
                              cfg |-> c, ws |-> Len(ws'), cnt |-> Len(cnt')]
             n_ws == shape.m * shape.n
             n_cnt == CountersNeeded(shape)
  <1>1. /\ _get_workspace(shape) /\ calls' = Append(calls, shape) /\ prog' = prog
    BY DEF _forward_triton
  <1>2. /\ shape.m \in Positive /\ shape.n \in Positive /\ n_ws \in Nat /\ n_cnt \in Nat
    <2>1. /\ shape.m \in Positive /\ shape.n \in Positive
          /\ MinBM \in Positive /\ MinBN \in Positive
      BY SplitKAssumption
    <2>2. cdiv(shape.m, MinBM) \in Nat /\ cdiv(shape.n, MinBN) \in Nat
      BY <2>1, CdivCovers DEF Positive
    <2>3. CountersNeeded(shape) \in Nat
      BY <2>2 DEF CountersNeeded
    <2> QED
      BY <2>1, <2>3 DEF Positive
  <1> DEFINE none == {}
             zero == 0
  <1>3. /\ ws' \in Seq(Buffers(SUBSET Terms)) /\ Len(ws') \in Positive
        /\ Len(ws') \in DOMAIN ws' /\ n_ws <= Size(ws'[Len(ws')])
        /\ \A i \in DOMAIN ws : i \in DOMAIN ws' /\ ws'[i] = ws[i]
        /\ \A i \in DOMAIN ws' : i \in DOMAIN ws \/ \A j \in DOMAIN ws'[i] : ws'[i][j] = none
    <2>1. ws \in Seq(Buffers(SUBSET Terms)) /\ none \in SUBSET Terms /\ WsFloor \in Nat
      BY SplitKAssumption DEF Inv, HostInv
    <2>2. ws' = Ensured(ws, n_ws, WsFloor, none)
      BY <1>1 DEF _get_workspace, Ensured
    <2> DEFINE V == SUBSET Terms
    <2>3. ws \in Seq(Buffers(V)) /\ none \in V /\ n_ws \in Nat
      BY <1>2, <2>1
    <2> HIDE DEF none, n_ws, V
    <2>4. /\ ws' \in Seq(Buffers(V)) /\ Len(ws') \in Positive
          /\ Len(ws') \in DOMAIN ws' /\ n_ws <= Size(ws'[Len(ws')])
      BY <2>1, <2>2, <2>3, EnsureSize
    <2>5. \A i \in DOMAIN ws : i \in DOMAIN ws' /\ ws'[i] = ws[i]
      BY <2>1, <2>2, <2>3, EnsureSize
    <2>6. \A i \in DOMAIN ws' : i \in DOMAIN ws \/ \A j \in DOMAIN ws'[i] : ws'[i][j] = none
      BY <2>1, <2>2, <2>3, EnsureSize
    <2> QED
      BY <2>4, <2>5, <2>6 DEF V
  <1>4. /\ cnt' \in Seq(Buffers(Nat)) /\ Len(cnt') \in Positive
        /\ Len(cnt') \in DOMAIN cnt' /\ n_cnt <= Size(cnt'[Len(cnt')])
        /\ \A i \in DOMAIN cnt : i \in DOMAIN cnt' /\ cnt'[i] = cnt[i]
        /\ \A i \in DOMAIN cnt' : i \in DOMAIN cnt \/ \A j \in DOMAIN cnt'[i] : cnt'[i][j] = zero
    <2>1. cnt \in Seq(Buffers(Nat)) /\ zero \in Nat /\ CntFloor \in Nat
      BY SplitKAssumption DEF Inv, HostInv
    <2>2. cnt' = Ensured(cnt, n_cnt, CntFloor, zero)
      BY <1>1 DEF _get_workspace, Ensured
    <2> DEFINE V == Nat
    <2>3. cnt \in Seq(Buffers(V)) /\ zero \in V /\ n_cnt \in Nat
      BY <1>2, <2>1
    <2> HIDE DEF zero, n_cnt, V
    <2>4. /\ cnt' \in Seq(Buffers(V)) /\ Len(cnt') \in Positive
          /\ Len(cnt') \in DOMAIN cnt' /\ n_cnt <= Size(cnt'[Len(cnt')])
      BY <2>1, <2>2, <2>3, EnsureSize
    <2>5. \A i \in DOMAIN cnt : i \in DOMAIN cnt' /\ cnt'[i] = cnt[i]
      BY <2>1, <2>2, <2>3, EnsureSize
    <2>6. \A i \in DOMAIN cnt' : i \in DOMAIN cnt \/ \A j \in DOMAIN cnt'[i] : cnt'[i][j] = zero
      BY <2>1, <2>2, <2>3, EnsureSize
    <2> QED
      BY <2>4, <2>5, <2>6 DEF V
  <1>5. PICK best \in IF tune THEN ToSet(prune(shape.m)) ELSE {tuned[shape]} :
            LET runs == CASE hit   -> <<_launch_cache[<<shape, layout>>]>>
                          [] tune  -> Append(prune(shape.m), best)
                          [] OTHER -> <<best>>
            IN  /\ stream' = stream \o [i \in DOMAIN runs |-> launch(i, runs[i])]
                /\ launched' = launched + Len(runs)
                /\ tuned' = [tuned EXCEPT ![shape] = best]
                /\ _launch_cache' = [_launch_cache EXCEPT ![<<shape, layout>>] = Last(runs)]
    BY DEF _forward_triton
  <1> DEFINE runs == CASE hit   -> <<_launch_cache[<<shape, layout>>]>>
                       [] tune  -> Append(prune(shape.m), best)
                       [] OTHER -> <<best>>
             new == [i \in DOMAIN runs |-> launch(i, runs[i])]
  \* Only configurations of the autotuner's list are launched.
  <1>6. runs \in Seq(ConfigType) /\ runs # <<>> /\ best \in ConfigType \cup {None}
    <2>1. /\ tuned[shape] \in ConfigType \cup {None}
          /\ _launch_cache[<<shape, layout>>] \in ConfigType \cup {None}
      BY DEF Inv, HostInv
    <2>2. prune(shape.m) \in Seq(ConfigType)
      BY SplitKAssumption
    <2>3. CASE hit
      <3>1. runs = <<_launch_cache[<<shape, layout>>]>> /\ best = tuned[shape]
        BY <2>3
      <3>2. _launch_cache[<<shape, layout>>] \in ConfigType
        BY <2>1, <2>3
      <3> HIDE DEF runs
      <3> QED
        BY <2>1, <3>1, <3>2
    <2>4. CASE tune
      <3>1. runs = Append(prune(shape.m), best) /\ best \in ToSet(prune(shape.m))
        BY <2>4
      <3>2. best \in ConfigType
        BY <2>2, <3>1 DEF ToSet
      <3> HIDE DEF runs
      <3> QED
        BY <2>2, <3>1, <3>2
    <2>5. CASE ~hit /\ ~tune
      <3>1. runs = <<best>> /\ best = tuned[shape] /\ best # None
        BY <2>5
      <3> HIDE DEF runs
      <3> QED
        BY <2>1, <3>1
    <2> QED
      BY <2>3, <2>4, <2>5
  <1>7. /\ stream' = stream \o new /\ launched' = launched + Len(runs)
        /\ tuned' = [tuned EXCEPT ![shape] = best]
        /\ _launch_cache' = [_launch_cache EXCEPT ![<<shape, layout>>] = Last(runs)]
    BY <1>5
  <1> HIDE DEF runs
  <1>8. HostInv'
    <2>1. Last(runs) \in ConfigType /\ Len(runs) \in Nat
      BY <1>6 DEF Last
    <2>2. tuned' \in [Shapes -> ConfigType \cup {None}]
      BY <1>6, <1>7 DEF Inv, HostInv
    <2>3. _launch_cache' \in [Shapes \X Layouts -> ConfigType \cup {None}]
      BY <1>7, <2>1 DEF Inv, HostInv
    <2>4. launched' \in Nat /\ calls' \in Seq(Shapes)
      BY <1>1, <1>7, <2>1 DEF Inv, HostInv
    <2> QED
      BY <1>3, <1>4, <2>2, <2>3, <2>4 DEF HostInv
  <1>9. /\ new \in Seq(Launches)
        /\ \A i \in DOMAIN new : /\ new[i].shape = shape
                                 /\ new[i].ws = Len(ws') /\ new[i].cnt = Len(cnt')
    <2>1. DOMAIN runs = 1 .. Len(runs) /\ Len(runs) \in Nat
      BY <1>6
    <2>2. launched \in Nat /\ Len(calls) \in Nat
      BY DEF Inv, HostInv
    <2>3. ASSUME NEW i \in DOMAIN runs PROVE launch(i, runs[i]) \in Launches
      <3>1. i \in Nat /\ runs[i] \in ConfigType
        BY <1>6, <2>1
      <3> QED
        BY <1>3, <1>4, <2>2, <3>1 DEF Launches
    <2>4. new \in [1 .. Len(runs) -> Launches]
      BY <2>1, <2>3
    <2>5. \A i \in DOMAIN new : /\ new[i].shape = shape
                                /\ new[i].ws = Len(ws') /\ new[i].cnt = Len(cnt')
      OBVIOUS
    <2> HIDE DEF new
    <2> QED
      BY <2>1, <2>4, <2>5
  <1> HIDE DEF new
  <1>10. /\ stream' \in Seq(Launches)
         /\ \A i \in DOMAIN stream' :
                \/ i \in DOMAIN stream /\ stream'[i] = stream[i]
                \/ \E j \in DOMAIN new : stream'[i] = new[j]
         /\ stream # <<>> => stream' # <<>> /\ Head(stream') = Head(stream)
    <2>1. stream \in Seq(Launches)
      BY DEF Inv, StreamInv
    <2>2. \A i \in DOMAIN stream' : i \in 1 .. Len(stream) \/ i - Len(stream) \in 1 .. Len(new)
      BY <1>7, <1>9, <2>1
    <2> QED
      BY <1>7, <1>9, <2>1, <2>2
  <1>11. StreamInv'
    <2>1. ASSUME NEW i \in DOMAIN stream' PROVE HasRoom(stream[i])'
      <3>1. CASE i \in DOMAIN stream /\ stream'[i] = stream[i]
        <4>1. HasRoom(stream[i])
          BY <3>1 DEF Inv, StreamInv
        <4> QED
          BY <1>3, <1>4, <3>1, <4>1 DEF HasRoom
      <3>2. CASE \E j \in DOMAIN new : stream'[i] = new[j]
        <4>1. /\ stream'[i].shape = shape /\ stream'[i].ws = Len(ws')
              /\ stream'[i].cnt = Len(cnt')
          BY <1>9, <3>2
        <4> QED
          BY <1>3, <1>4, <4>1 DEF HasRoom, Size
      <3> QED
        BY <1>10, <3>1, <3>2
    <2> QED
      BY <1>10, <2>1 DEF StreamInv
  <1>12. Running => stream # <<>> /\ L' = L
    BY <1>10 DEF Inv, ProgInv, L
  <1>13. ProgInv'
    BY <1>1, <1>10, <1>12 DEF Inv, ProgInv, Running
  <1>14. WsInv'
    <2> SUFFICES ASSUME NEW i \in DOMAIN ws', NEW j \in DOMAIN ws'[i], ws'[i][j] # {}
                 PROVE  /\ Running /\ L.cfg.sk > 1 /\ i = L.ws
                        /\ \E p \in Grid(L) : \E e \in TileElements(L, p) :
                                WsIndex(L, e) = j /\ Owes(p, e)
      BY <1>1, <1>12 DEF WsInv, Running, Owes
    <2>1. i \in DOMAIN ws /\ ws'[i] = ws[i]
      BY <1>3
    <2> QED
      BY <2>1 DEF Inv, WsInv
  <1>15. CntInv'
    <2> SUFFICES ASSUME NEW i \in DOMAIN cnt', NEW t \in DOMAIN cnt'[i], cnt'[i][t] # 0
                 PROVE  /\ Running /\ L.cfg.sk > 1 /\ i = L.cnt
                        /\ \E p \in Grid(L) : tile(L, p) = t
      BY <1>1, <1>12 DEF CntInv, Running
    <2>1. i \in DOMAIN cnt /\ cnt'[i] = cnt[i]
      BY <1>4
    <2> QED
      BY <2>1 DEF Inv, CntInv
  <1>16. TileInv'
    <2> SUFFICES ASSUME Running, L.cfg.sk > 1 PROVE TileInv'
      BY <1>1, <1>12 DEF TileInv, Running
    <2>1. L' = L /\ prog' = prog /\ cnt'[L.cnt] = cnt[L.cnt]
      BY <1>1, <1>4, <1>12, Current DEF Inv, HasRoom
    <2> QED
      BY <2>1 DEF Inv, TileInv, ArrivedAt, Running
  <1> QED
    BY <1>8, <1>11, <1>13, <1>14, <1>15, <1>16 DEF Inv

-----------------------------------------------------------------------------
(***************************************************************************)
(* The theorems.                                                           *)
(***************************************************************************)

LEMMA Initially == Init => Inv
  <1> SUFFICES ASSUME Init PROVE Inv
    OBVIOUS
  <1>1. HostInv
    BY DEF Init, HostInv
  <1>2. StreamInv
    BY DEF Init, StreamInv
  <1>3. ~Running /\ DOMAIN ws = {} /\ DOMAIN cnt = {}
    BY DEF Init, Running
  <1> QED
    BY <1>1, <1>2, <1>3 DEF Inv, ProgInv, WsInv, CntInv, TileInv

LEMMA StepKeeps == Inv /\ [Next]_vars => Inv'
  <1> SUFFICES ASSUME Inv, [Next]_vars PROVE Inv'
    OBVIOUS
  <1>1. CASE Forward
    BY <1>1, ForwardKeeps DEF Forward
  <1>2. CASE StartLaunch
    BY <1>2, StartKeeps
  <1>3. CASE \E p \in DOMAIN prog : Step(p)
    <2>1. PICK p \in DOMAIN prog : Step(p)
      BY <1>3
    <2>2. Running
      BY <2>1 DEF Running
    <2>3. p \in Grid(L)
      BY <2>1, <2>2, Current DEF Inv
    <2> QED
      BY <2>1, <2>2, <2>3, StoreKeeps, AddKeeps, ArriveKeeps, TotalKeeps, ResetKeeps DEF Step
  <1>4. CASE EndLaunch
    BY <1>4, EndKeeps
  <1>5. CASE UNCHANGED vars
    <2>1. /\ launched' = launched /\ calls' = calls /\ tuned' = tuned
          /\ _launch_cache' = _launch_cache /\ stream' = stream /\ prog' = prog
          /\ ws' = ws /\ cnt' = cnt /\ Running' = Running /\ L' = L
      BY <1>5 DEF vars, Running, L
    <2>2. HostInv' /\ StreamInv'
      BY <2>1 DEF Inv, HostInv, StreamInv, HasRoom
    <2>3. ProgInv' /\ WsInv' /\ CntInv'
      BY <2>1 DEF Inv, ProgInv, WsInv, CntInv, Owes
    <2>4. TileInv'
      BY <2>1 DEF Inv, TileInv, ArrivedAt
    <2> QED
      BY <2>2, <2>3, <2>4 DEF Inv
  <1> QED
    BY <1>1, <1>2, <1>3, <1>4, <1>5 DEF Next, Gpu

LEMMA Invariance == Spec => []Inv
  BY Initially, StepKeeps, PTL DEF Spec

\* Between two launches every workspace and every counter is zero: the last
\* program of each tile clears what its tile has added, and no other program
\* adds to it afterwards.
THEOREM ScratchLeftClean == Spec => []ScratchClean
  <1>1. Inv => ScratchClean
    BY DEF Inv, WsInv, CntInv, ScratchClean
  <1> QED
    BY Invariance, <1>1, PTL

\* The scratch memory is large enough for every configuration that can be
\* launched for the shape, also after the buffers were replaced.
THEOREM NoOverrun == Spec => []InBounds
  <1>1. Inv => InBounds
    <2> SUFFICES ASSUME Inv, NEW i \in DOMAIN stream, NEW p \in Grid(stream[i])
                 PROVE  /\ tile(stream[i], p) \in DOMAIN cnt[stream[i].cnt]
                        /\ \A e \in TileElements(stream[i], p) :
                               WsIndex(stream[i], e) \in DOMAIN ws[stream[i].ws]
      BY DEF InBounds
    <2>1. stream[i] \in Launches /\ HasRoom(stream[i])
      BY DEF Inv, StreamInv
    <2> QED
      BY <2>1, RoomIsEnough DEF Inv
  <1> QED
    BY Invariance, <1>1, PTL

-----------------------------------------------------------------------------
(***************************************************************************)
(* The refinement invariant, beside Inv.                                   *)
(***************************************************************************)

Outputs == UNION {[Elements(s) -> SUBSET Terms] : s \in Shapes}

\* The product of call c, summed up by launch id.
Answer(c, id) == {<<id, k>> : k \in 0 .. calls[c].k - 1}

OutputInv ==
    /\ Y \in Seq(Outputs) /\ Len(Y) = Len(calls)
    /\ \A c \in DOMAIN calls : DOMAIN Y[c] = Elements(calls[c])
    /\ \A c \in DOMAIN calls : \A e \in Elements(calls[c]) :
        Y[c][e] = Undefined \/ \E id \in 1 .. launched : Y[c][e] = Answer(c, id)

\* Launches are queued in the order of their calls.
OrderInv ==
    /\ \A i \in DOMAIN stream :
        /\ stream[i].call \in DOMAIN calls /\ calls[stream[i].call] = stream[i].shape
        /\ stream[i].id \in 1 .. launched
    /\ \A i, j \in DOMAIN stream : i <= j => stream[i].call <= stream[j].call

\* The program p of the running launch will see to it that e is stored.
WillStore(p, e) == IF L.cfg.sk = 1 THEN e \in prog[p].left ELSE Owes(p, e)

\* An output that is not complete has a launch to come, and each element that is
\* not stored when the launch runs has a program to do it.
PendingInv ==
    /\ \A c \in DOMAIN calls : \A e \in Elements(calls[c]) :
        Y[c][e] = Undefined => \E i \in DOMAIN stream : stream[i].call = c
    /\ Running => \A e \in Elements(L.shape) : Y[L.call][e] = Undefined =>
        \E p \in Grid(L) : e \in TileElements(L, p) /\ WillStore(p, e)

Finishes(p) == prog[p].pc \in {"finish", "reset"}

\* A tile has one finisher, without a split none.
FinisherInv ==
    Running =>
        /\ L.cfg.sk = 1 => \A p \in Grid(L) : prog[p].pc = "add"
        /\ \A p, q \in Grid(L) : q \in Tile(L, p) /\ Finishes(p) /\ Finishes(q) => p = q

\* The programs of the tile of p that have added their share to e.
Added(p, e) == {q \in Tile(L, p) : prog[q].pc # "add" \/ e \notin prog[q].left}

\* Their sum, and what the workspace holds.
Total(p, e) == UNION {acc(L, q) : q \in Added(p, e)}

Sum(e) == ws[L.ws][WsIndex(L, e)]

\* The finisher has stored e and cleared it.
CarriedOver(p, e) == \E q \in Tile(L, p) : Finishes(q) /\ e \notin prog[q].left

\* An element of the workspace is the sum of what was added, each share once,
\* until the finisher has stored it.
SumInv ==
    Running /\ L.cfg.sk > 1 => \A p \in Grid(L) : \A e \in TileElements(L, p) :
        Sum(e) = IF CarriedOver(p, e) THEN {} ELSE Total(p, e)

RefInv == OutputInv /\ OrderInv /\ PendingInv /\ FinisherInv /\ SumInv

-----------------------------------------------------------------------------
(***************************************************************************)
(* Blocks.                                                                 *)
(***************************************************************************)

\* Blocks of size b that cover n * b numbers: one of them has x.
LEMMA BlockOf ==
    ASSUME NEW x \in Nat, NEW b \in Positive, NEW n \in Nat, x < n * b
    PROVE  x \div b \in 0 .. n - 1 /\ x \in (x \div b) * b .. (x \div b) * b + b - 1
  <1> DEFINE i == x \div b
  <1>1. b \in Nat /\ b > 0
    BY DEF Positive
  <1>2. i \in Nat /\ i * b <= x /\ x < i * b + b
    BY <1>1
  <1> HIDE DEF i
  <1>3. i * b < n * b
    BY <1>1, <1>2
  <1>4. i < n
    BY <1>1, <1>2, <1>3
  <1> QED
    BY <1>1, <1>2, <1>4 DEF i

\* No other has.
LEMMA BlocksApart ==
    ASSUME NEW x \in Nat, NEW b \in Positive, NEW i \in Nat, NEW j \in Nat,
           x \in i * b .. i * b + b - 1, x \in j * b .. j * b + b - 1
    PROVE  i = j
  <1>1. b \in Nat /\ b > 0
    BY DEF Positive
  <1>2. (i + 1) * b > j * b /\ (j + 1) * b > i * b
    BY <1>1
  <1>3. i + 1 > j /\ j + 1 > i
    BY <1>1, <1>2
  <1> QED
    BY <1>3

\* The numbers of a launch.
LEMMA Numbers ==
    ASSUME NEW l \in Launches
    PROVE  /\ l.shape.m \in Positive /\ l.shape.n \in Positive /\ l.shape.k \in Positive
           /\ l.cfg.bm \in Positive /\ l.cfg.bn \in Positive /\ l.cfg.bk \in Positive
           /\ l.cfg.sk \in Positive /\ l.id \in Nat
           /\ l.shape.m \in Nat /\ l.shape.n \in Nat /\ l.shape.k \in Nat
  BY SplitKAssumption DEF Launches, ConfigType, Positive

\* A chunk of K is so long that SPLIT_K of them cover K.
LEMMA ChunksCover ==
    ASSUME NEW l \in Launches
    PROVE  k_chunk(l) \in Positive /\ l.cfg.sk * k_chunk(l) >= l.shape.k
  <1> DEFINE K == l.shape.k
             sk == l.cfg.sk
             bk == l.cfg.bk
             a == cdiv(K, sk)
             b == cdiv(a, bk)
  <1>1. /\ K \in Nat /\ K > 0 /\ sk \in Positive /\ sk \in Nat /\ sk > 0
        /\ bk \in Positive /\ bk \in Nat /\ bk > 0
    BY Numbers DEF Positive
  <1>2. k_chunk(l) = b * bk
    BY DEF k_chunk
  <1> HIDE DEF K, sk, bk
  <1>3. a \in Nat /\ a * sk >= K /\ a > 0
    BY <1>1, CdivCovers
  <1> HIDE DEF a
  <1>4. b \in Nat /\ b * bk >= a
    BY <1>1, <1>3, CdivCovers
  <1> HIDE DEF b
  <1> DEFINE c == b * bk
  <1>5. c \in Nat /\ c >= a
    BY <1>1, <1>4
  <1>6. sk * c >= K
    <2> HIDE DEF c
    <2>1. sk * c >= sk * a
      BY <1>1, <1>3, <1>5
    <2>2. sk * a = a * sk
      BY <1>1, <1>3
    <2>3. sk * c \in Int /\ sk * a \in Int
      BY <1>1, <1>3, <1>5
    <2> QED
      BY <1>1, <1>3, <2>1, <2>2, <2>3
  <1>7. c \in Positive
    BY <1>3, <1>5 DEF Positive
  <1> QED
    BY <1>2, <1>6, <1>7 DEF K, sk

\* Every column of K is in one slice.
LEMMA SlicesCover ==
    ASSUME NEW l \in Launches, NEW k \in 0 .. l.shape.k - 1
    PROVE  \E s \in 0 .. l.cfg.sk - 1 : k \in Slice(l, s)
  <1> DEFINE c == k_chunk(l)
             sk == l.cfg.sk
  <1>1. c \in Positive /\ sk * c >= l.shape.k /\ l.shape.k \in Nat /\ sk \in Nat /\ c \in Nat
    BY ChunksCover, Numbers DEF Positive
  <1>2. k \in Nat /\ k < sk * c
    <2> HIDE DEF c, sk
    <2>1. sk * c \in Int
      BY <1>1
    <2> QED
      BY <1>1, <2>1
  <1>3. k \div c \in 0 .. sk - 1 /\ k \in (k \div c) * c .. (k \div c) * c + c - 1
    <2> HIDE DEF c, sk
    <2> QED
      BY <1>1, <1>2, BlockOf
  <1>4. k \in Slice(l, k \div c)
    BY <1>3 DEF Slice
  <1> QED
    BY <1>3, <1>4

LEMMA SlicesApart ==
    ASSUME NEW l \in Launches, NEW s \in Nat, NEW t \in Nat,
           NEW k \in Slice(l, s), k \in Slice(l, t)
    PROVE  s = t
  <1> DEFINE c == k_chunk(l)
  <1>1. c \in Positive
    BY ChunksCover
  <1>2. k \in Nat /\ k \in s * c .. s * c + c - 1 /\ k \in t * c .. t * c + c - 1
    BY Numbers DEF Slice
  <1> HIDE DEF c
  <1> QED
    BY <1>1, <1>2, BlocksApart

\* The elements of Y.
LEMMA ElementOf ==
    ASSUME NEW l \in Launches, NEW e \in Elements(l.shape)
    PROVE  /\ e = <<e[1], e[2]>> /\ e[1] \in Nat /\ e[2] \in Nat
           /\ e[1] \in 0 .. l.shape.m - 1 /\ e[2] \in 0 .. l.shape.n - 1
  BY Numbers DEF Elements

\* Every element of Y is in the tile of some program.
LEMMA TilesCover ==
    ASSUME NEW l \in Launches, NEW e \in Elements(l.shape)
    PROVE  \E p \in Grid(l) : e \in TileElements(l, p)
  <1> DEFINE bm == l.cfg.bm
             bn == l.cfg.bn
             p == [n |-> e[2] \div bn, s |-> 0, m |-> e[1] \div bm]
  <1>1. /\ e[1] \in Nat /\ e[2] \in Nat /\ bm \in Positive /\ bn \in Positive
        /\ e[1] \in 0 .. l.shape.m - 1 /\ e[2] \in 0 .. l.shape.n - 1
        /\ l.shape.m \in Nat /\ l.shape.n \in Nat
    BY ElementOf, Numbers
  <1>2. /\ TilesM(l) \in Nat /\ TilesM(l) * bm >= l.shape.m
        /\ TilesN(l) \in Nat /\ TilesN(l) * bn >= l.shape.n
    BY <1>1, CdivCovers DEF TilesM, TilesN
  <1>3. e[1] < TilesM(l) * bm /\ e[2] < TilesN(l) * bn
    <2>1. TilesM(l) * bm \in Int /\ TilesN(l) * bn \in Int
      BY <1>1, <1>2 DEF Positive
    <2> HIDE DEF bm, bn
    <2> QED
      BY <1>1, <1>2, <2>1
  <1> HIDE DEF bm, bn
  <1>4. /\ e[1] \div bm \in 0 .. TilesM(l) - 1
        /\ e[1] \in (e[1] \div bm) * bm .. (e[1] \div bm) * bm + bm - 1
    BY <1>1, <1>2, <1>3, BlockOf
  <1>5. /\ e[2] \div bn \in 0 .. TilesN(l) - 1
        /\ e[2] \in (e[2] \div bn) * bn .. (e[2] \div bn) * bn + bn - 1
    BY <1>1, <1>2, <1>3, BlockOf
  <1>6. 0 \in 0 .. l.cfg.sk - 1
    BY Numbers DEF Positive
  <1>7. p \in Grid(l)
    BY <1>4, <1>5, <1>6 DEF Grid
  <1>8. e \in TileElements(l, p)
    BY <1>4, <1>5 DEF TileElements, bm, bn
  <1> QED
    BY <1>7, <1>8

\* Programs that share an element are of one tile.
LEMMA SharedElement ==
    ASSUME NEW l \in Launches, NEW p \in Grid(l), NEW q \in Grid(l),
           NEW e \in TileElements(l, p), e \in TileElements(l, q)
    PROVE  q \in Tile(l, p) /\ Tile(l, q) = Tile(l, p)
  <1>1. /\ p.m \in Nat /\ q.m \in Nat /\ p.n \in Nat /\ q.n \in Nat
        /\ l.cfg.bm \in Positive /\ l.cfg.bn \in Positive
    <2>1. TilesM(l) \in Nat /\ TilesN(l) \in Nat
      BY Numbers, CdivCovers DEF TilesM, TilesN
    <2> QED
      BY <2>1, Numbers DEF Grid
  <1>2. e \in Elements(l.shape)
    BY DEF TileElements
  <1>3. e[1] \in Nat /\ e[2] \in Nat
    BY <1>2, ElementOf
  <1>4. p.m = q.m
    <2>1. /\ e[1] \in p.m * l.cfg.bm .. p.m * l.cfg.bm + l.cfg.bm - 1
          /\ e[1] \in q.m * l.cfg.bm .. q.m * l.cfg.bm + l.cfg.bm - 1
      BY DEF TileElements
    <2> QED
      BY <1>1, <1>3, <2>1, BlocksApart
  <1>5. p.n = q.n
    <2>1. /\ e[2] \in p.n * l.cfg.bn .. p.n * l.cfg.bn + l.cfg.bn - 1
          /\ e[2] \in q.n * l.cfg.bn .. q.n * l.cfg.bn + l.cfg.bn - 1
      BY DEF TileElements
    <2> QED
      BY <1>1, <1>3, <2>1, BlocksApart
  <1> QED
    BY <1>4, <1>5 DEF Tile

LEMMA SameTile ==
    ASSUME NEW l \in Launches, NEW p \in Grid(l), NEW q \in Tile(l, p)
    PROVE  /\ q \in Grid(l) /\ Tile(l, q) = Tile(l, p)
           /\ TileElements(l, q) = TileElements(l, p) /\ p \in Tile(l, q)
           /\ q.s = p.s => q = p
  <1>1. q \in Grid(l) /\ q.m = p.m /\ q.n = p.n
    BY DEF Tile
  <1>2. q.s = p.s => q = p
    BY <1>1 DEF Grid
  <1> QED
    BY <1>1, <1>2 DEF Tile, TileElements

LEMMA WsIndexOnce ==
    ASSUME NEW l \in Launches, NEW e \in Elements(l.shape), NEW f \in Elements(l.shape),
           WsIndex(l, e) = WsIndex(l, f)
    PROVE  e = f
  <1>1. /\ e = <<e[1], e[2]>> /\ e[1] \in Nat /\ e[2] \in 0 .. l.shape.n - 1
        /\ f = <<f[1], f[2]>> /\ f[1] \in Nat /\ f[2] \in 0 .. l.shape.n - 1
        /\ l.shape.n \in Nat
    BY ElementOf, Numbers
  <1>2. e[1] * l.shape.n + e[2] = f[1] * l.shape.n + f[2]
    BY DEF WsIndex
  <1>3. e[1] = f[1] /\ e[2] = f[2]
    <2>1. \A a, c \in Nat : \A b, d \in 0 .. l.shape.n - 1 :
            a * l.shape.n + b = c * l.shape.n + d => a = c /\ b = d
      BY <1>1, RowMajorOnce
    <2> QED
      BY <1>1, <1>2, <2>1
  <1> QED
    BY <1>1, <1>3

\* The shares of different programs of a tile have no term in common.
LEMMA SharesApart ==
    ASSUME NEW l \in Launches, NEW p \in Grid(l), NEW q \in Tile(l, p), q # p
    PROVE  acc(l, p) \cap acc(l, q) = {}
  <1>1. p.s \in Nat /\ q.s \in Nat /\ p.s # q.s
    BY SameTile, Numbers DEF Grid, Positive
  <1>2. ASSUME NEW x \in acc(l, p), x \in acc(l, q) PROVE FALSE
    <2>1. PICK k \in Slice(l, p.s) : x = <<l.id, k>>
      BY DEF acc
    <2>2. PICK h \in Slice(l, q.s) : x = <<l.id, h>>
      BY <1>2 DEF acc
    <2>3. k = h
      BY <2>1, <2>2
    <2> QED
      BY <1>1, <2>3, SlicesApart
  <1> QED
    BY <1>2

\* Together they are the whole product.
LEMMA SharesAreWhole ==
    ASSUME NEW l \in Launches, NEW p \in Grid(l)
    PROVE  UNION {acc(l, q) : q \in Tile(l, p)} = Whole(l)
  <1>1. ASSUME NEW q \in Tile(l, p) PROVE acc(l, q) \subseteq Whole(l)
    BY DEF acc, Whole, Slice
  <1>2. ASSUME NEW x \in Whole(l) PROVE \E q \in Tile(l, p) : x \in acc(l, q)
    <2>1. PICK k \in 0 .. l.shape.k - 1 : x = <<l.id, k>>
      BY DEF Whole
    <2>2. PICK s \in 0 .. l.cfg.sk - 1 : k \in Slice(l, s)
      BY SlicesCover
    <2> DEFINE q == [n |-> p.n, s |-> s, m |-> p.m]
    <2>3. q \in Tile(l, p) /\ q.s = s
      BY DEF Tile, Grid
    <2>4. x \in acc(l, q)
      BY <2>1, <2>2, <2>3 DEF acc
    <2> QED
      BY <2>3, <2>4
  <1> QED
    BY <1>1, <1>2

LEMMA UnsplitIsWhole ==
    ASSUME NEW l \in Launches, l.cfg.sk = 1, NEW p \in Grid(l)
    PROVE  acc(l, p) = Whole(l)
  <1>1. Tile(l, p) = {p}
    <2>1. p.s = 0 /\ \A q \in Tile(l, p) : q.s = 0
      BY DEF Tile, Grid
    <2> QED
      BY <2>1, SameTile, TileHasSlices
  <1> QED
    BY <1>1, SharesAreWhole

-----------------------------------------------------------------------------
(***************************************************************************)
(* Outputs.                                                                *)
(***************************************************************************)

LEMMA AnswerIsDefined ==
    ASSUME NEW c, NEW id \in Positive
    PROVE  Answer(c, id) # Undefined
  <1> SUFFICES ASSUME Answer(c, id) = Undefined PROVE FALSE
    OBVIOUS
  <1>1. <<0, 0>> \in Answer(c, id)
    BY DEF Undefined
  <1>2. PICK k \in 0 .. calls[c].k - 1 : <<0, 0>> = <<id, k>>
    BY <1>1 DEF Answer
  <1> QED
    BY <1>2 DEF Positive

\* The call and the answer of the running launch.
LEMMA RunningCall ==
    ASSUME Inv, RefInv, Running
    PROVE  /\ L.call \in DOMAIN calls /\ calls[L.call] = L.shape
           /\ L.id \in 1 .. launched /\ L.id \in Positive
           /\ Whole(L) = Answer(L.call, L.id)
           /\ \A i \in DOMAIN stream : L.call <= stream[i].call
  <1>1. 1 \in DOMAIN stream /\ L = stream[1] /\ \A i \in DOMAIN stream : 1 <= i
    BY DEF Inv, StreamInv, ProgInv, L
  <1>2. /\ L.call \in DOMAIN calls /\ calls[L.call] = L.shape /\ L.id \in 1 .. launched
        /\ \A i \in DOMAIN stream : L.call <= stream[i].call
    BY <1>1 DEF RefInv, OrderInv
  <1>3. L.id \in Positive
    BY <1>2 DEF Positive, Inv, HostInv
  <1> QED
    BY <1>2, <1>3 DEF Whole, Answer

\* An element is given the whole product.
LEMMA Stored ==
    ASSUME Inv, RefInv, NEW c \in DOMAIN calls, NEW e \in Elements(calls[c]),
           NEW id \in 1 .. launched,
           Y' = [Y EXCEPT ![c][e] = Answer(c, id)], calls' = calls, launched' = launched
    PROVE  /\ OutputInv'
           /\ \A d \in DOMAIN calls : \A f \in Elements(calls[d]) :
                Y'[d][f] = IF d = c /\ f = e THEN Answer(c, id) ELSE Y[d][f]
  <1> DEFINE v == Answer(c, id)
             y == [Y[c] EXCEPT ![e] = v]
  <1>1. /\ Y \in Seq(Outputs) /\ Len(Y) = Len(calls) /\ calls \in Seq(Shapes)
        /\ DOMAIN Y = DOMAIN calls /\ DOMAIN calls = 1 .. Len(calls)
        /\ \A d \in DOMAIN calls : DOMAIN Y[d] = Elements(calls[d])
    BY DEF Inv, HostInv, RefInv, OutputInv
  <1>2. v \in SUBSET Terms
    <2>1. id \in Nat
      OBVIOUS
    <2>2. \A k \in 0 .. calls[c].k - 1 : k \in Nat
      OBVIOUS
    <2> QED
      BY <2>1, <2>2 DEF Answer, Terms
  <1> HIDE DEF v
  <1>3. PICK s \in Shapes : Y[c] \in [Elements(s) -> SUBSET Terms]
    BY <1>1 DEF Outputs
  <1>4. y \in Outputs /\ DOMAIN y = DOMAIN Y[c]
    BY <1>2, <1>3 DEF Outputs
  <1>5. \A f \in Elements(calls[c]) : y[f] = IF f = e THEN v ELSE Y[c][f]
    BY <1>1
  <1> HIDE DEF y
  <1>6. Y' = [Y EXCEPT ![c] = y]
    BY DEF y, v
  <1>7. Y' \in Seq(Outputs) /\ Len(Y') = Len(calls)
    <2>1. c \in 1 .. Len(Y)
      BY <1>1
    <2>2. [Y EXCEPT ![c] = y] \in Seq(Outputs) /\ Len([Y EXCEPT ![c] = y]) = Len(Y)
      BY <1>1, <1>4, <2>1, ExceptSeq
    <2> QED
      BY <1>1, <1>6, <2>2
  <1>8. \A d \in DOMAIN calls : Y'[d] = IF d = c THEN y ELSE Y[d]
    BY <1>1, <1>6
  <1>9. \A d \in DOMAIN calls : \A f \in Elements(calls[d]) :
            Y'[d][f] = IF d = c /\ f = e THEN v ELSE Y[d][f]
    <2> SUFFICES ASSUME NEW d \in DOMAIN calls, NEW f \in Elements(calls[d])
                 PROVE  Y'[d][f] = IF d = c /\ f = e THEN v ELSE Y[d][f]
      OBVIOUS
    <2>1. CASE d = c
      BY <1>5, <1>8, <2>1
    <2>2. CASE d # c
      BY <1>8, <2>2
    <2> QED
      BY <2>1, <2>2
  <1>10. \A d \in DOMAIN calls : DOMAIN Y'[d] = Elements(calls[d])
    BY <1>1, <1>4, <1>8
  <1>11. \A d \in DOMAIN calls : \A f \in Elements(calls[d]) :
            Y'[d][f] = Undefined \/ \E i \in 1 .. launched : Y'[d][f] = Answer(d, i)
    BY <1>9 DEF RefInv, OutputInv, v
  <1>12. \A d, i : Answer(d, i)' = Answer(d, i)
    BY DEF Answer
  <1>13. OutputInv'
    BY <1>7, <1>10, <1>11, <1>12 DEF OutputInv
  <1> QED
    BY <1>9, <1>13 DEF v

-----------------------------------------------------------------------------
(***************************************************************************)
(* The steps of the GPU.                                                   *)
(***************************************************************************)

LEMMA StartRefines == ASSUME Inv, RefInv, StartLaunch PROVE RefInv'
  <1> USE DEF StartLaunch, hostVars
  <1>1. L \in Launches /\ L' = L
    <2>1. 1 \in DOMAIN stream /\ L = stream[1]
      BY DEF Inv, StreamInv, L
    <2> QED
      BY <2>1 DEF Inv, StreamInv, L
  <1>2. /\ DOMAIN prog' = Grid(L)
        /\ \A p \in Grid(L) : prog'[p].pc = "add" /\ prog'[p].left = TileElements(L, p)
    OBVIOUS
  <1>3. OutputInv' /\ OrderInv'
    <2>1. \A c, id : Answer(c, id)' = Answer(c, id)
      BY DEF Answer
    <2> QED
      BY <2>1 DEF RefInv, OutputInv, OrderInv
  <1>4. PendingInv'
    <2>1. ASSUME NEW e \in Elements(L.shape)
          PROVE  \E p \in Grid(L) : e \in TileElements(L, p) /\ WillStore(p, e)'
      <3>1. PICK p \in Grid(L) : e \in TileElements(L, p)
        BY <1>1, TilesCover
      <3>2. WillStore(p, e)'
        BY <1>1, <1>2, <3>1 DEF WillStore, Owes
      <3> QED
        BY <3>1, <3>2
    <2> QED
      BY <1>1, <2>1 DEF RefInv, PendingInv
  <1>5. FinisherInv'
    BY <1>1, <1>2 DEF FinisherInv, Finishes
  <1>6. SumInv'
    <2> SUFFICES ASSUME L.cfg.sk > 1, NEW p \in Grid(L), NEW e \in TileElements(L, p)
                 PROVE  Sum(e)' = {} /\ ~CarriedOver(p, e)' /\ Total(p, e)' = {}
      BY <1>1 DEF SumInv
    <2>1. \A q \in Tile(L, p) : q \in Grid(L) /\ e \in TileElements(L, q)
      BY <1>1, SameTile
    <2>2. ~CarriedOver(p, e)' /\ Added(p, e)' = {}
      BY <1>1, <1>2, <2>1 DEF CarriedOver, Added, Finishes
    <2>3. HasRoom(L)
      <3>1. 1 \in DOMAIN stream /\ L = stream[1]
        BY DEF Inv, StreamInv, L
      <3> QED
        BY <3>1 DEF Inv, StreamInv
    <2>4. L.ws \in DOMAIN ws /\ WsIndex(L, e) \in DOMAIN ws[L.ws]
      BY <1>1, <2>3, RoomIsEnough DEF Inv, HasRoom
    <2>5. Sum(e)' = {}
      BY <1>1, <2>4 DEF Inv, WsInv, Sum
    <2>6. Total(p, e)' = {}
      BY <2>2 DEF Total
    <2> QED
      BY <2>2, <2>5, <2>6
  <1> QED
    BY <1>3, <1>4, <1>5, <1>6 DEF RefInv

\* At most one element of Y is defined by a step, one of the running call.
StoresOne ==
    \E e \in Elements(L.shape) : \A c \in DOMAIN calls : \A f \in Elements(calls[c]) :
        Y'[c][f] = Undefined <=> Y[c][f] = Undefined /\ (c = L.call => f # e)

\* Without a split a program stores the whole product.
LEMMA StoreRefines == ASSUME Inv, RefInv, Running, NEW p \in Grid(L), Store(p)
    PROVE  RefInv' /\ StoresOne
  <1>1. PICK e \in prog[p].left :
            /\ prog' = [prog EXCEPT ![p].left = @ \ {e}]
            /\ Y' = [Y EXCEPT ![L.call][e] = acc(L, p)]
    BY DEF Store
  <1>2. /\ L \in Launches /\ prog \in Programs(L) /\ DOMAIN prog = Grid(L)
        /\ \A q \in Grid(L) : prog[q].left \subseteq TileElements(L, q)
    BY Current DEF Inv
  <1>3. /\ calls' = calls /\ launched' = launched /\ stream' = stream /\ L' = L
        /\ L.cfg.sk = 1
    BY DEF Store, hostVars, L
  <1>4. /\ L.call \in DOMAIN calls /\ calls[L.call] = L.shape
        /\ L.id \in 1 .. launched /\ L.id \in Positive
        /\ Whole(L) = Answer(L.call, L.id)
    BY RunningCall
  <1>5. e \in Elements(L.shape)
    BY <1>2 DEF TileElements
  <1>6. acc(L, p) = Answer(L.call, L.id) /\ Answer(L.call, L.id) # Undefined
    BY <1>2, <1>3, <1>4, UnsplitIsWhole, AnswerIsDefined
  <1>7. /\ OutputInv'
        /\ \A d \in DOMAIN calls : \A f \in Elements(calls[d]) :
             Y'[d][f] = IF d = L.call /\ f = e THEN Answer(L.call, L.id) ELSE Y[d][f]
    <2>1. Y' = [Y EXCEPT ![L.call][e] = Answer(L.call, L.id)] /\ e \in Elements(calls[L.call])
      BY <1>1, <1>4, <1>5, <1>6
    <2> QED
      BY <1>3, <1>4, <2>1, Stored
  <1>8. OrderInv'
    BY <1>3 DEF RefInv, OrderInv
  <1>9. /\ DOMAIN prog' = Grid(L) /\ Running'
        /\ \A q \in Grid(L) : prog'[q].left = prog[q].left \ (IF q = p THEN {e} ELSE {})
        /\ \A q \in Grid(L) : prog'[q].pc = prog[q].pc
    <2>1. /\ DOMAIN prog' = Grid(L)
          /\ \A q \in Grid(L) : prog'[q].left = prog[q].left \ (IF q = p THEN {e} ELSE {})
          /\ \A q \in Grid(L) : prog'[q].pc = prog[q].pc
      BY <1>1, <1>2 DEF Programs
    <2> QED
      BY <2>1 DEF Running
  <1>10. PendingInv'
    <2>1. \A c \in DOMAIN calls : \A f \in Elements(calls[c]) :
            Y'[c][f] = Undefined => Y[c][f] = Undefined /\ (c = L.call => f # e)
      BY <1>6, <1>7
    <2>2. ASSUME NEW f \in Elements(L.shape), Y'[L.call][f] = Undefined
          PROVE  \E q \in Grid(L) : f \in TileElements(L, q) /\ WillStore(q, f)'
      <3>1. Y[L.call][f] = Undefined /\ f # e
        BY <1>4, <2>1, <2>2
      <3>2. PICK q \in Grid(L) : f \in TileElements(L, q) /\ WillStore(q, f)
        BY <3>1 DEF RefInv, PendingInv
      <3>3. WillStore(q, f)'
        BY <1>3, <1>9, <3>1, <3>2 DEF WillStore
      <3> QED
        BY <3>2, <3>3
    <2> QED
      BY <1>3, <2>1, <2>2 DEF RefInv, PendingInv
  <1>11. FinisherInv'
    BY <1>3, <1>9 DEF RefInv, FinisherInv, Finishes
  <1>12. SumInv'
    BY <1>3 DEF SumInv
  <1>13. StoresOne
    BY <1>5, <1>6, <1>7 DEF StoresOne
  <1> QED
    BY <1>7, <1>8, <1>10, <1>11, <1>12, <1>13 DEF RefInv
\* Only Store and StoreTotal write Y.
LEMMA OutputKept ==
    ASSUME RefInv, Y' = Y, calls' = calls, launched' = launched, stream' = stream
    PROVE  OutputInv' /\ OrderInv'
  <1>1. \A c, id : Answer(c, id)' = Answer(c, id)
    BY DEF Answer
  <1> QED
    BY <1>1 DEF RefInv, OutputInv, OrderInv

\* An addition adds a share to the sum that is not in it yet.
LEMMA AddRefines == ASSUME Inv, RefInv, Running, NEW p \in Grid(L), AddPartial(p) PROVE RefInv'
  <1>1. PICK e \in prog[p].left :
            /\ prog' = [prog EXCEPT ![p].left = @ \ {e}]
            /\ ws' = [ws EXCEPT ![L.ws][WsIndex(L, e)] = Plus(@, acc(L, p))]
    BY DEF AddPartial
  <1>2. /\ L \in Launches /\ HasRoom(L) /\ prog \in Programs(L) /\ DOMAIN prog = Grid(L)
        /\ \A q \in Grid(L) : prog[q].left \subseteq TileElements(L, q)
    BY Current DEF Inv
  <1>3. /\ calls' = calls /\ launched' = launched /\ stream' = stream /\ Y' = Y /\ L' = L
        /\ L.cfg.sk > 1 /\ L.cfg.sk # 1 /\ prog[p].pc = "add"
    BY <1>2, Numbers DEF AddPartial, hostVars, L, Positive
  <1>4. \A q \in Grid(L) : \A f \in TileElements(L, q) :
            f \in Elements(L.shape) /\ WsIndex(L, f) \in DOMAIN ws[L.ws]
    BY <1>2, RoomIsEnough DEF Inv, TileElements
  <1>5. e \in TileElements(L, p)
    BY <1>2
  <1>6. \A f \in Elements(L.shape) : WsIndex(L, f) \in DOMAIN ws[L.ws] =>
            Sum(f)' = IF f = e THEN Plus(Sum(e), acc(L, p)) ELSE Sum(f)
    <2>1. L.ws \in DOMAIN ws
      BY <1>2 DEF HasRoom
    <2>2. ASSUME NEW f \in Elements(L.shape), WsIndex(L, f) \in DOMAIN ws[L.ws]
          PROVE  Sum(f)' = IF f = e THEN Plus(Sum(e), acc(L, p)) ELSE Sum(f)
      <3>1. CASE f = e
        BY <1>1, <1>3, <2>1, <2>2, <3>1 DEF Sum
      <3>2. CASE f # e
        <4>1. WsIndex(L, f) # WsIndex(L, e)
          BY <1>2, <1>4, <1>5, <3>2, WsIndexOnce
        <4> QED
          BY <1>1, <1>3, <2>1, <2>2, <3>2, <4>1 DEF Sum
      <3> QED
        BY <3>1, <3>2
    <2> QED
      BY <2>2
  <1>7. /\ DOMAIN prog' = Grid(L) /\ Running'
        /\ \A q \in Grid(L) : prog'[q].left = prog[q].left \ (IF q = p THEN {e} ELSE {})
        /\ \A q \in Grid(L) : prog'[q].pc = prog[q].pc
    <2>1. /\ DOMAIN prog' = Grid(L)
          /\ \A q \in Grid(L) : prog'[q].left = prog[q].left \ (IF q = p THEN {e} ELSE {})
          /\ \A q \in Grid(L) : prog'[q].pc = prog[q].pc
      BY <1>1, <1>2 DEF Programs
    <2> QED
      BY <2>1 DEF Running
  <1>8. OutputInv' /\ OrderInv'
    BY <1>3, OutputKept
  <1>9. PendingInv'
    <2>1. \A q \in Grid(L) : \A f : WillStore(q, f) => WillStore(q, f)'
      BY <1>3, <1>7 DEF WillStore, Owes
    <2> QED
      BY <1>3, <2>1 DEF RefInv, PendingInv
  <1>10. FinisherInv'
    BY <1>3, <1>7 DEF RefInv, FinisherInv, Finishes
  <1>11. SumInv'
    <2> SUFFICES ASSUME NEW q \in Grid(L), NEW f \in TileElements(L, q)
                 PROVE  Sum(f)' = IF CarriedOver(q, f)' THEN {} ELSE Total(q, f)'
      BY <1>3 DEF SumInv
    <2>1. \A r \in Tile(L, q) : r \in Grid(L)
      BY DEF Tile
    <2>2. CarriedOver(q, f)' <=> CarriedOver(q, f)
      BY <1>3, <1>7, <2>1 DEF CarriedOver, Finishes
    <2>3. Sum(f) = IF CarriedOver(q, f) THEN {} ELSE Total(q, f)
      BY <1>3 DEF RefInv, SumInv
    <2>4. Sum(f)' = IF f = e THEN Plus(Sum(e), acc(L, p)) ELSE Sum(f)
      BY <1>4, <1>6
    <2>5. CASE f # e
      <3>1. Added(q, f)' = Added(q, f)
        BY <1>3, <1>7, <2>1, <2>5 DEF Added
      <3>2. Total(q, f)' = Total(q, f)
        BY <1>3, <3>1 DEF Total
      <3> QED
        BY <2>2, <2>3, <2>4, <2>5, <3>2
    <2>6. CASE f = e
      <3>1. p \in Tile(L, q)
        BY <1>2, <1>5, <2>6, SharedElement
      <3>2. \A r \in Tile(L, q) : ~Finishes(r)
        <4>1. p \notin ArrivedAt(q)
          BY <1>3 DEF ArrivedAt
        <4>2. \A r \in ArrivedAt(q) : prog[r].pc = "done"
          BY <1>3, <3>1, <4>1 DEF Inv, TileInv
        <4> QED
          BY <4>2 DEF ArrivedAt, Finishes
      <3>3. ~CarriedOver(q, f)
        BY <3>2 DEF CarriedOver
      <3>4. Added(q, f)' = Added(q, f) \cup {p} /\ p \notin Added(q, f)
        BY <1>3, <1>7, <2>1, <2>6, <3>1 DEF Added
      <3>5. Total(q, f)' = Total(q, f) \cup acc(L, p)
        BY <1>3, <3>4 DEF Total
      <3>6. Total(q, f) \cap acc(L, p) = {}
        <4>1. \A r \in Added(q, f) : r \in Tile(L, q) /\ r # p
          BY <3>4 DEF Added
        <4>2. Tile(L, p) = Tile(L, q)
          BY <1>2, <3>1, SameTile
        <4>3. \A r \in Added(q, f) : acc(L, p) \cap acc(L, r) = {}
          BY <1>2, <4>1, <4>2, SharesApart
        <4> QED
          BY <4>3 DEF Total
      <3>7. Plus(Sum(e), acc(L, p)) = Total(q, f) \cup acc(L, p)
        BY <2>3, <2>6, <3>3, <3>6 DEF Plus
      <3> QED
        BY <2>2, <2>4, <2>6, <3>3, <3>5, <3>7
    <2> QED
      BY <2>5, <2>6
  <1> QED
    BY <1>8, <1>9, <1>10, <1>11 DEF RefInv

\* An arrival changes no sum, and leaves the elements of its tile to a program
\* that has not arrived or, the last one, takes them over.
LEMMA ArriveRefines == ASSUME Inv, RefInv, Running, NEW p \in Grid(L), Arrive(p) PROVE RefInv'
  <1> DEFINE last == IsLast(cnt[L.cnt][tile(L, p)])
             T == Tile(L, p)
  <1>1. /\ L \in Launches /\ prog \in Programs(L) /\ DOMAIN prog = Grid(L)
        /\ \A q \in Grid(L) : prog[q].left \subseteq TileElements(L, q)
    BY Current DEF Inv
  <1>2. /\ calls' = calls /\ launched' = launched /\ stream' = stream /\ Y' = Y /\ L' = L
        /\ ws' = ws /\ L.cfg.sk > 1 /\ L.cfg.sk # 1 /\ prog[p].pc = "add" /\ prog[p].left = {}
    BY <1>1, Numbers DEF Arrive, AllAdded, hostVars, L, Positive
  <1>3. prog' = [prog EXCEPT ![p] = IF last THEN [pc |-> "finish", left |-> TileElements(L, p)]
                                            ELSE [pc |-> "done", left |-> {}]]
    BY DEF Arrive
  <1> HIDE DEF last
  <1>4. /\ DOMAIN prog' = Grid(L) /\ Running'
        /\ \A q \in Grid(L) : q # p => prog'[q] = prog[q]
        /\ last => prog'[p].pc = "finish" /\ prog'[p].left = TileElements(L, p)
        /\ ~last => prog'[p].pc = "done"
    <2>1. DOMAIN prog' = Grid(L)
      BY <1>1, <1>3
    <2>2. Running'
      BY <2>1 DEF Running
    <2> QED
      BY <1>1, <1>3, <2>1, <2>2
  <1>5. /\ p \in T /\ T \subseteq Grid(L)
        /\ \A q \in T : Tile(L, q) = T /\ TileElements(L, q) = TileElements(L, p)
    BY <1>1, TileHasSlices, SameTile DEF Tile
  <1>6. Inv'
    BY ArriveKeeps
  <1>7. \A q \in T : q # p => prog[q].pc \in {"add", "done"}
    <2>1. ArrivedAt(p) # T
      BY <1>2, <1>5 DEF ArrivedAt
    <2>2. \A q \in ArrivedAt(p) : prog[q].pc = "done"
      BY <1>2, <2>1 DEF Inv, TileInv
    <2> QED
      BY <2>2 DEF ArrivedAt
  <1>8. ArrivedAt(p)' = {q \in T : prog'[q].pc # "add"}
    BY <1>2 DEF ArrivedAt
  <1>9. last => \A q \in T : q # p => prog[q].pc = "done"
    <2> SUFFICES ASSUME last, NEW q \in T, q # p PROVE prog[q].pc = "done"
      OBVIOUS
    <2>1. p \in ArrivedAt(p)' /\ prog'[p].pc # "done"
      BY <1>4, <1>5, <1>8
    <2>2. ArrivedAt(p)' = T
      BY <1>2, <1>4, <1>6, <2>1 DEF Inv, TileInv
    <2>3. prog'[q].pc # "add" /\ prog'[q] = prog[q]
      BY <1>4, <1>5, <1>8, <2>2
    <2> QED
      BY <1>7, <2>3
  <1>10. ~last => \E q \in T : q # p /\ prog[q].pc = "add"
    <2> SUFFICES ASSUME ~last, \A q \in T : q # p => prog[q].pc # "add" PROVE FALSE
      OBVIOUS
    <2>1. \A q \in T : prog'[q].pc = "done"
      BY <1>4, <1>5, <1>7
    <2>2. ArrivedAt(p)' = T
      BY <1>8, <2>1
    <2> QED
      BY <1>2, <1>4, <1>6, <2>1, <2>2 DEF Inv, TileInv
  <1>11. OutputInv' /\ OrderInv'
    BY <1>2, OutputKept
  <1>12. PendingInv'
    <2>1. ASSUME NEW f \in Elements(L.shape), NEW q \in Grid(L),
                 f \in TileElements(L, q), WillStore(q, f)
          PROVE  \E r \in Grid(L) : f \in TileElements(L, r) /\ WillStore(r, f)'
      <3>1. \A r \in Grid(L) : WillStore(r, f)' <=> Owes(r, f)'
        BY <1>2 DEF WillStore
      <3>2. Owes(q, f)
        BY <1>2, <2>1 DEF WillStore
      <3>3. CASE q # p
        <4>1. Owes(q, f)'
          BY <1>4, <3>2, <3>3 DEF Owes
        <4> QED
          BY <2>1, <3>1, <4>1
      <3>4. CASE q = p /\ last
        <4>1. Owes(p, f)'
          BY <1>4, <2>1, <3>4 DEF Owes
        <4> QED
          BY <2>1, <3>1, <3>4, <4>1
      <3>5. CASE q = p /\ ~last
        <4>1. PICK r \in T : r # p /\ prog[r].pc = "add"
          BY <1>10, <3>5
        <4>2. r \in Grid(L) /\ f \in TileElements(L, r)
          BY <1>5, <2>1, <3>5
        <4>3. Owes(r, f)'
          BY <1>4, <4>1, <4>2 DEF Owes
        <4> QED
          BY <3>1, <4>2, <4>3
      <3> QED
        BY <3>3, <3>4, <3>5
    <2> QED
      BY <1>2, <2>1 DEF RefInv, PendingInv
  <1>13. FinisherInv'
    <2> SUFFICES ASSUME NEW q \in Grid(L), NEW r \in Grid(L), r \in Tile(L, q),
                        Finishes(q)', Finishes(r)'
                 PROVE  q = r
      BY <1>2 DEF FinisherInv
    <2>1. CASE q # p /\ r # p
      BY <1>4, <2>1 DEF RefInv, FinisherInv, Finishes
    <2>2. CASE q = p \/ r = p
      <3>1. q \in T /\ r \in T
        BY <1>1, <2>2, SameTile DEF Tile
      <3>2. last
        BY <1>4, <2>2 DEF Finishes
      <3> QED
        BY <1>4, <1>9, <2>2, <3>1, <3>2 DEF Finishes
    <2> QED
      BY <2>1, <2>2
  <1>14. SumInv'
    <2> SUFFICES ASSUME NEW q \in Grid(L), NEW f \in TileElements(L, q)
                 PROVE  Sum(f)' = IF CarriedOver(q, f)' THEN {} ELSE Total(q, f)'
      BY <1>2 DEF SumInv
    <2>1. Sum(f)' = Sum(f)
      BY <1>2 DEF Sum
    <2>2. Sum(f) = IF CarriedOver(q, f) THEN {} ELSE Total(q, f)
      BY <1>2 DEF RefInv, SumInv
    <2>3. p \in Tile(L, q) => f \in TileElements(L, p)
      BY <1>1, SameTile
    <2>4. \A r \in Tile(L, q) : r \in Grid(L)
      BY DEF Tile
    <2>5. CarriedOver(q, f)' <=> CarriedOver(q, f)
      BY <1>2, <1>4, <2>3, <2>4 DEF CarriedOver, Finishes
    <2>6. Added(q, f)' = Added(q, f)
      BY <1>2, <1>4, <2>4 DEF Added
    <2>7. Total(q, f)' = Total(q, f)
      BY <1>2, <2>6 DEF Total
    <2> QED
      BY <2>1, <2>2, <2>5, <2>7
  <1> QED
    BY <1>11, <1>12, <1>13, <1>14 DEF RefInv

\* The last program of a tile finds the whole product in the workspace.
LEMMA TotalRefines == ASSUME Inv, RefInv, Running, NEW p \in Grid(L), StoreTotal(p)
    PROVE  RefInv' /\ StoresOne
  <1>1. PICK e \in prog[p].left :
            /\ prog' = [prog EXCEPT ![p].left = @ \ {e}]
            /\ Y' = [Y EXCEPT ![L.call][e] = Sum(e)]
            /\ ws' = [ws EXCEPT ![L.ws][WsIndex(L, e)] = {}]
    BY DEF StoreTotal, Cleared, Sum
  <1>2. /\ L \in Launches /\ HasRoom(L) /\ prog \in Programs(L) /\ DOMAIN prog = Grid(L)
        /\ \A q \in Grid(L) : prog[q].left \subseteq TileElements(L, q)
    BY Current DEF Inv
  <1>3. /\ calls' = calls /\ launched' = launched /\ stream' = stream /\ L' = L
        /\ prog[p].pc \in {"finish", "reset"} /\ Finishes(p)
    BY DEF StoreTotal, hostVars, L, Finishes
  <1>4. L.cfg.sk > 1 /\ L.cfg.sk # 1
    <2>1. L.cfg.sk # 1
      BY <1>3 DEF RefInv, FinisherInv
    <2> QED
      BY <1>2, <2>1, Numbers DEF Positive
  <1>5. /\ L.call \in DOMAIN calls /\ calls[L.call] = L.shape
        /\ L.id \in 1 .. launched /\ L.id \in Positive
        /\ Whole(L) = Answer(L.call, L.id)
    BY RunningCall
  <1>6. e \in TileElements(L, p) /\ e \in Elements(L.shape)
    BY <1>2 DEF TileElements
  <1>7. Sum(e) = Answer(L.call, L.id) /\ Sum(e) # Undefined
    <2>1. p \in Tile(L, p) /\ \A q \in Tile(L, p) : q \in Grid(L)
      BY DEF Tile
    <2>2. ~CarriedOver(p, e)
      BY <1>3, <2>1 DEF RefInv, FinisherInv, CarriedOver
    <2>3. Sum(e) = Total(p, e)
      BY <1>4, <1>6, <2>2 DEF RefInv, SumInv
    <2>4. ArrivedAt(p) = Tile(L, p)
      <3>1. p \in ArrivedAt(p) /\ prog[p].pc # "done"
        BY <1>3, <2>1 DEF ArrivedAt
      <3> QED
        BY <1>4, <3>1 DEF Inv, TileInv
    <2>5. Added(p, e) = Tile(L, p)
      BY <2>4 DEF Added, ArrivedAt
    <2>6. Total(p, e) = Whole(L)
      BY <1>2, <2>5, SharesAreWhole DEF Total
    <2> QED
      BY <1>5, <2>3, <2>6, AnswerIsDefined
  <1>8. /\ OutputInv'
        /\ \A d \in DOMAIN calls : \A f \in Elements(calls[d]) :
             Y'[d][f] = IF d = L.call /\ f = e THEN Answer(L.call, L.id) ELSE Y[d][f]
    <2>1. Y' = [Y EXCEPT ![L.call][e] = Answer(L.call, L.id)] /\ e \in Elements(calls[L.call])
      BY <1>1, <1>5, <1>6, <1>7
    <2> QED
      BY <1>3, <1>5, <2>1, Stored
  <1>9. OrderInv'
    BY <1>3 DEF RefInv, OrderInv
  <1>10. /\ DOMAIN prog' = Grid(L) /\ Running'
         /\ \A q \in Grid(L) : prog'[q].left = prog[q].left \ (IF q = p THEN {e} ELSE {})
         /\ \A q \in Grid(L) : prog'[q].pc = prog[q].pc
    <2>1. /\ DOMAIN prog' = Grid(L)
          /\ \A q \in Grid(L) : prog'[q].left = prog[q].left \ (IF q = p THEN {e} ELSE {})
          /\ \A q \in Grid(L) : prog'[q].pc = prog[q].pc
      BY <1>1, <1>2 DEF Programs
    <2> QED
      BY <2>1 DEF Running
  <1>11. PendingInv'
    <2>1. \A c \in DOMAIN calls : \A f \in Elements(calls[c]) :
            Y'[c][f] = Undefined => Y[c][f] = Undefined /\ (c = L.call => f # e)
      BY <1>7, <1>8
    <2>2. ASSUME NEW f \in Elements(L.shape), Y'[L.call][f] = Undefined
          PROVE  \E q \in Grid(L) : f \in TileElements(L, q) /\ WillStore(q, f)'
      <3>1. Y[L.call][f] = Undefined /\ f # e
        BY <1>5, <2>1, <2>2
      <3>2. PICK q \in Grid(L) : f \in TileElements(L, q) /\ WillStore(q, f)
        BY <3>1 DEF RefInv, PendingInv
      <3>3. WillStore(q, f)'
        BY <1>3, <1>4, <1>10, <3>1, <3>2 DEF WillStore, Owes
      <3> QED
        BY <3>2, <3>3
    <2> QED
      BY <1>3, <2>1, <2>2 DEF RefInv, PendingInv
  <1>12. FinisherInv'
    BY <1>3, <1>10 DEF RefInv, FinisherInv, Finishes
  <1>13. SumInv'
    <2> SUFFICES ASSUME NEW q \in Grid(L), NEW f \in TileElements(L, q)
                 PROVE  Sum(f)' = IF CarriedOver(q, f)' THEN {} ELSE Total(q, f)'
      BY <1>3 DEF SumInv
    <2>1. \A r \in Tile(L, q) : r \in Grid(L)
      BY DEF Tile
    <2>2. L.ws \in DOMAIN ws /\ WsIndex(L, f) \in DOMAIN ws[L.ws]
      BY <1>2, RoomIsEnough DEF Inv, HasRoom
    <2>3. CASE f = e
      <3>1. Sum(f)' = {}
        BY <1>1, <1>3, <2>2, <2>3 DEF Sum
      <3>2. p \in Tile(L, q)
        BY <1>2, <1>6, <2>3, SharedElement
      <3>3. CarriedOver(q, f)'
        BY <1>3, <1>10, <2>3, <3>2 DEF CarriedOver, Finishes
      <3> QED
        BY <3>1, <3>3
    <2>4. CASE f # e
      <3>1. WsIndex(L, f) # WsIndex(L, e)
        BY <1>2, <1>6, <2>4, WsIndexOnce DEF TileElements
      <3>2. Sum(f)' = Sum(f)
        BY <1>1, <1>3, <2>2, <3>1 DEF Sum
      <3>3. Sum(f) = IF CarriedOver(q, f) THEN {} ELSE Total(q, f)
        BY <1>4 DEF RefInv, SumInv
      <3>4. CarriedOver(q, f)' <=> CarriedOver(q, f)
        BY <1>3, <1>10, <2>1, <2>4 DEF CarriedOver, Finishes
      <3>5. Added(q, f)' = Added(q, f)
        BY <1>3, <1>10, <2>1, <2>4 DEF Added
      <3>6. Total(q, f)' = Total(q, f)
        BY <1>3, <3>5 DEF Total
      <3> QED
        BY <3>2, <3>3, <3>4, <3>6
    <2> QED
      BY <2>3, <2>4
  <1>14. StoresOne
    BY <1>6, <1>7, <1>8 DEF StoresOne
  <1> QED
    BY <1>8, <1>9, <1>11, <1>12, <1>13, <1>14 DEF RefInv

LEMMA ResetRefines == ASSUME Inv, RefInv, Running, NEW p \in Grid(L), ResetCounter(p) PROVE RefInv'
  <1>1. /\ calls' = calls /\ launched' = launched /\ stream' = stream /\ Y' = Y /\ L' = L
        /\ ws' = ws /\ prog[p].pc = "finish" /\ prog' = [prog EXCEPT ![p].pc = "reset"]
    BY DEF ResetCounter, hostVars, L
  <1>2. L \in Launches /\ prog \in Programs(L) /\ DOMAIN prog = Grid(L)
    BY Current DEF Inv
  <1>3. /\ DOMAIN prog' = Grid(L) /\ Running'
        /\ \A q \in Grid(L) : /\ prog'[q].left = prog[q].left
                              /\ prog'[q].pc = IF q = p THEN "reset" ELSE prog[q].pc
    <2>1. /\ DOMAIN prog' = Grid(L)
          /\ \A q \in Grid(L) : /\ prog'[q].left = prog[q].left
                                /\ prog'[q].pc = IF q = p THEN "reset" ELSE prog[q].pc
      BY <1>1, <1>2 DEF Programs
    <2> QED
      BY <2>1 DEF Running
  <1>4. OutputInv' /\ OrderInv'
    BY <1>1, OutputKept
  <1>5. PendingInv'
    <2>1. \A q \in Grid(L) : \A f : WillStore(q, f) => WillStore(q, f)'
      BY <1>1, <1>3 DEF WillStore, Owes
    <2> QED
      BY <1>1, <2>1 DEF RefInv, PendingInv
  <1>6. \A q \in Grid(L) : Finishes(q)' <=> Finishes(q)
    BY <1>1, <1>3 DEF Finishes
  <1>7. FinisherInv'
    <2>1. L.cfg.sk # 1
      BY <1>1 DEF RefInv, FinisherInv
    <2> QED
      BY <1>1, <1>6, <2>1 DEF RefInv, FinisherInv
  <1>8. SumInv'
    <2> SUFFICES ASSUME L.cfg.sk > 1, NEW q \in Grid(L), NEW f \in TileElements(L, q)
                 PROVE  Sum(f)' = IF CarriedOver(q, f)' THEN {} ELSE Total(q, f)'
      BY <1>1 DEF SumInv
    <2>1. \A r \in Tile(L, q) : r \in Grid(L)
      BY DEF Tile
    <2>2. Sum(f)' = Sum(f)
      BY <1>1 DEF Sum
    <2>3. Sum(f) = IF CarriedOver(q, f) THEN {} ELSE Total(q, f)
      BY DEF RefInv, SumInv
    <2>4. CarriedOver(q, f)' <=> CarriedOver(q, f)
      BY <1>1, <1>3, <1>6, <2>1 DEF CarriedOver
    <2>5. Added(q, f)' = Added(q, f)
      BY <1>1, <1>3, <2>1 DEF Added
    <2>6. Total(q, f)' = Total(q, f)
      BY <1>1, <2>5 DEF Total
    <2> QED
      BY <2>2, <2>3, <2>4, <2>6
  <1> QED
    BY <1>4, <1>5, <1>7, <1>8 DEF RefInv

\* When a launch ends every element of its output is stored.
LEMMA EndRefines == ASSUME Inv, RefInv, EndLaunch PROVE RefInv'
  <1>1. /\ calls' = calls /\ launched' = launched /\ stream' = Tail(stream) /\ Y' = Y
        /\ ~Running' /\ Running
    BY DEF EndLaunch, hostVars, Running
  <1>2. \A p \in Grid(L) : Ended(p)
    BY DEF EndLaunch
  <1>3. /\ L \in Launches /\ stream # <<>> /\ stream \in Seq(Launches) /\ L = stream[1]
    BY <1>1, Current DEF Inv, StreamInv, L
  <1>4. /\ \A i \in DOMAIN stream' : i + 1 \in DOMAIN stream /\ stream'[i] = stream[i + 1]
        /\ \A i \in DOMAIN stream :
                i = 1 \/ (i - 1 \in DOMAIN stream' /\ stream'[i - 1] = stream[i])
    <2>1. /\ Len(stream) \in Nat /\ Len(stream) > 0 /\ DOMAIN stream = 1 .. Len(stream)
          /\ DOMAIN stream' = 1 .. Len(stream) - 1
          /\ \A i \in 1 .. Len(stream) - 1 : stream'[i] = stream[i + 1]
      BY <1>1, <1>3
    <2>2. ASSUME NEW i \in DOMAIN stream, i # 1
          PROVE  i - 1 \in DOMAIN stream' /\ stream'[i - 1] = stream[i]
      <3>1. i - 1 \in 1 .. Len(stream) - 1 /\ (i - 1) + 1 = i
        BY <2>1, <2>2
      <3> QED
        BY <2>1, <3>1
    <2>3. ASSUME NEW i \in DOMAIN stream'
          PROVE  i + 1 \in DOMAIN stream /\ stream'[i] = stream[i + 1]
      BY <2>1
    <2>4. \A i \in DOMAIN stream :
            i = 1 \/ (i - 1 \in DOMAIN stream' /\ stream'[i - 1] = stream[i])
      BY <2>2
    <2> QED
      BY <2>3, <2>4
  <1>5. OutputInv'
    <2>1. \A c, id : Answer(c, id)' = Answer(c, id)
      BY <1>1 DEF Answer
    <2> QED
      BY <1>1, <2>1 DEF RefInv, OutputInv
  <1>6. OrderInv'
    <2>1. \A i \in DOMAIN stream' : i \in Nat
      BY <1>1, <1>3
    <2>2. \A i, j \in DOMAIN stream' : i <= j => i + 1 <= j + 1
      BY <2>1
    <2> QED
      BY <1>1, <1>4, <2>2 DEF RefInv, OrderInv
  <1>7. \A e \in Elements(L.shape) : Y[L.call][e] # Undefined
    <2> SUFFICES ASSUME NEW e \in Elements(L.shape), Y[L.call][e] = Undefined PROVE FALSE
      OBVIOUS
    <2>1. PICK p \in Grid(L) : WillStore(p, e)
      BY <1>1 DEF RefInv, PendingInv
    <2>2. prog[p].left = {}
      BY <1>2 DEF Ended
    <2>3. L.cfg.sk # 1 /\ Owes(p, e)
      BY <2>1, <2>2 DEF WillStore
    <2>4. L.cfg.sk > 1
      <3>1. L.cfg.sk \in Positive
        BY <1>3, Numbers
      <3> QED
        BY <2>3, <3>1 DEF Positive
    <2>5. prog[p].pc \in {"done", "reset"}
      BY <1>2, <2>4 DEF Ended
    <2> QED
      BY <2>2, <2>3, <2>5 DEF Owes
  <1>8. PendingInv'
    <2> SUFFICES ASSUME NEW c \in DOMAIN calls, NEW e \in Elements(calls[c]), Y[c][e] = Undefined
                 PROVE  \E i \in DOMAIN stream' : stream'[i].call = c
      BY <1>1 DEF PendingInv
    <2>1. PICK i \in DOMAIN stream : stream[i].call = c
      BY DEF RefInv, PendingInv
    <2>2. calls[L.call] = L.shape
      BY <1>1, RunningCall
    <2>3. i # 1
      BY <1>3, <1>7, <2>1, <2>2
    <2> QED
      BY <1>4, <2>1, <2>3
  <1> QED
    BY <1>1, <1>5, <1>6, <1>8 DEF RefInv, FinisherInv, SumInv

-----------------------------------------------------------------------------
(***************************************************************************)
(* The steps of the host.                                                  *)
(***************************************************************************)

\* A call appends at least one launch, of its own shape.
LEMMA ForwardAppends ==
    ASSUME Inv, NEW shape \in Shapes, NEW layout \in Layouts, _forward_triton(shape, layout)
    PROVE  \E new :
              /\ new \in Seq(ToSet(new)) /\ Len(new) > 0
              /\ stream' = stream \o new /\ launched' = launched + Len(new)
              /\ \A i \in DOMAIN new : /\ new[i].id = launched + i
                                       /\ new[i].call = Len(calls) + 1
                                       /\ new[i].shape = shape
  <1> DEFINE hit == _launch_cache[<<shape, layout>>] # None
             tune == ~hit /\ tuned[shape] = None
             launch(i, c) == [id |-> launched + i, call |-> Len(calls) + 1, shape |-> shape,
                              cfg |-> c, ws |-> Len(ws'), cnt |-> Len(cnt')]
  <1>1. PICK best \in IF tune THEN ToSet(prune(shape.m)) ELSE {tuned[shape]} :
            LET runs == CASE hit   -> <<_launch_cache[<<shape, layout>>]>>
                          [] tune  -> Append(prune(shape.m), best)
                          [] OTHER -> <<best>>
            IN  /\ stream' = stream \o [i \in DOMAIN runs |-> launch(i, runs[i])]
                /\ launched' = launched + Len(runs)
                /\ tuned' = [tuned EXCEPT ![shape] = best]
                /\ _launch_cache' = [_launch_cache EXCEPT ![<<shape, layout>>] = Last(runs)]
    BY DEF _forward_triton
  <1> DEFINE runs == CASE hit   -> <<_launch_cache[<<shape, layout>>]>>
                       [] tune  -> Append(prune(shape.m), best)
                       [] OTHER -> <<best>>
             new == [i \in DOMAIN runs |-> launch(i, runs[i])]
  <1>2. stream' = stream \o new /\ launched' = launched + Len(runs)
    BY <1>1
  <1>3. Len(runs) \in Nat /\ Len(runs) > 0 /\ DOMAIN runs = 1 .. Len(runs)
    <2>1. CASE hit
      <3>1. runs = <<_launch_cache[<<shape, layout>>]>>
        BY <2>1
      <3> HIDE DEF runs
      <3> QED
        BY <3>1
    <2>2. CASE tune
      <3>1. runs = Append(prune(shape.m), best) /\ prune(shape.m) \in Seq(ConfigType)
        BY <2>2, SplitKAssumption
      <3> HIDE DEF runs
      <3> QED
        BY <3>1
    <2>3. CASE ~hit /\ ~tune
      <3>1. runs = <<best>>
        BY <2>3
      <3> HIDE DEF runs
      <3> QED
        BY <3>1
    <2> QED
      BY <2>1, <2>2, <2>3
  <1> HIDE DEF runs
  <1>4. DOMAIN new = 1 .. Len(runs) /\ Len(new) = Len(runs)
    BY <1>3
  <1>5. \A i \in DOMAIN new : /\ new[i].id = launched + i
                              /\ new[i].call = Len(calls) + 1 /\ new[i].shape = shape
    OBVIOUS
  <1> HIDE DEF new
  <1>6. new \in Seq(ToSet(new))
    <2>1. new \in [1 .. Len(runs) -> ToSet(new)]
      <3>1. new = [i \in DOMAIN new |-> new[i]]
        BY DEF new
      <3> QED
        BY <1>4, <3>1 DEF ToSet
    <2> QED
      BY <1>3, <2>1
  <1> QED
    BY <1>2, <1>3, <1>4, <1>5, <1>6

\* A call adds an output that is undefined and has a launch to come, behind the
\* launches of the calls before it, and leaves the running launch alone.
LEMMA ForwardRefines ==
    ASSUME Inv, RefInv, NEW shape \in Shapes, NEW layout \in Layouts,
           _forward_triton(shape, layout)
    PROVE  RefInv'
  <1> DEFINE n == Len(calls)
             s == Len(stream)
             y == [e \in Elements(shape) |-> Undefined]
  <1>1. /\ calls' = Append(calls, shape) /\ Y' = Append(Y, y) /\ prog' = prog
        /\ _get_workspace(shape)
    BY DEF _forward_triton
  <1>2. PICK new :
            /\ new \in Seq(ToSet(new)) /\ Len(new) > 0
            /\ stream' = stream \o new /\ launched' = launched + Len(new)
            /\ \A i \in DOMAIN new : /\ new[i].id = launched + i
                                     /\ new[i].call = n + 1
                                     /\ new[i].shape = shape
    BY ForwardAppends
  <1>3. /\ calls \in Seq(Shapes) /\ stream \in Seq(Launches) /\ launched \in Nat
        /\ Y \in Seq(Outputs) /\ Len(Y) = n /\ n \in Nat /\ DOMAIN calls = 1 .. n
    BY DEF Inv, HostInv, StreamInv, RefInv, OutputInv
  <1>4. y \in Outputs /\ DOMAIN y = Elements(shape) /\ \A e \in Elements(shape) : y[e] = Undefined
    <2>1. Undefined \in SUBSET Terms
      BY DEF Undefined, Terms
    <2> QED
      BY <2>1 DEF Outputs
  <1> HIDE DEF y
  <1>5. /\ DOMAIN calls' = 1 .. n + 1 /\ calls'[n + 1] = shape
        /\ \A c \in DOMAIN calls : c \in DOMAIN calls' /\ calls'[c] = calls[c]
        /\ \A c \in DOMAIN calls' : c \in DOMAIN calls \/ c = n + 1
    BY <1>1, <1>3
  <1>6. /\ Y' \in Seq(Outputs) /\ Len(Y') = n + 1 /\ Len(calls') = n + 1 /\ Y'[n + 1] = y
        /\ \A c \in DOMAIN calls : Y'[c] = Y[c]
    BY <1>1, <1>3, <1>4
  <1>7. /\ DOMAIN stream = 1 .. s /\ s \in Nat /\ Len(new) \in Nat /\ DOMAIN new = 1 .. Len(new)
        /\ DOMAIN stream' = 1 .. s + Len(new)
        /\ \A i \in 1 .. s : stream'[i] = stream[i]
        /\ \A i \in 1 .. Len(new) : stream'[s + i] = new[i]
    BY <1>2, <1>3
  <1> HIDE DEF n, s
  <1>8. \A i \in DOMAIN stream' :
            \/ i \in DOMAIN stream /\ i <= s /\ stream'[i] = stream[i]
            \/ i > s /\ i - s \in DOMAIN new /\ stream'[i] = new[i - s]
    <2> SUFFICES ASSUME NEW i \in DOMAIN stream', ~ (i <= s)
                 PROVE  i > s /\ i - s \in DOMAIN new /\ stream'[i] = new[i - s]
      BY <1>7
    <2>1. i > s /\ i - s \in 1 .. Len(new) /\ s + (i - s) = i
      BY <1>7
    <2> QED
      BY <1>7, <2>1
  <1>9. OutputInv'
    <2>1. \A c \in DOMAIN calls : \A id : Answer(c, id)' = Answer(c, id)
      BY <1>5 DEF Answer
    <2>2. \A id \in 1 .. launched : id \in 1 .. launched'
      BY <1>2, <1>3, <1>7
    <2>3. \A c \in DOMAIN calls' : DOMAIN Y'[c] = Elements(calls'[c])
      BY <1>4, <1>5, <1>6 DEF RefInv, OutputInv
    <2>4. ASSUME NEW c \in DOMAIN calls', NEW e \in Elements(calls'[c])
          PROVE  Y'[c][e] = Undefined \/ \E id \in 1 .. launched' : Y'[c][e] = Answer(c, id)'
      <3>1. CASE c \in DOMAIN calls
        <4>1. Y'[c] = Y[c] /\ e \in Elements(calls[c])
          BY <1>5, <1>6, <3>1
        <4>2. Y[c][e] = Undefined \/ \E id \in 1 .. launched : Y[c][e] = Answer(c, id)
          BY <3>1, <4>1 DEF RefInv, OutputInv
        <4> QED
          BY <2>1, <2>2, <3>1, <4>1, <4>2
      <3>2. CASE c = n + 1
        BY <1>4, <1>5, <1>6, <3>2
      <3> QED
        BY <1>5, <3>1, <3>2
    <2> QED
      BY <1>6, <2>3, <2>4 DEF OutputInv
  <1>10. OrderInv'
    <2>1. ASSUME NEW i \in DOMAIN stream'
          PROVE  /\ stream'[i].call \in DOMAIN calls'
                 /\ calls'[stream'[i].call] = stream'[i].shape
                 /\ stream'[i].id \in 1 .. launched'
                 /\ IF i <= s THEN stream'[i].call \in 1 .. n ELSE stream'[i].call = n + 1
      <3>1. CASE i \in DOMAIN stream /\ i <= s /\ stream'[i] = stream[i]
        <4>1. /\ stream[i].call \in DOMAIN calls /\ calls[stream[i].call] = stream[i].shape
              /\ stream[i].id \in 1 .. launched
          BY <3>1 DEF RefInv, OrderInv
        <4> QED
          BY <1>2, <1>3, <1>5, <1>7, <3>1, <4>1
      <3>2. CASE i > s /\ i - s \in DOMAIN new /\ stream'[i] = new[i - s]
        <4>1. /\ stream'[i].call = n + 1 /\ stream'[i].shape = shape
              /\ stream'[i].id = launched + (i - s)
          BY <1>2, <3>2
        <4>2. n + 1 \in DOMAIN calls' /\ calls'[n + 1] = shape
          BY <1>3, <1>5
        <4>3. launched + (i - s) \in 1 .. launched'
          BY <1>2, <1>3, <1>7, <3>2
        <4>4. ~ (i <= s)
          BY <1>7, <3>2
        <4> QED
          BY <4>1, <4>2, <4>3, <4>4
      <3> QED
        BY <1>8, <3>1, <3>2
    <2>2. ASSUME NEW i \in DOMAIN stream', NEW j \in DOMAIN stream', i <= j
          PROVE  stream'[i].call <= stream'[j].call
      <3>1. i \in Nat /\ j \in Nat
        BY <1>7
      <3>2. CASE j <= s
        <4>1. /\ i \in DOMAIN stream /\ stream'[i] = stream[i]
              /\ j \in DOMAIN stream /\ stream'[j] = stream[j]
          BY <1>7, <2>2, <3>1, <3>2
        <4> QED
          BY <2>2, <4>1 DEF RefInv, OrderInv
      <3>3. CASE ~ (j <= s)
        <4>1. stream'[j].call = n + 1 /\ (stream'[i].call \in 1 .. n \/ stream'[i].call = n + 1)
          BY <2>1, <3>3
        <4> QED
          BY <1>3, <4>1
      <3> QED
        BY <3>2, <3>3
    <2> QED
      BY <2>1, <2>2 DEF OrderInv
  <1>11. Running => /\ L' = L /\ L \in Launches /\ HasRoom(L) /\ L.call \in DOMAIN calls
                    /\ calls[L.call] = L.shape
    <2>1. Running => 1 \in DOMAIN stream /\ L = stream[1] /\ L \in Launches /\ HasRoom(L)
      BY Current DEF Inv, StreamInv, L
    <2>2. Running => L' = L
      <3>1. stream # <<>> => Head(stream') = Head(stream)
        BY <1>2, <1>3
      <3> QED
        BY <3>1, Current DEF Inv, L
    <2> QED
      BY <2>1, <2>2, RunningCall
  <1>12. PendingInv'
    <2>1. ASSUME NEW c \in DOMAIN calls', NEW e \in Elements(calls'[c]), Y'[c][e] = Undefined
          PROVE  \E i \in DOMAIN stream' : stream'[i].call = c
      <3>1. CASE c \in DOMAIN calls
        <4>1. PICK i \in DOMAIN stream : stream[i].call = c
          BY <1>5, <1>6, <2>1, <3>1 DEF RefInv, PendingInv
        <4>2. i \in DOMAIN stream' /\ stream'[i] = stream[i]
          BY <1>7
        <4> QED
          BY <4>1, <4>2
      <3>2. CASE c = n + 1
        <4>1. s + 1 \in DOMAIN stream' /\ 1 \in DOMAIN new
          BY <1>2, <1>7
        <4>2. stream'[s + 1].call = n + 1
          BY <1>2, <1>7, <4>1
        <4> QED
          BY <3>2, <4>1, <4>2
      <3> QED
        BY <1>5, <3>1, <3>2
    <2>2. ASSUME Running, NEW e \in Elements(L.shape), Y'[L.call][e] = Undefined
          PROVE  \E p \in Grid(L) : e \in TileElements(L, p) /\ WillStore(p, e)'
      <3>1. Y[L.call][e] = Undefined
        BY <1>6, <1>11, <2>2
      <3>2. PICK p \in Grid(L) : e \in TileElements(L, p) /\ WillStore(p, e)
        BY <2>2, <3>1 DEF RefInv, PendingInv
      <3>3. WillStore(p, e)'
        BY <1>1, <1>11, <2>2, <3>2 DEF WillStore, Owes
      <3> QED
        BY <3>2, <3>3
    <2> QED
      BY <1>1, <1>11, <2>1, <2>2 DEF PendingInv, Running
  <1>13. FinisherInv'
    BY <1>1, <1>11 DEF RefInv, FinisherInv, Finishes, Running
  <1>14. SumInv'
    <2> SUFFICES ASSUME Running, L.cfg.sk > 1, NEW q \in Grid(L), NEW f \in TileElements(L, q)
                 PROVE  Sum(f)' = IF CarriedOver(q, f)' THEN {} ELSE Total(q, f)'
      BY <1>1, <1>11 DEF SumInv, Running
    <2>1. Sum(f) = IF CarriedOver(q, f) THEN {} ELSE Total(q, f)
      BY DEF RefInv, SumInv
    <2>2. ws'[L.ws] = ws[L.ws]
      <3>1. ws \in Seq(Buffers(SUBSET Terms)) /\ L.ws \in DOMAIN ws
        BY <1>11 DEF Inv, HostInv, HasRoom
      <3>2. ws' = ws \/ \E b : ws' = Append(ws, b)
        BY <1>1 DEF _get_workspace
      <3> QED
        BY <3>1, <3>2
    <2>3. Sum(f)' = Sum(f)
      BY <1>11, <2>2 DEF Sum
    <2>4. CarriedOver(q, f)' <=> CarriedOver(q, f)
      BY <1>1, <1>11 DEF CarriedOver, Finishes
    <2>5. Added(q, f)' = Added(q, f)
      BY <1>1, <1>11 DEF Added
    <2>6. Total(q, f)' = Total(q, f)
      BY <1>11, <2>5 DEF Total
    <2> QED
      BY <2>1, <2>3, <2>4, <2>6
  <1> QED
    BY <1>9, <1>10, <1>12, <1>13, <1>14 DEF RefInv

-----------------------------------------------------------------------------
(***************************************************************************)
(* The refinement.                                                         *)
(***************************************************************************)

\* What FusedProduct sees of Y.
Result == [c \in DOMAIN calls |-> [e \in Elements(calls[c]) |-> Seen(c, e)]]

LEMMA NothingStored == Init => RefInv /\ Product!Init
  <1> SUFFICES ASSUME Init PROVE RefInv /\ Product!Init
    OBVIOUS
  <1>1. /\ calls = <<>> /\ Y = <<>> /\ stream = <<>> /\ ~Running
        /\ DOMAIN calls = {} /\ DOMAIN stream = {}
    BY DEF Init, Running
  <1>2. RefInv
    BY <1>1 DEF RefInv, OutputInv, OrderInv, PendingInv, FinisherInv, SumInv
  <1>3. Product!Init
    BY <1>1 DEF Product!Init
  <1> QED
    BY <1>2, <1>3

LEMMA RefStepKeeps == Inv /\ RefInv /\ [Next]_vars => RefInv'
  <1> SUFFICES ASSUME Inv, RefInv, [Next]_vars PROVE RefInv'
    OBVIOUS
  <1>1. CASE Forward
    BY <1>1, ForwardRefines DEF Forward
  <1>2. CASE StartLaunch
    BY <1>2, StartRefines
  <1>3. CASE \E p \in DOMAIN prog : Step(p)
    <2>1. PICK p \in DOMAIN prog : Step(p)
      BY <1>3
    <2>2. Running
      BY <2>1 DEF Running
    <2>3. p \in Grid(L)
      BY <2>1, <2>2, Current DEF Inv
    <2> QED
      BY <2>1, <2>2, <2>3,
         StoreRefines, AddRefines, ArriveRefines, TotalRefines, ResetRefines DEF Step
  <1>4. CASE EndLaunch
    BY <1>4, EndRefines
  <1>5. CASE UNCHANGED vars
    <2>1. /\ launched' = launched /\ calls' = calls /\ stream' = stream /\ prog' = prog
          /\ ws' = ws /\ Y' = Y /\ Running' = Running /\ L' = L
      BY <1>5 DEF vars, Running, L
    <2>2. OutputInv' /\ OrderInv'
      BY <2>1, OutputKept
    <2>3. PendingInv' /\ FinisherInv'
      BY <2>1 DEF RefInv, PendingInv, FinisherInv, WillStore, Owes, Finishes
    <2>4. SumInv'
      BY <2>1 DEF RefInv, SumInv, Sum, CarriedOver, Total, Added, Finishes
    <2> QED
      BY <2>2, <2>3, <2>4 DEF RefInv
  <1> QED
    BY <1>1, <1>2, <1>3, <1>4, <1>5 DEF Next, Gpu

\* An output has no garbage.
LEMMA SeenWhole ==
    RefInv => \A c \in DOMAIN calls : \A e \in Elements(calls[c]) :
        Seen(c, e) = IF Y[c][e] = Undefined THEN "undefined" ELSE "product"
  <1> SUFFICES ASSUME RefInv, NEW c \in DOMAIN calls, NEW e \in Elements(calls[c])
               PROVE  Seen(c, e) = IF Y[c][e] = Undefined THEN "undefined" ELSE "product"
    OBVIOUS
  <1>1. CASE Y[c][e] = Undefined
    BY <1>1 DEF Seen
  <1>2. CASE Y[c][e] # Undefined
    <2>1. \E id \in 1 .. launched : Y[c][e] = {<<id, k>> : k \in 0 .. calls[c].k - 1}
      BY <1>2 DEF RefInv, OutputInv, Answer
    <2> QED
      BY <1>2, <2>1 DEF Seen
  <1> QED
    BY <1>1, <1>2

LEMMA SeenWholeNext ==
    (RefInv => \A c \in DOMAIN calls : \A e \in Elements(calls[c]) :
        Seen(c, e) = IF Y[c][e] = Undefined THEN "undefined" ELSE "product")'
  BY SeenWhole, PTL

\* A step that defines no element is none of FusedProduct.
LEMMA Stutters ==
    ASSUME RefInv, RefInv', calls' = calls,
           \A c \in DOMAIN calls : \A e \in Elements(calls[c]) :
                Y'[c][e] = Undefined <=> Y[c][e] = Undefined
    PROVE  Result' = Result
  <1>1. ASSUME NEW c \in DOMAIN calls, NEW e \in Elements(calls[c])
        PROVE  Seen(c, e)' = Seen(c, e)
    BY SeenWhole, SeenWholeNext
  <1> QED
    BY <1>1 DEF Result

\* One that defines an element of the running call is Compute: the calls before
\* it have no launch left, so they are complete.
LEMMA Computes ==
    ASSUME Inv, RefInv, RefInv', Running, calls' = calls, StoresOne
    PROVE  [Product!ComputeSome]_(Product!vars)
  <1>1. PICK e \in Elements(L.shape) :
            \A c \in DOMAIN calls : \A f \in Elements(calls[c]) :
                Y'[c][f] = Undefined <=> Y[c][f] = Undefined /\ (c = L.call => f # e)
    BY DEF StoresOne
  <1>2. /\ L.call \in DOMAIN calls /\ calls[L.call] = L.shape
        /\ \A i \in DOMAIN stream : L.call <= stream[i].call
        /\ DOMAIN calls = 1 .. Len(calls) /\ Len(calls) \in Nat
    BY RunningCall DEF Inv, HostInv
  <1>3. CASE Y[L.call][e] # Undefined
    <2>1. Result' = Result
      BY <1>1, <1>2, <1>3, Stutters
    <2> QED
      BY <2>1 DEF Product!vars, Result
  <1>4. CASE Y[L.call][e] = Undefined
    <2>1. ASSUME NEW d \in 1 .. L.call - 1, NEW f \in Elements(calls[d])
          PROVE  Result[d][f] = "product"
      <3>1. d \in DOMAIN calls /\ d < L.call
        BY <1>2
      <3>2. Y[d][f] # Undefined
        <4> SUFFICES ASSUME Y[d][f] = Undefined PROVE FALSE
          OBVIOUS
        <4>1. PICK i \in DOMAIN stream : stream[i].call = d
          BY <3>1 DEF RefInv, PendingInv
        <4>2. L.call <= d
          BY <1>2, <4>1
        <4> QED
          BY <1>2, <3>1, <4>2
      <3>3. Seen(d, f) = "product"
        BY <3>1, <3>2, SeenWhole
      <3> QED
        BY <3>1, <3>3 DEF Result
    <2>2. Result[L.call][e] = "undefined"
      <3>1. Seen(L.call, e) = "undefined"
        BY <1>2, <1>4, SeenWhole
      <3> QED
        BY <1>2, <3>1 DEF Result
    <2>3. ASSUME NEW c \in DOMAIN calls, NEW f \in Elements(calls[c])
          PROVE  Seen(c, f)' = IF c = L.call /\ f = e THEN "product" ELSE Seen(c, f)
      <3>1. /\ Seen(c, f) = IF Y[c][f] = Undefined THEN "undefined" ELSE "product"
            /\ Seen(c, f)' = IF Y'[c][f] = Undefined THEN "undefined" ELSE "product"
        BY SeenWhole, SeenWholeNext
      <3>2. CASE c = L.call /\ f = e
        BY <1>1, <3>1, <3>2
      <3>3. CASE ~ (c = L.call /\ f = e)
        <4>1. Y'[c][f] = Undefined <=> Y[c][f] = Undefined
          BY <1>1, <3>3
        <4> QED
          BY <3>1, <3>3, <4>1
      <3> QED
        BY <3>2, <3>3
    <2>4. Result' = [Result EXCEPT ![L.call][e] = "product"]
      <3>1. Result = [c \in DOMAIN calls |-> [f \in Elements(calls[c]) |-> Seen(c, f)]]
        BY DEF Result
      <3>2. Result' = [c \in DOMAIN calls |-> [f \in Elements(calls[c]) |->
                          IF c = L.call /\ f = e THEN "product" ELSE Seen(c, f)]]
        BY <2>3 DEF Result
      <3> QED
        BY <1>2, <3>1, <3>2
    <2>5. Product!Compute(L.call, e)
      BY <2>1, <2>2, <2>4 DEF Product!Compute, Product!Complete, Product!Elements, Elements, Result
    <2> QED
      BY <1>2, <2>5 DEF Product!ComputeSome, Product!Elements, Elements
  <1> QED
    BY <1>3, <1>4

\* A call of the kernel is a call of FusedProduct.
LEMMA Forwards ==
    ASSUME Inv, RefInv, RefInv', NEW shape \in Shapes, NEW layout \in Layouts,
           _forward_triton(shape, layout)
    PROVE  Product!forward(shape)
  <1> PICK n \in Nat : n = Len(calls)
    BY DEF Inv, HostInv
  <1> DEFINE y == [e \in Elements(shape) |-> Undefined]
             r == [e \in Elements(shape) |-> "undefined"]
  <1>1. calls' = Append(calls, shape) /\ Y' = Append(Y, y)
    BY DEF _forward_triton
  <1>2. /\ calls \in Seq(Shapes) /\ Y \in Seq(Outputs) /\ Len(Y) = n /\ n \in Nat
        /\ DOMAIN calls = 1 .. n
    BY DEF Inv, HostInv, RefInv, OutputInv
  <1>3. \A e \in Elements(shape) : y[e] = Undefined
    OBVIOUS
  <1> HIDE DEF y
  <1>4. /\ DOMAIN calls' = 1 .. n + 1 /\ calls'[n + 1] = shape /\ Y'[n + 1] = y
        /\ \A c \in 1 .. n : calls'[c] = calls[c] /\ Y'[c] = Y[c]
    BY <1>1, <1>2
  <1>5. ASSUME NEW c \in 1 .. n, NEW e \in Elements(calls[c]) PROVE Seen(c, e)' = Seen(c, e)
    <2>1. c \in DOMAIN calls' /\ e \in Elements(calls'[c])
      BY <1>2, <1>4
    <2> QED
      BY <1>2, <1>4, <2>1, SeenWhole, SeenWholeNext
  <1>6. ASSUME NEW e \in Elements(shape) PROVE Seen(n + 1, e)' = "undefined"
    <2>1. n + 1 \in DOMAIN calls' /\ e \in Elements(calls'[n + 1])
      BY <1>2, <1>4
    <2> QED
      BY <1>3, <1>4, <2>1, SeenWholeNext
  <1>7. /\ DOMAIN Result' = 1 .. n + 1 /\ DOMAIN Result = 1 .. n
        /\ \A c \in 1 .. n : Result'[c] = Result[c]
        /\ Result'[n + 1] = r
    <2>1. DOMAIN Result' = 1 .. n + 1 /\ DOMAIN Result = 1 .. n
      BY <1>2, <1>4 DEF Result
    <2>2. ASSUME NEW c \in 1 .. n PROVE Result'[c] = Result[c]
      <3>1. Result[c] = [e \in Elements(calls[c]) |-> Seen(c, e)]
        BY <1>2 DEF Result
      <3>2. c \in 1 .. n + 1 /\ Result'[c] = [e \in Elements(calls[c]) |-> Seen(c, e)']
        BY <1>2, <1>4 DEF Result
      <3> QED
        BY <1>5, <3>1, <3>2
    <2>3. Result'[n + 1] = r
      <3>1. Result'[n + 1] = [e \in Elements(shape) |-> Seen(n + 1, e)']
        BY <1>2, <1>4 DEF Result
      <3> QED
        BY <1>6, <3>1
    <2> QED
      BY <2>1, <2>2, <2>3
  <1> HIDE DEF r
  <1>8. Result' = Append(Result, r)
    <2>1. Result' = [c \in 1 .. n + 1 |-> Result'[c]] /\ Result = [c \in 1 .. n |-> Result[c]]
      BY <1>7 DEF Result
    <2> DEFINE S == {Result[c] : c \in 1 .. n} \cup {r}
    <2>2. Result \in Seq(S) /\ Len(Result) = n /\ r \in S
      BY <1>7, <2>1
    <2>3. Result' \in Seq(S) /\ Len(Result') = n + 1
      <3>1. \A c \in 1 .. n + 1 : Result'[c] \in S
        BY <1>7
      <3> HIDE DEF S
      <3> QED
        BY <2>1, <3>1
    <2> HIDE DEF S
    <2>4. /\ Append(Result, r) \in Seq(S) /\ Len(Append(Result, r)) = n + 1
          /\ \A c \in 1 .. n : Append(Result, r)[c] = Result[c]
          /\ Append(Result, r)[n + 1] = r
      BY <2>2, AppendProperties
    <2>5. \A c \in 1 .. n + 1 : Result'[c] = Append(Result, r)[c]
      BY <1>7, <2>4
    <2> QED
      BY <2>3, <2>4, <2>5, SeqEqual
  <1> QED
    BY <1>1, <1>8 DEF Product!forward, Product!Elements, Elements, Result, r

LEMMA StepSimulates ==
    Inv /\ RefInv /\ RefInv' /\ [Next]_vars => [Product!Next]_(Product!vars)
  <1> SUFFICES ASSUME Inv, RefInv, RefInv', [Next]_vars
               PROVE  [Product!Next]_(Product!vars)
    OBVIOUS
  <1>1. CASE Forward
    <2>1. PICK shape \in Shapes : Product!forward(shape)
      BY <1>1, Forwards DEF Forward
    <2> QED
      BY <2>1 DEF Product!Next
  <1>2. CASE calls' = calls /\ Y' = Y
    <2>1. Result' = Result
      BY <1>2, Stutters
    <2> QED
      BY <1>2, <2>1 DEF Product!vars, Result
  <1>3. ASSUME Running, NEW p \in Grid(L), Store(p) \/ StoreTotal(p)
        PROVE  [Product!Next]_(Product!vars)
    <2>1. calls' = calls /\ StoresOne
      BY <1>3, StoreRefines, TotalRefines DEF Store, StoreTotal, hostVars
    <2>2. [Product!ComputeSome]_(Product!vars)
      BY <1>3, <2>1, Computes
    <2> QED
      BY <2>2 DEF Product!Next
  <1>4. CASE \E p \in DOMAIN prog : Step(p)
    <2>1. PICK p \in DOMAIN prog : Step(p)
      BY <1>4
    <2>2. Running /\ p \in Grid(L)
      <3>1. Running
        BY <2>1 DEF Running
      <3> QED
        BY <2>1, <3>1, Current DEF Inv
    <2>3. CASE Store(p) \/ StoreTotal(p)
      BY <1>3, <2>2, <2>3
    <2>4. CASE AddPartial(p) \/ Arrive(p) \/ ResetCounter(p)
      BY <1>2, <2>4 DEF AddPartial, Arrive, ResetCounter, hostVars
    <2> QED
      BY <2>1, <2>3, <2>4 DEF Step
  <1>5. CASE StartLaunch \/ EndLaunch \/ UNCHANGED vars
    BY <1>2, <1>5 DEF StartLaunch, EndLaunch, vars, hostVars
  <1> QED
    BY <1>1, <1>4, <1>5 DEF Next, Gpu

LEMMA RefInvariance == Spec => [](Inv /\ RefInv)
  BY Initially, NothingStored, StepKeeps, RefStepKeeps, PTL DEF Spec

\* The kernel implements FusedProduct, but for its fairness: an element of an
\* output is undefined or the whole product of its call, once and for all, and
\* defined only when the outputs of all earlier calls are.
THEOREM KernelImplementsProduct == Spec => Product!Spec
  BY RefInvariance, NothingStored, StepSimulates, PTL DEF Spec, Product!Spec

=============================================================================

------------------------- MODULE SessionStoreProofs -------------------------
(***************************************************************************)
(* For any proxies, rows, times and number of collections, whatever write  *)
(* fails and whenever the process dies: the types, that the tables show    *)
(* what was collected last, and that a row on the screen opens.  All three *)
(* parts of the store are tied to the newest file of a proxy: it is the    *)
(* one cleanup keeps, the one "latest" names, and the one cached, unless   *)
(* the history says why not.                                               *)
(***************************************************************************)
EXTENDS SessionStore, TLAPS

\* s is the second of the newest file of p.
NewestAt(p, s) == s \in StoredTimes(p) /\ \A u \in StoredTimes(p) : u <= s

\* Every file is of a collection there was, at a second there was.
FilesInv ==
    \A p \in Proxies :
        /\ \A s \in StoredTimes(p) : s <= now /\ files[p][s].batch \in 1 .. batch
        /\ StoredTimes(p) # {} => \E s \in Seconds : NewestAt(p, s)
        /\ newest[p].batch <= batch

\* What is cached or on the screen is of a collection there was.
ReadersInv ==
    /\ held.row[1] <= batch
    /\ \A p \in Proxies :
          /\ cache[p].file.batch <= batch
          /\ cache[p].file # NoFile => cache[p].file.batch > 0

\* What is still to be written is newer than everything of its proxy.
AnswersInv ==
    \A p \in Proxies :
        answers[p] # NoFile =>
            /\ stage = "write" /\ answers[p].batch = batch /\ batch > 0
            /\ \A s \in StoredTimes(p) : files[p][s].batch < batch
            /\ newest[p].batch < batch
            /\ held.proxy = p => held.row[1] < batch

\* The last file written is the newest there is, and the only one of its batch.
NewestInv(p) ==
    /\ newest[p] = NoFile => StoredTimes(p) = {}
    /\ newest[p] # NoFile => \E s \in Seconds : NewestAt(p, s) /\ files[p][s] = newest[p]
    /\ \A s \in StoredTimes(p) : files[p][s].batch = newest[p].batch => NewestAt(p, s)

\* "latest" names it and the cache holds it, or "latest" could not be written.
NamesInv(p) ==
    p \notin unlinked =>
        /\ latest[p] \in StoredTimes(p) => NewestAt(p, latest[p])
        /\ cache[p] # NotCached => cache[p].file = newest[p]

\* Who holds its batch holds it at its second: in the cache,
CacheInv(p) ==
    cache[p].file # NoFile /\ cache[p].file.batch = newest[p].batch =>
        NewestAt(p, cache[p].at) /\ files[p][cache[p].at] = cache[p].file

\* and on the screen.
HeldInv(p) ==
    held.proxy = p /\ held.row # NoRow /\ held.row[1] = newest[p].batch =>
        \E s \in Seconds :
            /\ NewestAt(p, s)
            /\ held.id = RecordId(p, s, held.row[2])
            /\ held.row = <<files[p][s].batch, held.row[2]>>
            /\ held.row[2] < files[p][s].rows

StoreInv ==
    \A p \in Proxies \ torn : NewestInv(p) /\ NamesInv(p) /\ CacheInv(p) /\ HeldInv(p)

IInv == TypeOK /\ FilesInv /\ ReadersInv /\ AnswersInv /\ StoreInv

------------------------------------------------------------------------------
\* The greatest is the one that is there.
LEMMA MaxIs ==
    ASSUME NEW S \in SUBSET Int, NEW m \in S, \A u \in S : u <= m
    PROVE  Max(S) = m
<1>1. \A u \in S : (\A y \in S : u >= y) => u = m
  OBVIOUS
<1>2. \A y \in S : m >= y
  OBVIOUS
<1> QED BY <1>1, <1>2, Zenon DEF Max

\* A record id is a number.
LEMMA IdTypes ==
    ASSUME SizesAssumption, NEW p \in Proxies, NEW s \in Seconds, NEW l \in Nat
    PROVE  RecordId(p, s, l) \in Nat
<1>1. p % ProxySize \in Nat /\ s % TimeSize \in Nat /\ l % IndexSize \in Nat
  BY DEF SizesAssumption, Seconds
<1>2. \A a, b, c \in Nat : a * b + c \in Nat
  OBVIOUS
<1> DEFINE a == p % ProxySize  b == s % TimeSize  c == l % IndexSize
<1>3. a * TimeSize + b \in Nat
  BY <1>1, <1>2 DEF SizesAssumption
<1> HIDE DEF a, b, c
<1>4. (a * TimeSize + b) * IndexSize + c \in Nat
  BY <1>1, <1>2, <1>3 DEF SizesAssumption, c
<1> QED BY <1>4 DEF RecordId, a, b, c

\* What "latest" leads to is a file, if there is one.
LEMMA LatestIs ==
    ASSUME TypeOK, FilesInv, NEW p \in Proxies
    PROVE  /\ StoredTimes(p) \subseteq Seconds
           /\ StoredTimes(p) = {} => LatestOf(p) = NoTime
           /\ StoredTimes(p) # {} => LatestOf(p) \in StoredTimes(p)
           /\ \A s : NewestAt(p, s) /\ (latest[p] \in StoredTimes(p) => latest[p] = s)
                        => LatestOf(p) = s
<1>1. StoredTimes(p) \subseteq Seconds /\ StoredTimes(p) \in SUBSET Int
  BY DEF StoredTimes, Seconds
<1>2. \A s : NewestAt(p, s) => Max(StoredTimes(p)) = s
  BY <1>1, MaxIs DEF NewestAt
<1>3. StoredTimes(p) # {} => Max(StoredTimes(p)) \in StoredTimes(p)
  BY <1>2 DEF FilesInv, NewestAt
<1> QED BY <1>1, <1>2, <1>3 DEF LatestOf, NewestAt

\* There is one newest second.
LEMMA OneNewest ==
    ASSUME NEW p \in Proxies, NEW s \in Seconds, NEW u \in Seconds, NewestAt(p, s), NewestAt(p, u)
    PROVE  s = u
BY DEF NewestAt, Seconds

\* What is read is of a collection there was; and if it is of the last
\* successful one, it is its file.
LEMMA ViewIs ==
    ASSUME SizesAssumption, IInv, NEW p \in Proxies, NEW view \in {LatestView(p), Shown(p)}
    PROVE  /\ view \in {NoView} \cup [at : Seconds, file : Files \ {NoFile}]
           /\ view.file.batch <= batch
           /\ view.file # NoFile => view.file.batch > 0
           /\ p \notin torn /\ view.file # NoFile /\ view.file.batch = newest[p].batch =>
                 NewestAt(p, view.at) /\ files[p][view.at] = view.file
           /\ p \notin torn \cup unlinked => view.file = newest[p]
<1> USE DEF IInv
<1>1. LatestOf(p) \in Seconds => NoTime # LatestOf(p)
  BY DEF NoTime, Seconds
<1>2. CASE StoredTimes(p) = {} /\ view = LatestView(p)
  <2>1. view = NoView
    BY <1>2, LatestIs DEF LatestView
  <2>2. view.file = NoFile /\ NoFile.batch = 0
    BY <2>1 DEF NoView, NoFile
  <2>3. p \notin torn => newest[p] = NoFile
    BY <1>2 DEF StoreInv, NewestInv, NewestAt
  <2> QED BY <2>1, <2>2, <2>3 DEF TypeOK, SizesAssumption
<1>3. CASE StoredTimes(p) # {} /\ view = LatestView(p)
  <2>1. LatestOf(p) \in StoredTimes(p) /\ LatestOf(p) \in Seconds
    BY <1>3, LatestIs
  <2>2. view = [at |-> LatestOf(p), file |-> files[p][LatestOf(p)]]
    BY <2>1, <1>1, <1>3 DEF LatestView
  <2>3. view.file \in Files \ {NoFile} /\ view.file.batch \in 1 .. batch
    BY <2>1, <2>2 DEF TypeOK, StoredTimes, FilesInv
  <2>4. ASSUME p \notin torn, view.file.batch = newest[p].batch
        PROVE  NewestAt(p, view.at) /\ files[p][view.at] = view.file
    BY <2>1, <2>2, <2>4 DEF StoreInv, NewestInv
  <2>5. ASSUME p \notin torn \cup unlinked
        PROVE  view.file = newest[p]
    <3>1. PICK s \in Seconds : NewestAt(p, s) /\ files[p][s] = newest[p]
      BY <2>5, <1>3 DEF StoreInv, NewestInv
    <3>2. latest[p] \in StoredTimes(p) => latest[p] = s
      BY <2>5, <3>1, OneNewest, LatestIs DEF StoreInv, NamesInv
    <3> QED BY <3>1, <3>2, <2>2, LatestIs
  <2> QED BY <2>1, <2>2, <2>3, <2>4, <2>5, <1>3 DEF TypeOK
<1>4. CASE cache[p] # NotCached /\ view = cache[p]
  <2>1. view \in {NoView} \cup [at : Seconds, file : Files \ {NoFile}]
    BY <1>4 DEF TypeOK
  <2>2. /\ view.file.batch <= batch
        /\ view.file # NoFile => view.file.batch > 0
    BY <1>4 DEF ReadersInv
  <2>3. /\ p \notin torn /\ view.file # NoFile /\ view.file.batch = newest[p].batch =>
              NewestAt(p, view.at) /\ files[p][view.at] = view.file
        /\ p \notin torn \cup unlinked => view.file = newest[p]
    BY <1>4 DEF StoreInv, CacheInv, NamesInv
  <2> QED BY <2>1, <2>2, <2>3
<1> QED BY <1>2, <1>3, <1>4 DEF Shown

------------------------------------------------------------------------------
(* The steps.                                                              *)

\* In the beginning there is nothing.
LEMMA InitEstablishes == SizesAssumption /\ Init => IInv
<1> SUFFICES ASSUME SizesAssumption, Init PROVE IInv
  OBVIOUS
<1> USE DEF Init, SizesAssumption
<1>1. NoFile \in Files /\ NoHeld.row = NoRow /\ NoRow[1] = 0 /\ NoFile.batch = 0
  BY DEF NoFile, Files, NoHeld, NoRow
<1>2. TypeOK
  BY <1>1 DEF TypeOK, Seconds, NoTime
<1>3. \A p \in Proxies : StoredTimes(p) = {}
  BY DEF StoredTimes
<1>4. FilesInv /\ AnswersInv
  BY <1>1, <1>3 DEF FilesInv, AnswersInv
<1>5. ReadersInv
  BY <1>1 DEF ReadersInv, NotCached
<1>6. StoreInv
  BY <1>1, <1>3 DEF StoreInv, NewestInv, NamesInv, CacheInv, HeldInv, NotCached
<1> QED BY <1>2, <1>4, <1>5, <1>6 DEF IInv

\* A proxy whose files, names, cache and history a step leaves alone.
Unmoved(p) ==
    /\ files'[p] = files[p] /\ latest'[p] = latest[p] /\ cache'[p] = cache[p]
    /\ newest'[p] = newest[p] /\ held' = held
    /\ p \in torn' <=> p \in torn
    /\ p \in unlinked' <=> p \in unlinked

\* It stays as right as it was.
LEMMA UnmovedKeeps ==
    ASSUME StoreInv, NEW p \in Proxies \ torn', Unmoved(p)
    PROVE  (NewestInv(p) /\ NamesInv(p) /\ CacheInv(p) /\ HeldInv(p))'
<1>1. StoredTimes(p)' = StoredTimes(p) /\ p \notin torn
  BY DEF Unmoved, StoredTimes
<1>2. \A s : NewestAt(p, s)' <=> NewestAt(p, s)
  BY <1>1 DEF NewestAt
<1>3. NewestInv(p)'
  BY <1>1, <1>2 DEF StoreInv, NewestInv, Unmoved
<1>4. NamesInv(p)'
  BY <1>1, <1>2 DEF StoreInv, NamesInv, Unmoved
<1>5. CacheInv(p)'
  BY <1>1, <1>2 DEF StoreInv, CacheInv, Unmoved
<1>6. HeldInv(p)'
  BY <1>1, <1>2 DEF StoreInv, HeldInv, Unmoved
<1> QED BY <1>3, <1>4, <1>5, <1>6

\* The steps that leave the files of all proxies alone, and what was read.
LEMMA QuietKeeps ==
    ASSUME SizesAssumption, IInv, Collect \/ EndWrites \/ Tick \/ UNCHANGED vars
    PROVE  IInv'
<1> USE DEF IInv
<1>1. \A p \in Proxies : Unmoved(p)
  BY DEF Collect, EndWrites, Tick, vars, Unmoved, diskVars, historyVars
<1>2. StoreInv'
  BY <1>1, UnmovedKeeps DEF StoreInv
<1>3. /\ batch \in Nat /\ batch' \in Nat /\ now' \in Nat /\ batch <= batch' /\ now <= now'
      /\ files' = files /\ newest' = newest /\ cache' = cache /\ held' = held
  BY DEF Collect, EndWrites, Tick, vars, diskVars, historyVars, TypeOK, Seconds, SizesAssumption
<1>4. \A p \in Proxies : StoredTimes(p)' = StoredTimes(p)
                         /\ \A s : NewestAt(p, s)' <=> NewestAt(p, s)
  BY <1>3 DEF StoredTimes, NewestAt
<1>5. /\ \A p \in Proxies : /\ StoredTimes(p) \subseteq Seconds
                            /\ newest[p].batch \in Nat /\ cache[p].file.batch \in Nat
                            /\ \A s \in Seconds : files[p][s].batch \in Nat
      /\ held.row[1] \in Nat
  BY DEF TypeOK, Files, NotCached, NoView, NoFile, StoredTimes, NoHeld, NoRow
<1>6. FilesInv'
  BY <1>3, <1>4, <1>5 DEF FilesInv, TypeOK, Seconds
<1>7. ReadersInv'
  BY <1>3, <1>5 DEF ReadersInv
<1>8. TypeOK' /\ AnswersInv'
  <2>1. CASE Collect
    <3>1. batch' = batch + 1 /\ batch' \in 0 .. MaxBatches /\ stage' = "write"
      BY <2>1 DEF Collect, TypeOK, SizesAssumption
    <3>2. PICK ps \in SUBSET Proxies : \E n \in [ps -> 0 .. MaxRows] :
             answers' = [p \in Proxies |-> IF p \in ps THEN [batch |-> batch + 1, rows |-> n[p]]
                                           ELSE NoFile]
      BY <2>1 DEF Collect
    <3>6. PICK n \in [ps -> 0 .. MaxRows] :
             answers' = [p \in Proxies |-> IF p \in ps THEN [batch |-> batch + 1, rows |-> n[p]]
                                           ELSE NoFile]
      BY <3>2
    <3>3. /\ answers' = [p \in Proxies |-> answers'[p]]
          /\ \A p \in Proxies : answers'[p] \in Files /\ (answers'[p] # NoFile => answers'[p].batch = batch')
      BY <3>1, <3>6 DEF Files, NoFile, SizesAssumption, TypeOK
    <3>4. TypeOK'
      BY <2>1, <3>1, <3>3 DEF Collect, TypeOK, diskVars, historyVars
    <3>5. AnswersInv'
      BY <3>1, <3>3, <1>3, <1>4, <1>5 DEF AnswersInv, FilesInv, ReadersInv
    <3> QED BY <3>4, <3>5
  <2>2. CASE EndWrites
    <3>1. \A p \in Proxies : answers'[p] = NoFile
      BY <2>2 DEF EndWrites, ToWrite
    <3>2. TypeOK'
      BY <2>2 DEF EndWrites, TypeOK, diskVars, historyVars
    <3> QED BY <3>1, <3>2 DEF AnswersInv
  <2>3. CASE Tick
    <3>1. TypeOK'
      BY <2>3 DEF Tick, TypeOK, diskVars, historyVars, Seconds, SizesAssumption
    <3>2. AnswersInv'
      BY <2>3, <1>4 DEF AnswersInv, Tick, diskVars, historyVars
    <3> QED BY <3>1, <3>2
  <2>4. CASE UNCHANGED vars
    <3>1. TypeOK'
      BY <2>4 DEF vars, TypeOK
    <3>2. AnswersInv'
      BY <2>4, <1>4 DEF AnswersInv, vars
    <3> QED BY <3>1, <3>2
  <2> QED BY <2>1, <2>2, <2>3, <2>4
<1> QED BY <1>2, <1>6, <1>7, <1>8

\* To forget entries of the cache keeps what is known of the rest of it.
LEMMA BoundsKept ==
    ASSUME SizesAssumption, IInv, held' = held, batch' = batch,
           \/ cache' = cache
           \/ \E p \in Proxies : cache' = [cache EXCEPT ![p] = NotCached]
           \/ cache' = [q \in Proxies |-> NotCached]
    PROVE  /\ ReadersInv'
           /\ cache' \in [Proxies -> {NotCached, NoView} \cup [at : Seconds, file : Files \ {NoFile}]]
<1>1. NotCached.file = NoFile /\ NoFile.batch = 0 /\ batch \in Nat
  BY DEF NotCached, NoFile, IInv, TypeOK, SizesAssumption
<1>2. cache \in [Proxies -> {NotCached, NoView} \cup [at : Seconds, file : Files \ {NoFile}]]
  BY DEF IInv, TypeOK
<1>3. cache' \in [Proxies -> {NotCached, NoView} \cup [at : Seconds, file : Files \ {NoFile}]]
  BY <1>2
<1>4. \A q \in Proxies : cache'[q] = cache[q] \/ cache'[q] = NotCached
  BY <1>2
<1> QED BY <1>1, <1>3, <1>4 DEF ReadersInv, IInv

\* What a write of f for p at this second does to the files.
LEMMA PutIs ==
    ASSUME TypeOK, FilesInv, NEW p \in Proxies, NEW f \in Files, f # NoFile, Put(p, f)
    PROVE  /\ now \in Seconds /\ files'[p][now] = f
           /\ files' \in [Proxies -> [Seconds -> Files]]
           /\ \A q \in Proxies \ {p} : files'[q] = files[q] /\ StoredTimes(q)' = StoredTimes(q)
           /\ \A s \in Seconds : s # now => files'[p][s] = files[p][s]
           /\ StoredTimes(p)' = StoredTimes(p) \cup {now}
           /\ now' = now => NewestAt(p, now)'
<1>1. /\ now \in Seconds /\ files'[p][now] = f
      /\ files' \in [Proxies -> [Seconds -> Files]]
      /\ \A q \in Proxies \ {p} : files'[q] = files[q]
      /\ \A s \in Seconds : s # now => files'[p][s] = files[p][s]
  BY DEF Put, TypeOK
<1>2. \A q \in Proxies \ {p} : StoredTimes(q)' = StoredTimes(q)
  BY <1>1 DEF StoredTimes
<1>3. StoredTimes(p)' = StoredTimes(p) \cup {now}
  BY <1>1 DEF StoredTimes
<1>4. now' = now => NewestAt(p, now)'
  BY <1>1, <1>3 DEF NewestAt, FilesInv, Seconds
<1> QED BY <1>1, <1>2, <1>3, <1>4

\* What either end of a write leaves right of the files.
LEMMA PutKeepsFiles ==
    ASSUME SizesAssumption, IInv, NEW p \in Proxies, NEW f \in Files,
           answers[p] # NoFile, f.batch = answers[p].batch, Put(p, f), Wrote(p),
           now' = now, batch' = batch, stage' = stage, held' = held,
           \A q \in Proxies \ {p} : newest'[q] = newest[q],
           newest'[p] \in {newest[p], f}
    PROVE  FilesInv' /\ AnswersInv' /\ answers' \in [Proxies -> Files]
<1>1. f # NoFile /\ f.batch = batch /\ batch \in Nat \ {0} /\ newest[p].batch \in Nat
  BY DEF IInv, TypeOK, AnswersInv, NoFile, Files, SizesAssumption
<1>2. /\ answers' \in [Proxies -> Files] /\ answers'[p] = NoFile
      /\ \A q \in Proxies \ {p} : answers'[q] = answers[q]
  BY DEF Wrote, IInv, TypeOK, Files, NoFile, SizesAssumption
<1>3. \A q \in Proxies \ {p} : \A s : NewestAt(q, s)' <=> NewestAt(q, s)
  BY <1>1, PutIs DEF IInv, NewestAt
<1>4. FilesInv'
  <2> SUFFICES ASSUME NEW q \in Proxies
               PROVE  /\ \A s \in StoredTimes(q)' : s <= now' /\ files'[q][s].batch \in 1 .. batch'
                      /\ StoredTimes(q)' # {} => \E s \in Seconds : NewestAt(q, s)'
                      /\ newest'[q].batch <= batch'
    BY DEF FilesInv
  <2>1. CASE q = p
    <3>1. \A s \in StoredTimes(p)' : s \in Seconds
      BY DEF StoredTimes
    <3>2. \A s \in StoredTimes(p)' : s <= now' /\ files'[p][s].batch \in 1 .. batch'
      BY <1>1, <3>1, PutIs DEF IInv, FilesInv, Seconds
    <3> QED BY <1>1, <2>1, <3>2, PutIs DEF IInv, FilesInv
  <2>2. CASE q # p
    BY <1>1, <1>3, <2>2, PutIs DEF IInv, FilesInv
  <2> QED BY <2>1, <2>2
<1>5. AnswersInv'
  BY <1>1, <1>2, PutIs DEF IInv, AnswersInv
<1> QED BY <1>2, <1>4, <1>5

\* The file written is the newest, whether "latest" names it or not.
LEMMA WriteBatchKeeps ==
    ASSUME SizesAssumption, IInv, NEW p \in Proxies, WriteBatch(p)
    PROVE  IInv'
<1> USE DEF IInv
<1>1. /\ answers[p] # NoFile /\ answers[p] \in Files /\ answers[p].batch = batch
      /\ Put(p, answers[p]) /\ Wrote(p) /\ now' = now /\ batch' = batch /\ stage' = stage
      /\ held' = held /\ cache' = [cache EXCEPT ![p] = NotCached]
      /\ newest' = [newest EXCEPT ![p] = answers[p]] /\ torn' = torn \ {p}
      /\ unlinked' \in {unlinked \ {p}, unlinked \cup {p}}
      /\ latest' = [latest EXCEPT ![p] = now] \/ p \in unlinked'
      /\ latest' \in {latest, [latest EXCEPT ![p] = NoTime], [latest EXCEPT ![p] = now]}
  BY DEF WriteBatch, Invalidate, ToWrite, AnswersInv, TypeOK
<1>2. ReadersInv' /\ cache' \in [Proxies -> {NotCached, NoView} \cup [at : Seconds, file : Files \ {NoFile}]]
  BY <1>1, BoundsKept
<1>3. FilesInv' /\ AnswersInv' /\ answers' \in [Proxies -> Files]
  BY <1>1, PutKeepsFiles DEF TypeOK
<1>4. TypeOK'
  BY <1>1, <1>2, <1>3, PutIs DEF TypeOK
<1>5. \A q \in Proxies \ {p} : Unmoved(q)
  BY <1>1, PutIs DEF Unmoved, TypeOK
<1>6. /\ newest'[p] = answers[p] /\ cache'[p] = NotCached /\ batch > 0
      /\ latest'[p] = now \/ p \in unlinked'
      /\ \A s \in StoredTimes(p) : files[p][s].batch < batch
      /\ held.proxy = p => held.row[1] < batch
      /\ NotCached.file = NoFile /\ batch \in Nat
      /\ StoredTimes(p) \subseteq Seconds
  BY <1>1 DEF TypeOK, AnswersInv, NotCached, StoredTimes, SizesAssumption
<1>7. (NewestInv(p) /\ NamesInv(p) /\ CacheInv(p) /\ HeldInv(p))'
  <2>1. NewestInv(p)'
    BY <1>1, <1>6, PutIs DEF NewestInv
  <2>2. NamesInv(p)'
    BY <1>1, <1>6, PutIs DEF NamesInv
  <2>3. CacheInv(p)'
    BY <1>6 DEF CacheInv
  <2>4. HeldInv(p)'
    BY <1>1, <1>6 DEF HeldInv, TypeOK
  <2> QED BY <2>1, <2>2, <2>3, <2>4
<1>8. StoreInv'
  BY <1>5, <1>7, UnmovedKeeps DEF StoreInv
<1> QED BY <1>2, <1>3, <1>4, <1>8

\* A file cut short tears its proxy out of the promise.
LEMMA WriteFailsKeeps ==
    ASSUME SizesAssumption, IInv, NEW p \in Proxies, WriteFails(p)
    PROVE  IInv'
<1> USE DEF IInv
<1>1. PICK n \in 0 .. answers[p].rows : Put(p, [answers[p] EXCEPT !.rows = n])
  BY DEF WriteFails
<1> DEFINE f == [answers[p] EXCEPT !.rows = n]
<1>2. /\ answers[p] # NoFile /\ Wrote(p) /\ now' = now /\ batch' = batch /\ stage' = stage
      /\ held' = held /\ cache' = cache /\ newest' = newest /\ latest' = latest
      /\ torn' = torn \cup {p} /\ unlinked' = unlinked
  BY DEF WriteFails, ToWrite
<1>3. f \in Files /\ f.batch = answers[p].batch /\ f # NoFile
  BY <1>2 DEF TypeOK, Files, AnswersInv, SizesAssumption, NoFile
<1> HIDE DEF f
<1>4. Put(p, f)
  BY <1>1 DEF f
<1>5. FilesInv' /\ AnswersInv' /\ answers' \in [Proxies -> Files]
  BY <1>2, <1>3, <1>4, PutKeepsFiles
<1>6. ReadersInv' /\ cache' \in [Proxies -> {NotCached, NoView} \cup [at : Seconds, file : Files \ {NoFile}]]
  BY <1>2, BoundsKept
<1>7. TypeOK'
  BY <1>2, <1>3, <1>4, <1>5, PutIs DEF TypeOK
<1>8. \A q \in Proxies \ torn' : Unmoved(q)
  BY <1>2, <1>3, <1>4, PutIs DEF Unmoved
<1>9. StoreInv'
  BY <1>8, UnmovedKeeps DEF StoreInv
<1> QED BY <1>5, <1>6, <1>7, <1>9

\* Cleanup leaves the newest file of each proxy, and nothing else.
LEMMA CleanupIs ==
    ASSUME IInv, Cleanup, NEW p \in Proxies
    PROVE  /\ \A s : NewestAt(p, s) => StoredTimes(p)' = {s} /\ files'[p][s] = files[p][s]
                                       /\ NewestAt(p, s)'
           /\ StoredTimes(p) = {} => StoredTimes(p)' = {}
           /\ \A s \in StoredTimes(p)' : NewestAt(p, s) /\ files'[p][s] = files[p][s]
<1> USE DEF IInv
<1>1. /\ files \in [Proxies -> [Seconds -> Files]]
      /\ files' = [q \in Proxies |-> [s \in Seconds |-> IF s \in Kept(q) THEN files[q][s] ELSE NoFile]]
  BY DEF Cleanup, TypeOK
<1>2. StoredTimes(p) \subseteq Seconds /\ \A s : s \in Kept(p) <=> NewestAt(p, s)
  BY DEF StoredTimes, Kept, NewestAt
<1>3. StoredTimes(p)' = Kept(p) /\ \A s \in Kept(p) : files'[p][s] = files[p][s]
  BY <1>1, <1>2 DEF StoredTimes, Kept
<1>4. \A s, u : NewestAt(p, s) /\ NewestAt(p, u) => s = u
  BY <1>2, OneNewest DEF NewestAt
<1>5. \A s : NewestAt(p, s) => StoredTimes(p)' = {s}
  BY <1>2, <1>3, <1>4
<1>6. \A s : NewestAt(p, s) => NewestAt(p, s)'
  BY <1>2, <1>5 DEF NewestAt, Seconds
<1> QED BY <1>1, <1>2, <1>3, <1>5, <1>6 DEF Kept

\* What cleanup leaves "latest" to name is the newest.
LEMMA CleanupKeeps ==
    ASSUME SizesAssumption, IInv, Cleanup
    PROVE  IInv'
<1> USE DEF IInv
<1>1. /\ stage = "cleanup" /\ stage' = "idle" /\ now' = now /\ latest' = latest /\ cache' = cache
      /\ batch' = batch /\ answers' = answers /\ held' = held /\ newest' = newest /\ torn' = torn
      /\ unlinked' = {p \in unlinked : cache[p] # NotCached}
  BY DEF Cleanup
<1>2. \A p \in Proxies : answers[p] = NoFile
  BY <1>1 DEF AnswersInv
<1>3. AnswersInv' /\ ReadersInv'
  BY <1>1, <1>2 DEF AnswersInv, ReadersInv
<1>4. files' \in [Proxies -> [Seconds -> Files]]
  <2>1. 0 \in 0 .. MaxBatches /\ 0 \in 0 .. MaxRows
    BY DEF SizesAssumption
  <2>2. NoFile \in Files
    BY <2>1 DEF Files, NoFile
  <2> QED BY <2>2 DEF Cleanup, TypeOK
<1>5. TypeOK'
  BY <1>1, <1>4 DEF TypeOK
<1>6. FilesInv'
  <2> SUFFICES ASSUME NEW p \in Proxies
               PROVE  /\ \A s \in StoredTimes(p)' : s <= now' /\ files'[p][s].batch \in 1 .. batch'
                      /\ StoredTimes(p)' # {} => \E s \in Seconds : NewestAt(p, s)'
                      /\ newest'[p].batch <= batch'
    BY DEF FilesInv
  <2>1. \A s \in StoredTimes(p)' : s <= now' /\ files'[p][s].batch \in 1 .. batch'
    BY <1>1, CleanupIs DEF FilesInv, NewestAt
  <2>2. StoredTimes(p)' # {} => \E s \in Seconds : NewestAt(p, s)'
    BY CleanupIs DEF FilesInv
  <2> QED BY <1>1, <2>1, <2>2 DEF FilesInv
<1>7. ASSUME NEW p \in Proxies \ torn'
      PROVE  (NewestInv(p) /\ NamesInv(p) /\ CacheInv(p) /\ HeldInv(p))'
  <2>1. p \in Proxies \ torn /\ newest'[p] = newest[p] /\ cache'[p] = cache[p]
    BY <1>1, <1>7
  <2>2. NewestInv(p)'
    BY <2>1, CleanupIs DEF StoreInv, NewestInv
  <2>3. NamesInv(p)'
    <3>1. \A s \in StoredTimes(p)' : NewestAt(p, s)'
      BY CleanupIs
    <3>2. p \notin unlinked' => p \notin unlinked \/ cache[p] = NotCached
      BY <1>1
    <3> QED BY <1>1, <2>1, <3>1, <3>2 DEF StoreInv, NamesInv
  <2>4. CacheInv(p)'
    BY <2>1, CleanupIs DEF StoreInv, CacheInv
  <2>5. HeldInv(p)'
    BY <1>1, <2>1, CleanupIs DEF StoreInv, HeldInv
  <2> QED BY <2>2, <2>3, <2>4, <2>5
<1>8. StoreInv'
  BY <1>7 DEF StoreInv
<1> QED BY <1>3, <1>5, <1>6, <1>8

\* A row of what is read goes on the screen.
LEMMA HoldIs ==
    ASSUME SizesAssumption, IInv, NEW p \in Proxies, NEW view \in {LatestView(p), Shown(p)},
           Hold(p, view), stage = "idle"
    PROVE  /\ held' \in [id : Nat, proxy : Proxies, row : (1 .. MaxBatches) \X (0 .. MaxRows)]
           /\ held'.row[1] <= batch
           /\ held'.proxy = p
           /\ p \notin torn /\ held'.row[1] = newest[p].batch =>
                 \E s \in Seconds :
                    /\ NewestAt(p, s)
                    /\ held'.id = RecordId(p, s, held'.row[2])
                    /\ held'.row = <<files[p][s].batch, held'.row[2]>>
                    /\ held'.row[2] < files[p][s].rows
<1>1. PICK line \in 0 .. MaxRows :
         /\ line < view.file.rows
         /\ held' = [id |-> RecordId(p, view.at, line), proxy |-> p, row |-> <<view.file.batch, line>>]
  BY DEF Hold
<1>2. view.file # NoFile /\ view.at \in Seconds /\ view.file \in Files
      /\ view.file.batch <= batch /\ view.file.batch > 0
  <2>1. view.file # NoFile
    BY <1>1, ViewIs DEF NoFile
  <2>2. view # NoView
    BY <2>1 DEF NoView
  <2> QED BY <2>1, <2>2, ViewIs
<1>3. view.file.batch \in 1 .. MaxBatches
  BY <1>2 DEF IInv, TypeOK, SizesAssumption, Files
<1>4. RecordId(p, view.at, line) \in Nat
  <2>1. line \in Nat
    BY <1>1 DEF SizesAssumption
  <2>2. view.at \in Seconds
    BY <1>2
  <2> QED BY <2>1, <2>2, IdTypes
<1>5. held'.row[1] = view.file.batch /\ held'.row[2] = line /\ held'.row = <<view.file.batch, line>>
      /\ held'.id = RecordId(p, view.at, line) /\ held'.proxy = p
  BY <1>1
<1>6. ASSUME p \notin torn, view.file.batch = newest[p].batch
      PROVE  NewestAt(p, view.at) /\ files[p][view.at] = view.file
  BY <1>2, <1>6, ViewIs
<1>7. held' \in [id : Nat, proxy : Proxies, row : (1 .. MaxBatches) \X (0 .. MaxRows)]
  BY <1>1, <1>3, <1>4
<1> QED BY <1>1, <1>2, <1>5, <1>6, <1>7

\* A step that shows a row, or fills a cache of p with what is shown of it.
LEMMA ReadKeeps ==
    ASSUME SizesAssumption, IInv, NEW p \in Proxies, List(p) \/ Load(p)
    PROVE  IInv'
<1> USE DEF IInv
<1>1. /\ stage = "idle" /\ stage' = stage /\ now' = now /\ files' = files /\ latest' = latest
      /\ batch' = batch /\ answers' = answers /\ newest' = newest /\ torn' = torn
      /\ unlinked' = unlinked
      /\ cache' = cache \/ cache' = [cache EXCEPT ![p] = Shown(p)]
      /\ held' = held \/ Hold(p, LatestView(p)) \/ Hold(p, Shown(p))
  BY DEF List, Load, diskVars, historyVars
<1>2. \A q \in Proxies : answers[q] = NoFile
  BY <1>1 DEF AnswersInv
<1>3. cache' \in [Proxies -> {NotCached, NoView} \cup [at : Seconds, file : Files \ {NoFile}]]
  BY <1>1, ViewIs DEF TypeOK
<1>4. \A q \in Proxies : cache'[q] = cache[q] \/ (q = p /\ cache'[q] = Shown(p))
  BY <1>1 DEF TypeOK
<1>5. held' = held \/ ( /\ held' \in [id : Nat, proxy : Proxies, row : (1 .. MaxBatches) \X (0 .. MaxRows)]
                        /\ held'.row[1] <= batch /\ held'.proxy = p)
  BY <1>1, HoldIs
<1>6. TypeOK'
  BY <1>1, <1>3, <1>5 DEF TypeOK
<1>7. ReadersInv'
  BY <1>1, <1>4, <1>5, ViewIs DEF ReadersInv
<1>8. /\ \A q : StoredTimes(q)' = StoredTimes(q)
      /\ \A q, s : NewestAt(q, s)' <=> NewestAt(q, s)
  BY <1>1 DEF StoredTimes, NewestAt
<1>9. FilesInv' /\ AnswersInv'
  BY <1>1, <1>2, <1>8 DEF FilesInv, AnswersInv
<1>10. ASSUME NEW q \in Proxies \ torn'
       PROVE  (NewestInv(q) /\ NamesInv(q) /\ CacheInv(q) /\ HeldInv(q))'
  <2>1. q \in Proxies \ torn
    BY <1>1, <1>10
  <2>2. NewestInv(q)'
    BY <1>1, <1>8, <2>1 DEF StoreInv, NewestInv
  <2>3. NamesInv(q)'
    BY <1>1, <1>4, <1>8, <2>1, ViewIs DEF StoreInv, NamesInv
  <2>4. CacheInv(q)'
    BY <1>1, <1>4, <1>8, <2>1, ViewIs DEF StoreInv, CacheInv
  <2>5. HeldInv(q)'
    <3>1. CASE held' = held
      BY <1>1, <1>8, <2>1, <3>1 DEF StoreInv, HeldInv
    <3>2. CASE Hold(p, LatestView(p)) \/ Hold(p, Shown(p))
      BY <1>1, <1>8, <2>1, <3>2, HoldIs DEF HeldInv
    <3> QED BY <1>1, <3>1, <3>2
  <2> QED BY <2>2, <2>3, <2>4, <2>5
<1>11. StoreInv'
  BY <1>10 DEF StoreInv
<1> QED BY <1>6, <1>7, <1>9, <1>11

\* An entry of the cache goes, or all do with the process.
LEMMA ForgetKeeps ==
    ASSUME SizesAssumption, IInv, Crash \/ \E p \in Proxies : Expire(p)
    PROVE  IInv'
<1> USE DEF IInv
<1>1. /\ stage' = "idle" /\ (stage' = stage \/ \A q \in Proxies : answers'[q] = NoFile)
      /\ now' = now /\ files' = files /\ latest' = latest
      /\ batch' = batch /\ newest' = newest /\ torn' = torn
      /\ unlinked' = unlinked /\ held' = held
      /\ answers' = answers \/ answers' = [q \in Proxies |-> NoFile]
      /\ \/ \E p \in Proxies : cache' = [cache EXCEPT ![p] = NotCached]
         \/ cache' = [q \in Proxies |-> NotCached]
  BY DEF Crash, Expire, diskVars, historyVars
<1>2. \A q \in Proxies : answers'[q] = NoFile
  BY <1>1 DEF AnswersInv
<1>3. answers' \in [Proxies -> Files]
  <2>1. 0 \in 0 .. MaxBatches /\ 0 \in 0 .. MaxRows
    BY DEF SizesAssumption
  <2>2. NoFile \in Files
    BY <2>1 DEF Files, NoFile
  <2> QED BY <1>1, <2>2 DEF TypeOK
<1>4. ReadersInv' /\ cache' \in [Proxies -> {NotCached, NoView} \cup [at : Seconds, file : Files \ {NoFile}]]
  BY <1>1, BoundsKept
<1>5. TypeOK'
  BY <1>1, <1>3, <1>4 DEF TypeOK
<1>6. /\ \A q : StoredTimes(q)' = StoredTimes(q)
      /\ \A q, s : NewestAt(q, s)' <=> NewestAt(q, s)
  BY <1>1 DEF StoredTimes, NewestAt
<1>7. FilesInv' /\ AnswersInv'
  BY <1>1, <1>2, <1>6 DEF FilesInv, AnswersInv
<1>8. \A q \in Proxies : cache'[q] = cache[q] \/ cache'[q] = NotCached
  BY <1>1 DEF TypeOK
<1>9. ASSUME NEW q \in Proxies \ torn'
      PROVE  (NewestInv(q) /\ NamesInv(q) /\ CacheInv(q) /\ HeldInv(q))'
  <2>1. q \in Proxies \ torn
    BY <1>1, <1>9
  <2>2. NewestInv(q)' /\ HeldInv(q)'
    BY <1>1, <1>6, <2>1 DEF StoreInv, NewestInv, HeldInv
  <2>3. NamesInv(q)'
    BY <1>1, <1>6, <1>8, <2>1 DEF StoreInv, NamesInv
  <2>4. CacheInv(q)'
    BY <1>1, <1>6, <1>8, <2>1 DEF StoreInv, CacheInv, NotCached
  <2> QED BY <2>2, <2>3, <2>4
<1>10. StoreInv'
  BY <1>9 DEF StoreInv
<1> QED BY <1>4, <1>5, <1>7, <1>10

\* Every step keeps the invariant.
LEMMA NextKeeps == SizesAssumption /\ IInv /\ [Next]_vars => IInv'
BY QuietKeeps, WriteBatchKeeps, WriteFailsKeeps, CleanupKeeps, ReadKeeps, ForgetKeeps DEF Next

------------------------------------------------------------------------------
(* Record ids.                                                             *)

\* What was packed is unpacked.
LEMMA DivModIs ==
    ASSUME NEW a \in Nat, NEW n \in Nat \ {0}, NEW b \in Nat, b < n
    PROVE  (a * n + b) % n = b /\ (a * n + b) \div n = a
<1> DEFINE x == a * n + b
           q == x \div n
           r == x % n
<1>1. x \in Nat
  OBVIOUS
<1> HIDE DEF x
<1>2. q \in Int /\ r \in 0 .. n - 1 /\ x = n * q + r
  BY <1>1
<1> HIDE DEF q, r
<1>3. n * q + r = n * a + b
  BY <1>2 DEF x
<1>4. ~(q <= a - 1)
  <2> SUFFICES ASSUME q <= a - 1 PROVE FALSE
    OBVIOUS
  <2>1. n * q <= n * (a - 1)
    BY <1>2
  <2>2. n * (a - 1) = n * a - n
    OBVIOUS
  <2>3. n * q \in Int /\ n * a \in Int
    BY <1>2
  <2> QED BY <2>1, <2>2, <2>3, <1>2, <1>3
<1>5. ~(q >= a + 1)
  <2> SUFFICES ASSUME q >= a + 1 PROVE FALSE
    OBVIOUS
  <2>1. n * q >= n * (a + 1)
    BY <1>2
  <2>2. n * (a + 1) = n * a + n
    OBVIOUS
  <2>3. n * q \in Int /\ n * a \in Int
    BY <1>2
  <2> QED BY <2>1, <2>2, <2>3, <1>2, <1>3
<1>6. q = a
  BY <1>2, <1>4, <1>5
<1>7. r = b
  BY <1>2, <1>3, <1>6
<1> QED BY <1>6, <1>7 DEF q, r, x

\* Proxies and seconds that a record id has room for.
IdsHaveRoom == (\A p \in Proxies : p < ProxySize) /\ MaxTime < TimeSize

\* The id of a line leads back to it.
LEMMA IdLeadsBack ==
    ASSUME SizesAssumption, IdsHaveRoom, NEW p \in Proxies, NEW s \in Seconds,
           NEW l \in Nat, l < IndexSize
    PROVE  /\ ProxyOf(RecordId(p, s, l)) = p
           /\ SecondOf(RecordId(p, s, l)) = s
           /\ LineOf(RecordId(p, s, l)) = l
<1>1. /\ p \in Nat /\ p < ProxySize /\ s \in Nat /\ s < TimeSize
      /\ ProxySize \in Nat \ {0} /\ TimeSize \in Nat \ {0} /\ IndexSize \in Nat \ {0}
  BY DEF SizesAssumption, IdsHaveRoom, Seconds
<1>2. p % ProxySize = p /\ s % TimeSize = s /\ l % IndexSize = l
  BY <1>1
<1> DEFINE m == p * TimeSize + s
<1>3. m \in Nat
  BY <1>1
<1>4. m % TimeSize = s /\ m \div TimeSize = p
  BY <1>1, DivModIs
<1> HIDE DEF m
<1>5. RecordId(p, s, l) = m * IndexSize + l
  BY <1>2 DEF RecordId, m
<1>6. (m * IndexSize + l) % IndexSize = l /\ (m * IndexSize + l) \div IndexSize = m
  BY <1>1, <1>3, DivModIs
<1>7. RecordId(p, s, l) \div (IndexSize * TimeSize) = p
  <2>1. RecordId(p, s, l) = p * (IndexSize * TimeSize) + (s * IndexSize + l)
    <3>1. (p * TimeSize + s) * IndexSize = p * (IndexSize * TimeSize) + s * IndexSize
      BY <1>1
    <3>2. p * (IndexSize * TimeSize) \in Int /\ s * IndexSize \in Int
      BY <1>1
    <3> QED BY <3>1, <3>2, <1>5 DEF m
  <2>2. IndexSize * TimeSize \in Nat \ {0}
    BY <1>1
  <2>3. s * IndexSize + l \in Nat
    BY <1>1
  <2>4. s * IndexSize + l < IndexSize * TimeSize
    <3>1. (s + 1) * IndexSize <= TimeSize * IndexSize
      BY <1>1
    <3>2. (s + 1) * IndexSize = s * IndexSize + IndexSize /\ TimeSize * IndexSize = IndexSize * TimeSize
      BY <1>1
    <3>3. s * IndexSize \in Int /\ IndexSize * TimeSize \in Int
      BY <1>1
    <3> QED BY <3>1, <3>2, <3>3, <1>1
  <2> DEFINE n == IndexSize * TimeSize
             b == s * IndexSize + l
  <2> HIDE DEF n, b
  <2>5. (p * n + b) \div n = p
    BY <2>2, <2>3, <2>4, <1>1, DivModIs DEF n, b
  <2> QED BY <2>1, <2>5 DEF n, b
<1> QED BY <1>4, <1>5, <1>6, <1>7 DEF ProxyOf, SecondOf, LineOf

------------------------------------------------------------------------------
(* The theorems.                                                           *)

(***************************************************************************)
(* Every reachable state of the store is well typed.                       *)
(***************************************************************************)
THEOREM StoreTypes == SizesAssumption => (Spec => []TypeOK)
<1> SUFFICES ASSUME SizesAssumption PROVE Spec => []TypeOK
  OBVIOUS
<1>1. Init => IInv
  BY InitEstablishes
<1>2. IInv /\ [Next]_vars => IInv'
  BY NextKeeps
<1>3. IInv => TypeOK
  BY DEF IInv
<1> QED BY <1>1, <1>2, <1>3, PTL DEF Spec

(***************************************************************************)
(* Whatever write fails and whenever the process dies, the tables show     *)
(* what was last collected of a proxy, but for its own failed write and a  *)
(* "latest" not written since its last cleanup (write_batch, read_latest,  *)
(* cleanup_old_batches and the session cache).                             *)
(***************************************************************************)
THEOREM TablesShowNewest == SizesAssumption => (Spec => []NewestIsShown)
<1> SUFFICES ASSUME SizesAssumption PROVE Spec => []NewestIsShown
  OBVIOUS
<1>1. Init => IInv
  BY InitEstablishes
<1>2. IInv /\ [Next]_vars => IInv'
  BY NextKeeps
<1>3. IInv => NewestIsShown
  BY ViewIs DEF NewestIsShown
<1> QED BY <1>1, <1>2, <1>3, PTL DEF Spec

(***************************************************************************)
(* With room for proxies and seconds in a record id, a row on the screen   *)
(* opens until its proxy is collected again: neither its cleanup nor that  *)
(* of another proxy takes its file, and its id leads back to its line      *)
(* (build_record_id, read_item_by_id).                                     *)
(***************************************************************************)
THEOREM ShownRowsOpen == SizesAssumption /\ IdsHaveRoom => (Spec => []DetailsOpen)
<1> SUFFICES ASSUME SizesAssumption, IdsHaveRoom PROVE Spec => []DetailsOpen
  OBVIOUS
<1>1. Init => IInv
  BY InitEstablishes
<1>2. IInv /\ [Next]_vars => IInv'
  BY NextKeeps
<1>3. IInv => DetailsOpen
  <2> SUFFICES ASSUME IInv, NEW p \in Proxies \ torn, held.proxy = p, held.row # NoRow,
                      held.row[1] = newest[p].batch, held.row[2] < IndexSize
               PROVE  Item(held.id) = held.row
    BY DEF DetailsOpen
  <2>1. held.row[2] \in Nat
    BY DEF IInv, TypeOK, NoHeld, SizesAssumption
  <2>2. PICK s \in Seconds :
           /\ NewestAt(p, s)
           /\ held.id = RecordId(p, s, held.row[2])
           /\ held.row = <<files[p][s].batch, held.row[2]>>
           /\ held.row[2] < files[p][s].rows
    BY DEF IInv, StoreInv, HeldInv
  <2>3. ASSUME NEW l \in Nat, l = held.row[2]
        PROVE  Item(held.id) = RowOf(files[p][s], l)
    BY <2>2, <2>3, IdLeadsBack DEF Item
  <2>4. Item(held.id) = RowOf(files[p][s], held.row[2])
    BY <2>1, <2>3
  <2> QED BY <2>2, <2>4 DEF RowOf
<1> QED BY <1>1, <1>2, <1>3, PTL DEF Spec
=============================================================================

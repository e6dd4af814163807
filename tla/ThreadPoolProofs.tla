-------------------------- MODULE ThreadPoolProofs ---------------------------
(* That the ring with its two condition variables is a bounded queue, that *)
(* each job is run once, and that Wait returns the results of its own      *)
(* jobs: for every number of callers, workers, messages and promises, and  *)
(* for jobs that queue jobs.                                               *)
EXTENDS ThreadPool, SequenceTheorems, FiniteSetTheorems, TLAPS

(* Where each thread may be, and what it has with it there. *)
PlacesSound ==
  /\ \A c \in Callers : pc[c] \in {"idle", "push", "pushed", "waiting", "waited"}
  /\ \A w \in Workers : /\ pc[w] \notin {"idle", "stop", "deleted"}
                        /\ taken[w] = None <=> pc[w] = "pop"
                        /\ pc[w] \notin {"pop", "popped", "exited"} => taken[w] \in Jobs
                        /\ pc[w] = "exited" => taken[w] = STOP
  /\ pc[Owner] \in {"idle", "stop", "push", "pushed", "deleted"}
  /\ \A t \in Threads : msg[t] = None <=> pc[t] # "push"
  /\ \A c \in Clients : pc[c] = "push" =>
       msg[c] \in Jobs /\ msg[c].caller = c /\ msg[c].number = queued[c]
  /\ pc[Owner] = "push" => msg[Owner] = STOP

(* A job that has been queued and not run yet; the one that its client is  *)
(* about to push is its latest.                                            *)
Pending(j) ==
  /\ j.number \in 1 .. queued[j.caller]
  /\ <<j.caller, j.number>> \notin ran
  /\ pc[j.caller] = "push" => j.number # queued[j.caller]

Differ(j, k) == j.caller # k.caller \/ j.number # k.number

(* Jobs in the queue and in workers' hands are pending, and different. *)
QueuedPending == \A i \in 1 .. Len(Contents) :
  Contents[i] \in Messages /\ (Contents[i] \in Jobs => Pending(Contents[i]))
TakenPending == \A w \in Workers : taken[w] \in Jobs => Pending(taken[w])
QueuedDiffer == \A i, k \in 1 .. Len(Contents) :
  Contents[i] \in Jobs /\ Contents[k] \in Jobs /\ i # k => Differ(Contents[i], Contents[k])
QueuedTakenDiffer == \A i \in 1 .. Len(Contents), w \in Workers :
  Contents[i] \in Jobs /\ taken[w] \in Jobs => Differ(Contents[i], taken[w])
TakenDiffer == \A u, w \in Workers :
  taken[u] \in Jobs /\ taken[w] \in Jobs /\ u # w => Differ(taken[u], taken[w])
RanWereQueued == \A c \in Clients, n \in Numbers : <<c, n>> \in ran =>
  n \in 1 .. queued[c] /\ (pc[c] = "push" => n # queued[c])

JobsSound == /\ QueuedPending /\ TakenPending
             /\ QueuedDiffer /\ QueuedTakenDiffer /\ TakenDiffer
             /\ RanWereQueued

(* The promise of a job on its way is handed out and not fulfilled. *)
Promised(j) ==
  j.slot # 0 => /\ j.slot <= nJobs[j.caller]
                /\ pairs[j.caller][j.slot].for = j.number
                /\ pairs[j.caller][j.slot].by = 0

MsgPromised == \A c \in Clients : msg[c] \in Jobs => Promised(msg[c])
QueuedPromised == \A i \in 1 .. Len(Contents) : Contents[i] \in Jobs => Promised(Contents[i])
TakenPromised == \A w \in Workers : taken[w] \in Jobs => Promised(taken[w])
PairsSound == \A c \in Clients : \A i \in 1 .. MaxSlots :
  /\ i > nJobs[c] => pairs[c][i].by = 0
  /\ pairs[c][i].by # 0 => pairs[c][i].by = pairs[c][i].for /\ <<c, pairs[c][i].for>> \in ran
WaitedDone == \A c \in Clients : \A i \in 1 .. MaxSlots :
  pc[c] = "waited" /\ i <= nJobs[c] => pairs[c][i].by # 0

PromisesSound == MsgPromised /\ QueuedPromised /\ TakenPromised /\ PairsSound /\ WaitedDone

(* A caller's job is somewhere until it has been run. *)
Accounted(c, n) ==
  \/ pc[c] = "push" /\ n = queued[c]
  \/ \E i \in 1 .. Len(Contents) :
       Contents[i] \in Jobs /\ Contents[i].caller = c /\ Contents[i].number = n
  \/ \E w \in Workers : taken[w] \in Jobs /\ taken[w].caller = c /\ taken[w].number = n
  \/ <<c, n>> \in ran

StopsAt == {i \in 1 .. Len(Contents) : Contents[i] = STOP}
Stopped == {w \in Workers : taken[w] = STOP}

(* Every THREAD_STOP is with the owner, in the queue or with a worker; the *)
(* owner begins when the callers are through.                              *)
OwnerSound ==
  /\ stops = Cardinality(StopsAt) + Cardinality(Stopped) + (IF pc[Owner] = "push" THEN 1 ELSE 0)
  /\ pc[Owner] = "idle" => stops = 0
  /\ pc[Owner] # "idle" => \A c \in Callers : pc[c] = "idle"
  /\ pc[Owner] = "deleted" => stops = Cardinality(Workers) /\ \A w \in Workers : pc[w] = "exited"

(* The THREAD_STOPs are behind all that the callers have queued. *)
StopsBehind == \A i \in 1 .. Len(Contents) :
  Contents[i] \in Jobs /\ Contents[i].caller \in Callers =>
    Stopped = {} /\ \A k \in StopsAt : i < k

NothingLost == \A c \in Callers : \A n \in 1 .. queued[c] : Accounted(c, n)

StopsSound == OwnerSound /\ StopsBehind /\ NothingLost

IInv == TypeOK /\ PlacesSound /\ JobsSound /\ PromisesSound /\ StopsSound

-----------------------------------------------------------------------------
(* The ring *)

(* Remainders and what lies in a ring of C slots, in symbols that the      *)
(* solver need not look into.                                              *)
Mod(x, C) == x % C
View(C, a, low, n) == [i \in 1 .. n |-> a[Mod(low + i - 1, C)]]

LEMMA Wraps ==
  ASSUME NEW C \in Nat \ {0}, NEW x \in Nat, x < C + C
  PROVE  Mod(x, C) = IF x < C THEN x ELSE x - C
<1>1. CASE x < C
  BY <1>1, SMT DEF Mod
<1>2. CASE x >= C
  BY <1>2, SMT DEF Mod
<1> QED
  BY <1>1, <1>2

LEMMA FunctionIsSequence ==
  ASSUME NEW S, NEW n \in Nat, NEW f \in [1 .. n -> S]
  PROVE  f \in Seq(S) /\ Len(f) = n
<1>1. f \in Seq(S)
  BY SeqDef
<1>2. DOMAIN f = 1 .. n
  OBVIOUS
<1>3. Len(f) \in Nat /\ DOMAIN f = 1 .. Len(f)
  BY <1>1, LenProperties
<1> QED
  BY <1>1, <1>2, <1>3

(* The conclusions of the next lemmas have names, so that the provers can  *)
(* match them before they look into them.                                  *)
Shows(s, S, C, a, low, n) == /\ s \in Seq(S) /\ Len(s) = n
                             /\ \A i \in 1 .. n : s[i] = a[Mod(low + i - 1, C)]

LEMMA ViewIsSequence ==
  ASSUME NEW C \in Nat \ {0}, NEW S, NEW a \in [0 .. C - 1 -> S], NEW low \in 0 .. C - 1,
         NEW n \in 0 .. C
  PROVE  Shows(View(C, a, low, n), S, C, a, low, n)
<1>1. \A i \in 1 .. n : Mod(low + i - 1, C) \in 0 .. C - 1
  BY Wraps
<1>2. View(C, a, low, n) \in [1 .. n -> S]
  BY <1>1 DEF View
<1>3. View(C, a, low, n) \in Seq(S) /\ Len(View(C, a, low, n)) = n
  BY <1>2, FunctionIsSequence
<1>4. \A i \in 1 .. n : View(C, a, low, n)[i] = a[Mod(low + i - 1, C)]
  BY DEF View
<1> QED
  BY <1>3, <1>4, Zenon DEF Shows

LEMMA SameSequence ==
  ASSUME NEW S, NEW r \in Seq(S), NEW s \in Seq(S), Len(r) = Len(s),
         \A i \in 1 .. Len(r) : r[i] = s[i]
  PROVE  r = s
OBVIOUS

(* One more at the upper end. *)
Appended(C, a, low, n, high, m) ==
  /\ View(C, [a EXCEPT ![high] = m], low, n + 1) = Append(View(C, a, low, n), m)
  /\ high \in 0 .. C - 1 /\ Mod(high + 1, C) \in 0 .. C - 1
  /\ Mod(high + 1, C) = Mod(low + (n + 1), C)

LEMMA ViewAppended ==
  ASSUME NEW C \in Nat \ {0}, NEW S, NEW a \in [0 .. C - 1 -> S], NEW low \in 0 .. C - 1,
         NEW n \in 0 .. C - 1, NEW m \in S, NEW high, high = Mod(low + n, C)
  PROVE  Appended(C, a, low, n, high, m)
<1>1. \A x \in Nat : x < C + C => Mod(x, C) = IF x < C THEN x ELSE x - C
  BY Wraps
<1>2. high = (IF low + n < C THEN low + n ELSE low + n - C) /\ high \in 0 .. C - 1
  BY <1>1
<1>3. Mod(high + 1, C) \in 0 .. C - 1
  BY <1>1, <1>2
<1>4. Mod(high + 1, C) = Mod(low + (n + 1), C)
  BY <1>1, <1>2
<1>5. [a EXCEPT ![high] = m] \in [0 .. C - 1 -> S]
  BY <1>2
<1> DEFINE s == View(C, a, low, n)
           r == View(C, [a EXCEPT ![high] = m], low, n + 1)
<1>0. n \in 0 .. C /\ n + 1 \in 0 .. C
  OBVIOUS
<1>s. Shows(s, S, C, a, low, n)
  BY <1>0, ViewIsSequence, Zenon
<1>r. Shows(r, S, C, [a EXCEPT ![high] = m], low, n + 1)
  BY <1>0, <1>5, ViewIsSequence, Zenon
<1> HIDE DEF s, r
<1>6. /\ s \in Seq(S) /\ Len(s) = n
      /\ \A i \in 1 .. n : s[i] = a[Mod(low + i - 1, C)]
  BY <1>s, Zenon DEF Shows
<1>7. /\ r \in Seq(S) /\ Len(r) = n + 1
      /\ \A i \in 1 .. n + 1 : r[i] = [a EXCEPT ![high] = m][Mod(low + i - 1, C)]
  BY <1>r, Zenon DEF Shows
<1>8. ASSUME NEW i \in 1 .. n PROVE r[i] = s[i]
  <2>1. Mod(low + i - 1, C) \in 0 .. C - 1 /\ Mod(low + i - 1, C) # high
    BY <1>1, <1>2
  <2> QED
    BY <1>6, <1>7, <2>1
<1>9. r[n + 1] = m
  <2>1. low + (n + 1) - 1 = low + n
    OBVIOUS
  <2> QED
    BY <1>2, <1>7, <2>1
<1>10. r = Append(s, m)
  <2>1. /\ Append(s, m) \in Seq(S) /\ Len(Append(s, m)) = n + 1
        /\ Append(s, m)[n + 1] = m /\ \A i \in 1 .. n : Append(s, m)[i] = s[i]
    BY <1>6
  <2> QED
    BY <1>6, <1>7, <1>8, <1>9, <2>1, SameSequence
<1> QED
  BY <1>2, <1>3, <1>4, <1>10, Zenon DEF s, r, Appended

(* One less at the lower end. *)
Shortened(C, a, low, n) ==
  /\ View(C, a, Mod(low + 1, C), n - 1) = Tail(View(C, a, low, n))
  /\ Head(View(C, a, low, n)) = a[low] /\ View(C, a, low, n) # <<>>
  /\ Mod(low + 1, C) \in 0 .. C - 1
  /\ Mod(low + n, C) = Mod(Mod(low + 1, C) + (n - 1), C)

LEMMA ViewShortened ==
  ASSUME NEW C \in Nat \ {0}, NEW S, NEW a \in [0 .. C - 1 -> S], NEW low \in 0 .. C - 1,
         NEW n \in 1 .. C
  PROVE  Shortened(C, a, low, n)
<1>1. \A x \in Nat : x < C + C => Mod(x, C) = IF x < C THEN x ELSE x - C
  BY Wraps
<1>2. PICK up : up = Mod(low + 1, C)
  OBVIOUS
<1>3. up = (IF low + 1 < C THEN low + 1 ELSE low + 1 - C) /\ up \in 0 .. C - 1
  BY <1>1, <1>2
<1>4. Mod(low + n, C) = Mod(up + (n - 1), C)
  BY <1>1, <1>3
<1> DEFINE s == View(C, a, low, n)
           r == View(C, a, up, n - 1)
<1>0. n \in 0 .. C /\ n - 1 \in 0 .. C
  OBVIOUS
<1>s. Shows(s, S, C, a, low, n)
  BY <1>0, ViewIsSequence, Zenon
<1>r. Shows(r, S, C, a, up, n - 1)
  BY <1>0, <1>3, ViewIsSequence, Zenon
<1> HIDE DEF s, r
<1>5. /\ s \in Seq(S) /\ Len(s) = n
      /\ \A i \in 1 .. n : s[i] = a[Mod(low + i - 1, C)]
  BY <1>s, Zenon DEF Shows
<1>6. /\ r \in Seq(S) /\ Len(r) = n - 1
      /\ \A i \in 1 .. n - 1 : r[i] = a[Mod(up + i - 1, C)]
  BY <1>r, Zenon DEF Shows
<1>7. s # <<>> /\ Head(s) = a[low]
  <2>1. s[1] = a[low]
    <3>1. Mod(low + 1 - 1, C) = low
      BY <1>1
    <3> QED
      BY <1>5, <3>1
  <2> QED
    BY <1>5, <2>1
<1>8. ASSUME NEW i \in 1 .. n - 1 PROVE r[i] = s[i + 1]
  <2>1. Mod(up + i - 1, C) = Mod(low + (i + 1) - 1, C)
    BY <1>1, <1>3
  <2> QED
    BY <1>5, <1>6, <2>1
<1>9. r = Tail(s)
  <2>1. /\ Tail(s) \in Seq(S) /\ Len(Tail(s)) = n - 1
        /\ \A i \in 1 .. n - 1 : Tail(s)[i] = s[i + 1]
    BY <1>5, <1>7
  <2> QED
    BY <1>6, <1>8, <2>1, SameSequence
<1> QED
  BY <1>2, <1>3, <1>4, <1>7, <1>9 DEF s, r, Shortened

RingSound == RingOK /\ array \in [Slots -> Messages \cup {None}]

LEMMA RingContents ==
  ASSUME RingSound
  PROVE  /\ Contents \in Seq(Messages \cup {None}) /\ Len(Contents) = size
         /\ Contents = View(Capacity, array, tail, size)
         /\ size \in 0 .. Capacity /\ Capacity \in Nat \ {0}
<1>1. /\ Capacity \in Nat \ {0} /\ tail \in 0 .. Capacity - 1 /\ size \in 0 .. Capacity
      /\ array \in [0 .. Capacity - 1 -> Messages \cup {None}]
  BY CapacityAssumption DEF RingSound, RingOK, Slots
<1>2. Contents = View(Capacity, array, tail, size)
  BY Zenon DEF Contents, View, Mod
<1>3. Shows(Contents, Messages \cup {None}, Capacity, array, tail, size)
  BY <1>1, <1>2, ViewIsSequence, Zenon
<1> QED
  BY <1>1, <1>2, <1>3, Zenon DEF Shows

LEMMA RingStays ==
  ASSUME RingSound, UNCHANGED ring
  PROVE  RingSound' /\ Contents' = Contents
BY DEF RingSound, RingOK, Slots, Contents, ring

(* push_front appends to the contents, and finds room for it. *)
LEMMA PushAppends ==
  ASSUME RingSound, NEW t, NEW m \in Messages, Push(t, m)
  PROVE  /\ RingSound' /\ Contents' = Append(Contents, m) /\ Len(Contents) < Capacity
         /\ UNCHANGED <<notFull, notEmpty>>
<1>1. /\ size # Capacity /\ array' = [array EXCEPT ![head] = m] /\ head' = Mod(head + 1, Capacity)
      /\ size' = size + 1 /\ UNCHANGED <<tail, notFull, notEmpty>>
  BY DEF Push, Full, Succ, Mod
<1>2. /\ Contents = View(Capacity, array, tail, size) /\ Len(Contents) = size
      /\ size \in 0 .. Capacity - 1 /\ Capacity \in Nat \ {0}
      /\ tail \in 0 .. Capacity - 1 /\ head = Mod(tail + size, Capacity)
      /\ array \in [0 .. Capacity - 1 -> Messages \cup {None}]
  BY <1>1, RingContents, SMTT(30) DEF RingSound, RingOK, Slots, Mod
<1>3. Appended(Capacity, array, tail, size, head, m)
  BY <1>2, m \in Messages \cup {None}, ViewAppended, Zenon
<1>6. /\ View(Capacity, array', tail, size + 1) = Append(Contents, m)
      /\ head' \in 0 .. Capacity - 1 /\ head' = Mod(tail + (size + 1), Capacity)
  BY <1>1, <1>2, <1>3 DEF Appended
<1>4. Contents' = View(Capacity, array', tail', size')
  BY Zenon DEF Contents, View, Mod
<1>5. RingSound'
  <2>1. head' = (tail' + size') % Capacity
    BY <1>1, <1>6, Zenon DEF Mod
  <2>2. head' \in 0 .. Capacity - 1 /\ tail' \in 0 .. Capacity - 1
    BY <1>1, <1>2, <1>6, Zenon
  <2>3. size' \in 0 .. Capacity
    BY <1>1, <1>2
  <2>4. array' \in [0 .. Capacity - 1 -> Messages \cup {None}]
    BY <1>1, <1>2, m \in Messages \cup {None}, Zenon
  <2> QED
    BY <2>1, <2>2, <2>3, <2>4, Zenon DEF RingSound, RingOK, Slots
<1>7. Contents' = Append(Contents, m)
  BY <1>1, <1>4, <1>6, Zenon
<1>8. Len(Contents) < Capacity
  BY <1>2
<1> QED
  BY <1>1, <1>5, <1>7, <1>8, Zenon

(* pop_back takes the first of the contents. *)
LEMMA PopTakesHead ==
  ASSUME RingSound, NEW t, NEW m, Pop(t, m)
  PROVE  /\ RingSound' /\ Contents # <<>> /\ m = Head(Contents) /\ Contents' = Tail(Contents)
         /\ UNCHANGED <<notFull, notEmpty>>
<1>1. /\ size # 0 /\ m = array[tail] /\ tail' = Mod(tail + 1, Capacity)
      /\ size' = size - 1 /\ UNCHANGED <<array, head, notFull, notEmpty>>
  BY DEF Pop, Empty, Succ, Mod
<1>2. /\ Contents = View(Capacity, array, tail, size)
      /\ size \in 1 .. Capacity /\ Capacity \in Nat \ {0}
      /\ tail \in 0 .. Capacity - 1 /\ head = Mod(tail + size, Capacity)
      /\ array \in [0 .. Capacity - 1 -> Messages \cup {None}]
  BY <1>1, RingContents DEF RingSound, RingOK, Slots, Mod
<1>3. Shortened(Capacity, array, tail, size)
  BY <1>2, ViewShortened, Zenon
<1>6. /\ View(Capacity, array, tail', size - 1) = Tail(Contents)
      /\ m = Head(Contents) /\ Contents # <<>>
      /\ tail' \in 0 .. Capacity - 1 /\ head = Mod(tail' + (size - 1), Capacity)
  BY <1>1, <1>2, <1>3 DEF Shortened
<1>4. Contents' = View(Capacity, array', tail', size')
  BY Zenon DEF Contents, View, Mod
<1>5. RingSound'
  <2>1. head' = (tail' + size') % Capacity
    BY <1>1, <1>6, Zenon DEF Mod
  <2>2. head' \in 0 .. Capacity - 1 /\ tail' \in 0 .. Capacity - 1
    <3>1. head \in 0 .. Capacity - 1
      BY DEF RingSound, RingOK, Slots
    <3> QED
      BY <1>1, <1>6, <3>1
  <2>3. size' \in 0 .. Capacity
    BY <1>1, <1>2
  <2>4. array' \in [0 .. Capacity - 1 -> Messages \cup {None}]
    <3>1. array' = array
      BY <1>1
    <3> QED
      BY <1>2, <3>1, Zenon
  <2> QED
    BY <2>1, <2>2, <2>3, <2>4, Zenon DEF RingSound, RingOK, Slots
<1> QED
  BY <1>1, <1>4, <1>5, <1>6
-----------------------------------------------------------------------------
(* Types and places *)

LEMMA Names ==
  /\ Jobs \subseteq Messages /\ STOP \in Messages /\ STOP \notin Jobs /\ None \notin Messages
  /\ \A m \in Messages : m \in Jobs \/ m = STOP
  /\ \A j \in Jobs : j.caller \in Clients /\ j.number \in Numbers /\ j.slot \in 0 .. MaxSlots
  /\ \A c \in Clients, n \in Numbers, s \in 0 .. MaxSlots :
       Job(c, n, s) \in Jobs /\ Job(c, n, s).caller = c /\ Job(c, n, s).number = n
       /\ Job(c, n, s).slot = s
BY PoolAssumption DEF Jobs, Messages, Job

LEMMA Bounds ==
  /\ Numbers \subseteq Nat \ {0} /\ MaxSlots \in Nat \ {0}
  /\ \A c : Bound(c) \in Nat
  /\ \A c : \A n \in 1 .. Bound(c) : n \in Numbers
  /\ Cardinality(Workers) \in Nat
BY PoolAssumption, ThreadsAssumption, FS_CardinalityType DEF Numbers, Bound

LEMMA Who ==
  /\ Callers \subseteq Threads /\ Workers \subseteq Threads /\ Owner \in Threads
  /\ Clients \subseteq Threads /\ Callers \subseteq Clients /\ Workers \subseteq Clients
  /\ \A t \in Threads : t \in Clients \/ t = Owner
  /\ \A c \in Clients : c # Owner /\ (c \in Callers \/ c \in Workers)
  /\ \A c \in Callers : c \notin Workers /\ Home(c) = "idle"
  /\ \A w \in Workers : w \notin Callers /\ Home(w) = "run"
BY ThreadsAssumption DEF Threads, Clients, Home

Promises == [for : Numbers \cup {0}, by : Numbers \cup {0}, how : {"value", "exception", None}]

LEMMA PairTypes ==
  ASSUME NEW p \in [Clients -> [1 .. MaxSlots -> Promises]], NEW c \in Clients,
         NEW i \in 1 .. MaxSlots, NEW n \in Numbers, NEW how \in {"value", "exception"}
  PROVE  /\ [p EXCEPT ![c][i].for = n] \in [Clients -> [1 .. MaxSlots -> Promises]]
         /\ [p EXCEPT ![c][i].by = n, ![c][i].how = how] \in [Clients -> [1 .. MaxSlots -> Promises]]
<1>1. p[c] \in [1 .. MaxSlots -> Promises] /\ p[c][i] \in Promises
  OBVIOUS
<1>2. /\ [p[c][i] EXCEPT !.for = n] \in Promises
      /\ [p[c][i] EXCEPT !.by = n] \in Promises
  BY <1>1 DEF Promises
<1>3. \A q \in Promises : [p EXCEPT ![c][i] = q] \in [Clients -> [1 .. MaxSlots -> Promises]]
  BY <1>1
<1>4. [p EXCEPT ![c][i].for = n] = [p EXCEPT ![c][i] = [p[c][i] EXCEPT !.for = n]]
  OBVIOUS
<1>5. \A q \in Promises : [q EXCEPT !.how = how] \in Promises
  BY DEF Promises
<1> DEFINE q == [[p[c][i] EXCEPT !.by = n] EXCEPT !.how = how]
<1>6. q \in Promises
  BY <1>2, <1>5
<1>7. [p EXCEPT ![c][i].by = n, ![c][i].how = how] = [p EXCEPT ![c][i] = q]
  OBVIOUS
<1> HIDE DEF q
<1>8. [p EXCEPT ![c][i].by = n, ![c][i].how = how] \in [Clients -> [1 .. MaxSlots -> Promises]]
  BY <1>3, <1>6, <1>7
<1> QED
  BY <1>2, <1>3, <1>4, <1>8

ThreadTypes ==
  /\ pc \in [Threads -> Places]
  /\ msg \in [Threads -> Messages \cup {None}]
  /\ taken \in [Workers -> Messages \cup {None}]
  /\ queued \in [Clients -> Nat] /\ \A c \in Clients : queued[c] <= Bound(c)
  /\ nJobs \in [Clients -> 0 .. MaxSlots]
  /\ pairs \in [Clients -> [1 .. MaxSlots -> Promises]]
  /\ stops \in 0 .. Cardinality(Workers)
  /\ ran \subseteq (Clients \X Numbers)

SleepersSound == notFull \subseteq Threads /\ notEmpty \subseteq Workers

LEMMA TypeParts == TypeOK <=> RingSound /\ SleepersSound /\ ThreadTypes
BY DEF TypeOK, RingSound, SleepersSound, ThreadTypes, Promises

LEMMA PlacesAfterPush ==
  ASSUME ThreadTypes, PlacesSound, NEW c \in Clients, PushMessage(c, "pushed")
  PROVE  ThreadTypes' /\ PlacesSound'
<1> USE Names, Bounds, Who
<1>1. ThreadTypes'
  BY DEF ThreadTypes, PlacesSound, PushMessage, Goto, Places
<1>2. PlacesSound'
  BY DEF ThreadTypes, PlacesSound, PushMessage, Goto, Places
<1> QED
  BY <1>1, <1>2

LEMMA PlacesAfterStopPush ==
  ASSUME ThreadTypes, PlacesSound, PushMessage(Owner, "pushed")
  PROVE  ThreadTypes' /\ PlacesSound'
<1> USE Names, Bounds, Who
<1>1. ThreadTypes'
  BY DEF ThreadTypes, PlacesSound, PushMessage, Goto, Places
<1>2. PlacesSound'
  BY DEF ThreadTypes, PlacesSound, PushMessage, Goto, Places
<1> QED
  BY <1>1, <1>2

LEMMA PlacesAfterPushNotifies ==
  ASSUME ThreadTypes, PlacesSound, NEW c \in Clients, PushNotifies(c, Home(c))
  PROVE  ThreadTypes' /\ PlacesSound'
<1> USE Names, Bounds, Who
<1>1. ThreadTypes'
  BY DEF ThreadTypes, PlacesSound, PushNotifies, Goto, Places
<1>2. PlacesSound'
  BY DEF ThreadTypes, PlacesSound, PushNotifies, Goto, Places
<1> QED
  BY <1>1, <1>2

LEMMA PlacesAfterStopNotifies ==
  ASSUME ThreadTypes, PlacesSound, PushNotifies(Owner, "stop")
  PROVE  ThreadTypes' /\ PlacesSound'
<1> USE Names, Bounds, Who
<1>1. ThreadTypes'
  BY DEF ThreadTypes, PlacesSound, PushNotifies, Goto, Places
<1>2. PlacesSound'
  BY DEF ThreadTypes, PlacesSound, PushNotifies, Goto, Places
<1> QED
  BY <1>1, <1>2

LEMMA PlacesAfterQueueJob ==
  ASSUME ThreadTypes, PlacesSound, NEW c \in Clients, QueueJob(c)
  PROVE  ThreadTypes' /\ PlacesSound'
<1> USE Names, Bounds, Who
<1> DEFINE n == queued[c] + 1
           slot == nJobs[c] + 1
<1>1. /\ pc[c] = Home(c) /\ (c \in Callers => pc[Owner] = "idle")
      /\ n \in Numbers /\ n \in Nat /\ n <= Bound(c) /\ slot \in 1 .. MaxSlots
      /\ nJobs' = [nJobs EXCEPT ![c] = slot]
      /\ pairs' = [pairs EXCEPT ![c][slot].for = n]
      /\ queued' = [queued EXCEPT ![c] = n]
      /\ msg' = [msg EXCEPT ![c] = Job(c, n, slot)]
      /\ pc' = [pc EXCEPT ![c] = "push"] /\ UNCHANGED <<taken, stops, ran>>
  BY DEF QueueJob, Calls, AtHome, Goto, ThreadTypes
<1>2. Job(c, n, slot) \in Jobs /\ Job(c, n, slot).caller = c /\ Job(c, n, slot).number = n
  BY <1>1
<1> HIDE DEF n, slot
<1>3. pairs' \in [Clients -> [1 .. MaxSlots -> Promises]]
  BY <1>1, PairTypes DEF ThreadTypes
<1>4. ThreadTypes'
  <2>1. nJobs' \in [Clients -> 0 .. MaxSlots]
    BY <1>1 DEF ThreadTypes
  <2>2. queued' \in [Clients -> Nat] /\ \A d \in Clients : queued'[d] <= Bound(d)
    BY <1>1 DEF ThreadTypes
  <2>3. /\ msg' \in [Threads -> Messages \cup {None}] /\ pc' \in [Threads -> Places]
        /\ UNCHANGED <<taken, stops, ran>>
    BY <1>1, <1>2 DEF ThreadTypes, Places
  <2> QED
    BY <1>3, <2>1, <2>2, <2>3 DEF ThreadTypes
<1>6. /\ msg' = [msg EXCEPT ![c] = Job(c, n, slot)] /\ queued' = [queued EXCEPT ![c] = n]
      /\ pc' = [pc EXCEPT ![c] = "push"] /\ UNCHANGED taken
      /\ pc[c] = Home(c) /\ (c \in Callers => pc[Owner] = "idle")
  BY <1>1
<1>5. PlacesSound'
  BY <1>2, <1>6 DEF ThreadTypes, PlacesSound, Places
<1> QED
  BY <1>4, <1>5

LEMMA PlacesAfterQueueJobAlone ==
  ASSUME ThreadTypes, PlacesSound, NEW c \in Clients, QueueJobAlone(c)
  PROVE  ThreadTypes' /\ PlacesSound'
<1> USE Names, Bounds, Who
<1> DEFINE n == queued[c] + 1
<1>1. /\ pc[c] = Home(c) /\ (c \in Callers => pc[Owner] = "idle")
      /\ n \in Numbers /\ n \in Nat /\ n <= Bound(c)
      /\ queued' = [queued EXCEPT ![c] = n]
      /\ msg' = [msg EXCEPT ![c] = Job(c, n, 0)]
      /\ pc' = [pc EXCEPT ![c] = "push"] /\ UNCHANGED <<taken, nJobs, pairs, stops, ran>>
  BY DEF QueueJobAlone, Calls, AtHome, Goto, ThreadTypes
<1>2. Job(c, n, 0) \in Jobs /\ Job(c, n, 0).caller = c /\ Job(c, n, 0).number = n
  BY <1>1
<1> HIDE DEF n
<1>4. ThreadTypes'
  BY <1>1, <1>2 DEF ThreadTypes, Places
<1>5. PlacesSound'
  BY <1>1, <1>2 DEF ThreadTypes, PlacesSound, Places
<1> QED
  BY <1>4, <1>5

LEMMA PlacesAfterWaitBegins ==
  ASSUME ThreadTypes, PlacesSound, NEW c \in Clients, WaitBegins(c)
  PROVE  ThreadTypes' /\ PlacesSound'
<1> USE Names, Bounds, Who
<1>1. ThreadTypes'
  BY DEF ThreadTypes, PlacesSound, WaitBegins, AtHome, Goto, Places
<1>2. PlacesSound'
  BY DEF ThreadTypes, PlacesSound, WaitBegins, AtHome, Goto, Places
<1> QED
  BY <1>1, <1>2

LEMMA PlacesAfterWaitReturns ==
  ASSUME ThreadTypes, PlacesSound, NEW c \in Clients, WaitReturns(c)
  PROVE  ThreadTypes' /\ PlacesSound'
<1> USE Names, Bounds, Who
<1>1. ThreadTypes'
  BY DEF ThreadTypes, PlacesSound, WaitReturns, Goto, Places
<1>2. PlacesSound'
  BY DEF ThreadTypes, PlacesSound, WaitReturns, Goto, Places
<1> QED
  BY <1>1, <1>2

LEMMA PlacesAfterReset ==
  ASSUME ThreadTypes, PlacesSound, NEW c \in Clients, Reset(c)
  PROVE  ThreadTypes' /\ PlacesSound'
<1> USE Names, Bounds, Who
<1>1. ThreadTypes'
  BY DEF ThreadTypes, PlacesSound, Reset, FreshPair, Promises, Goto, Places
<1>2. PlacesSound'
  BY DEF ThreadTypes, PlacesSound, Reset, FreshPair, Promises, Goto, Places
<1> QED
  BY <1>1, <1>2

LEMMA PlacesAfterPop ==
  ASSUME ThreadTypes, PlacesSound, NEW w \in Workers, PopMessage(w)
  PROVE  ThreadTypes' /\ PlacesSound'
<1> USE Names, Bounds, Who
<1>1. ThreadTypes'
  BY DEF ThreadTypes, PlacesSound, PopMessage, Goto, Places
<1>2. PlacesSound'
  BY DEF ThreadTypes, PlacesSound, PopMessage, Goto, Places
<1> QED
  BY <1>1, <1>2

LEMMA PlacesAfterPopNotifies ==
  ASSUME ThreadTypes, PlacesSound, NEW w \in Workers, PopNotifies(w)
  PROVE  ThreadTypes' /\ PlacesSound'
<1> USE Names, Bounds, Who
<1>1. ThreadTypes'
  BY DEF ThreadTypes, PlacesSound, PopNotifies, Goto, Places
<1>2. PlacesSound'
  BY DEF ThreadTypes, PlacesSound, PopNotifies, Goto, Places
<1> QED
  BY <1>1, <1>2

LEMMA PlacesAfterRunJob ==
  ASSUME ThreadTypes, PlacesSound, NEW w \in Workers, RunJob(w)
  PROVE  ThreadTypes' /\ PlacesSound'
<1> USE Names, Bounds, Who
<1>1. /\ taken[w] \in Jobs /\ taken[w].caller \in Clients /\ taken[w].number \in Numbers
      /\ taken[w].slot \in 0 .. MaxSlots
  BY DEF RunJob, PlacesSound
<1>2. pairs' \in [Clients -> [1 .. MaxSlots -> Promises]]
  <2>1. PICK how \in {"value", "exception"} :
          pairs' = IF taken[w].slot = 0 THEN pairs
                   ELSE [pairs EXCEPT ![taken[w].caller][taken[w].slot].by = taken[w].number,
                                      ![taken[w].caller][taken[w].slot].how = how]
    BY DEF RunJob
  <2>2. CASE taken[w].slot = 0
    BY <2>1, <2>2 DEF ThreadTypes
  <2>3. CASE taken[w].slot # 0
    <3> DEFINE d == taken[w].caller
               i == taken[w].slot
               n == taken[w].number
    <3>1. d \in Clients /\ i \in 1 .. MaxSlots /\ n \in Numbers
      BY <1>1, <2>3
    <3>2. pairs' = [pairs EXCEPT ![d][i].by = n, ![d][i].how = how]
      BY <2>1, <2>3
    <3> HIDE DEF d, i, n
    <3> QED
      BY <3>1, <3>2, PairTypes, ZenonT(30) DEF ThreadTypes
  <2> QED
    BY <2>2, <2>3
<1>3. ran' \subseteq Clients \X Numbers
  BY <1>1 DEF RunJob, ThreadTypes
<1>4. ThreadTypes'
  BY <1>2, <1>3 DEF ThreadTypes, RunJob, Goto, Places
<1>5. PlacesSound'
  BY DEF ThreadTypes, PlacesSound, RunJob, Goto, Places
<1> QED
  BY <1>4, <1>5

LEMMA PlacesAfterDestroyBegins ==
  ASSUME ThreadTypes, PlacesSound, DestroyBegins
  PROVE  ThreadTypes' /\ PlacesSound'
<1> USE Names, Bounds, Who
<1>1. ThreadTypes'
  BY DEF ThreadTypes, PlacesSound, DestroyBegins, Goto, Places
<1>2. PlacesSound'
  BY DEF ThreadTypes, PlacesSound, DestroyBegins, Goto, Places
<1> QED
  BY <1>1, <1>2

LEMMA PlacesAfterStopOne ==
  ASSUME ThreadTypes, PlacesSound, StopOne
  PROVE  ThreadTypes' /\ PlacesSound'
<1> USE Names, Bounds, Who
<1>1. ThreadTypes'
  BY DEF ThreadTypes, PlacesSound, StopOne, Goto, Places
<1>2. PlacesSound'
  BY DEF ThreadTypes, PlacesSound, StopOne, Goto, Places
<1> QED
  BY <1>1, <1>2

LEMMA PlacesAfterJoinAll ==
  ASSUME ThreadTypes, PlacesSound, JoinAll
  PROVE  ThreadTypes' /\ PlacesSound'
<1> USE Names, Bounds, Who
<1>1. ThreadTypes'
  BY DEF ThreadTypes, PlacesSound, JoinAll, Goto, Places
<1>2. PlacesSound'
  BY DEF ThreadTypes, PlacesSound, JoinAll, Goto, Places
<1> QED
  BY <1>1, <1>2

(* The steps by what they do to the queue: nothing but to put threads to   *)
(* sleep and to wake them up, a push, or a pop.                            *)
LEMMA Initial ==
  ASSUME Init
  PROVE  TypeOK /\ PlacesSound /\ Contents = <<>>
<1> USE Names, Bounds, Who
<1>1. Capacity \in Nat \ {0} /\ 0 % Capacity = 0
  BY CapacityAssumption
<1>2. RingSound /\ SleepersSound
  BY <1>1 DEF Init, QueueInit, RingSound, RingOK, Slots, SleepersSound
<1>3. ThreadTypes
  BY DEF Init, ThreadTypes, FreshPair, Promises, Places
<1>4. PlacesSound
  BY DEF Init, PlacesSound
<1>5. Len(Contents) = 0 /\ Contents \in Seq(Messages \cup {None})
  BY <1>2, RingContents DEF Init, QueueInit
<1> QED
  BY <1>2, <1>3, <1>4, <1>5, TypeParts

Puts(t) == PushMessage(t, "pushed") /\ t \in Threads
Keeps == UNCHANGED ring

LEMMA QueueSteps ==
  ASSUME [Next]_vars
  PROVE  Keeps \/ (\E t \in Threads : Puts(t)) \/ (\E w \in Workers : PopMessage(w))
<1> USE Who DEF Keeps, Puts
<1>1. CASE UNCHANGED vars
  BY <1>1 DEF vars, queueVars, ring
<1>2. CASE \E c \in Clients : QueueJob(c) \/ QueueJobAlone(c) \/ WaitBegins(c) \/ Reset(c)
  BY <1>2 DEF QueueJob, QueueJobAlone, WaitBegins, Reset, queueVars, ring
<1>3. CASE \E c \in Clients : ClientStep(c)
  BY <1>3 DEF ClientStep, PushSleeps, SleepWhileFull, PushNotifies, NotifyNotEmpty, WaitReturns,
              queueVars, ring
<1>4. CASE \E w \in Workers : WorkerStep(w)
  BY <1>4 DEF WorkerStep, PopSleeps, SleepWhileEmpty, PopNotifies, NotifyNotFull, RunJob,
              queueVars, ring
<1>5. CASE DestroyBegins \/ OwnerStep
  BY <1>5 DEF DestroyBegins, OwnerStep, StopOne, PushSleeps, SleepWhileFull, PushNotifies,
              NotifyNotEmpty, JoinAll, queueVars, ring
<1>6. CASE SpuriousWakeup
  BY <1>6 DEF SpuriousWakeup
<1> QED
  BY <1>1, <1>2, <1>3, <1>4, <1>5, <1>6 DEF Next

LEMMA AfterPush ==
  ASSUME TypeOK, PlacesSound, NEW t \in Threads, Puts(t)
  PROVE  /\ msg[t] \in Messages /\ RingSound' /\ Contents' = Append(Contents, msg[t])
         /\ Len(Contents) < Capacity /\ Contents \in Seq(Messages \cup {None})
         /\ UNCHANGED <<notFull, notEmpty, taken>>
<1>1. msg[t] \in Messages /\ RingSound /\ Push(t, msg[t]) /\ UNCHANGED taken
  BY TypeParts DEF ThreadTypes, PlacesSound, Puts, PushMessage
<1> QED
  BY <1>1, PushAppends, RingContents

LEMMA AfterPop ==
  ASSUME TypeOK, PlacesSound, NEW w \in Workers, PopMessage(w)
  PROVE  /\ Contents # <<>> /\ Head(Contents) \in Messages /\ taken[w] = None
         /\ taken' = [taken EXCEPT ![w] = Head(Contents)] /\ Contents' = Tail(Contents)
         /\ Contents \in Seq(Messages \cup {None})
         /\ RingSound' /\ UNCHANGED <<notFull, notEmpty>>
<1>1. PICK m \in Messages : Pop(w, m) /\ taken' = [taken EXCEPT ![w] = m]
  BY DEF PopMessage
<1>2. RingSound /\ taken[w] = None
  BY TypeParts DEF PopMessage, PlacesSound
<1>3. /\ RingSound' /\ Contents # <<>> /\ m = Head(Contents) /\ Contents' = Tail(Contents)
      /\ UNCHANGED <<notFull, notEmpty>>
  BY <1>1, <1>2, PopTakesHead, Zenon
<1>4. Contents \in Seq(Messages \cup {None})
  BY <1>2, RingContents
<1> QED
  BY <1>1, <1>2, <1>3, <1>4, Zenon

LEMMA SleepersStay ==
  ASSUME TypeOK, PlacesSound, [Next]_vars
  PROVE  SleepersSound'
<1> USE Who DEF SleepersSound
<1>0. SleepersSound
  BY TypeParts
<1>1. CASE UNCHANGED vars
  BY <1>0, <1>1 DEF vars, queueVars
<1>2. CASE \E c \in Clients : QueueJob(c) \/ QueueJobAlone(c) \/ WaitBegins(c) \/ Reset(c)
  BY <1>0, <1>2 DEF QueueJob, QueueJobAlone, WaitBegins, Reset, queueVars
<1>3. CASE \E c \in Clients : ClientStep(c)
  BY <1>0, <1>3 DEF ClientStep, PushMessage, Push, PushSleeps, SleepWhileFull, PushNotifies,
                    NotifyNotEmpty, WaitReturns, queueVars
<1>4. CASE \E w \in Workers : WorkerStep(w)
  BY <1>0, <1>4 DEF WorkerStep, PopMessage, Pop, PopSleeps, SleepWhileEmpty, PopNotifies,
                    NotifyNotFull, RunJob, queueVars
<1>5. CASE DestroyBegins \/ OwnerStep
  BY <1>0, <1>5 DEF DestroyBegins, OwnerStep, StopOne, PushMessage, Push, PushSleeps,
                    SleepWhileFull, PushNotifies, NotifyNotEmpty, JoinAll, queueVars
<1>6. CASE SpuriousWakeup
  BY <1>0, <1>6 DEF SpuriousWakeup
<1> QED
  BY <1>1, <1>2, <1>3, <1>4, <1>5, <1>6 DEF Next

(* Types and places are kept by every step. *)
LEMMA PlacesStay ==
  ASSUME TypeOK, PlacesSound, [Next]_vars
  PROVE  TypeOK' /\ PlacesSound'
<1>0. RingSound /\ SleepersSound /\ ThreadTypes
  BY TypeParts
<1>1. RingSound'
  BY <1>0, QueueSteps, RingStays, AfterPush, AfterPop DEF Keeps
<1>2. SleepersSound'
  BY SleepersStay
<1>3. ThreadTypes' /\ PlacesSound'
  <2>1. CASE UNCHANGED threadVars
    BY <1>0, <2>1 DEF threadVars, ThreadTypes, PlacesSound
  <2>2. CASE \E c \in Clients : QueueJob(c) \/ QueueJobAlone(c) \/ WaitBegins(c) \/ Reset(c)
    BY <1>0, <2>2, PlacesAfterQueueJob, PlacesAfterQueueJobAlone, PlacesAfterWaitBegins,
       PlacesAfterReset
  <2>3. CASE \E c \in Clients : ClientStep(c)
    BY <1>0, <2>1, <2>3, PlacesAfterPush, PlacesAfterPushNotifies, PlacesAfterWaitReturns
       DEF ClientStep, PushSleeps
  <2>4. CASE \E w \in Workers : WorkerStep(w)
    BY <1>0, <2>1, <2>4, PlacesAfterPop, PlacesAfterPopNotifies, PlacesAfterRunJob
       DEF WorkerStep, PopSleeps
  <2>5. CASE DestroyBegins \/ OwnerStep
    BY <1>0, <2>1, <2>5, PlacesAfterDestroyBegins, PlacesAfterStopOne, PlacesAfterStopPush,
       PlacesAfterStopNotifies, PlacesAfterJoinAll DEF OwnerStep, PushSleeps
  <2> QED
    BY <2>1, <2>2, <2>3, <2>4, <2>5 DEF Next, vars
<1>4. TypeOK'
  BY <1>1, <1>2, <1>3 DEF TypeOK, RingSound, SleepersSound, ThreadTypes, Promises
<1> QED
  BY <1>3, <1>4

-----------------------------------------------------------------------------
(* The abstract queue *)

LEMMA StepIsFifoStep ==
  ASSUME TypeOK, PlacesSound, [Next]_vars
  PROVE  [Abstract!Next]_(Abstract!fifoVars)
<1> USE DEF Abstract!Next, Abstract!fifoVars
<1>1. ASSUME NEW t \in Threads, Puts(t)
      PROVE  Abstract!Next
  BY <1>1, AfterPush DEF Abstract!Put
<1>2. ASSUME NEW w \in Workers, PopMessage(w)
      PROVE  Abstract!Next
  BY <1>2, AfterPop DEF Abstract!Take
<1>3. ASSUME NEW w \in Workers, RunJob(w)
      PROVE  Abstract!Next
  <2>1. taken[w] # None /\ taken' = [taken EXCEPT ![w] = None]
    BY <1>3 DEF RunJob, PlacesSound
  <2>2. Contents' = Contents
    BY <1>3 DEF RunJob, queueVars, Contents
  <2> QED
    BY <2>1, <2>2 DEF Abstract!Finish
<1>4. CASE Keeps /\ ~ \E w \in Workers : RunJob(w)
  <2>1. Contents' = Contents
    BY <1>4 DEF Keeps, ring, Contents
  <2>2. UNCHANGED taken \/ (\E t \in Threads : Puts(t)) \/ (\E w \in Workers : PopMessage(w))
    BY <1>4 DEF Next, vars, threadVars, QueueJob, QueueJobAlone, WaitBegins, Reset, ClientStep,
                PushMessage, PushSleeps, PushNotifies, WaitReturns, WorkerStep, PopSleeps,
                PopNotifies, DestroyBegins, OwnerStep, StopOne, JoinAll
  <2> QED
    BY <1>1, <1>2, <2>1, <2>2
<1> QED
  BY <1>1, <1>2, <1>3, <1>4, QueueSteps

(* With all of its locking and waking, the ring is a bounded queue: every  *)
(* message goes to one worker, and in the order in which they were put.    *)
THEOREM PoolIsFifo == Spec => ImplementsJobFifo
<1>1. Init => TypeOK /\ PlacesSound
  BY Initial
<1>2. TypeOK /\ PlacesSound /\ [Next]_vars => TypeOK' /\ PlacesSound'
  BY PlacesStay
<1>3. Init => Abstract!Init
  BY Initial DEF Init, Abstract!Init
<1>4. TypeOK /\ PlacesSound /\ [Next]_vars => [Abstract!Next]_(Abstract!fifoVars)
  BY StepIsFifoStep
<1> QED
  BY <1>1, <1>2, <1>3, <1>4, PTL DEF Spec, ImplementsJobFifo, Abstract!Spec
-----------------------------------------------------------------------------
(* Jobs are different jobs *)

LEMMA PushedContents ==
  ASSUME TypeOK, PlacesSound, NEW t \in Threads, Puts(t)
  PROVE  /\ Len(Contents) \in Nat /\ Len(Contents') = Len(Contents) + 1 /\ msg[t] \in Messages
         /\ \A i \in 1 .. Len(Contents) : Contents'[i] = Contents[i]
         /\ Contents'[Len(Contents) + 1] = msg[t]
<1>1. /\ msg[t] \in Messages /\ Contents' = Append(Contents, msg[t])
      /\ Contents \in Seq(Messages \cup {None})
  BY AfterPush
<1>2. msg[t] \in Messages \cup {None}
  BY <1>1
<1> QED
  BY <1>1, <1>2, AppendProperties

LEMMA PoppedContents ==
  ASSUME TypeOK, PlacesSound, NEW w \in Workers, PopMessage(w)
  PROVE  /\ Len(Contents) \in Nat \ {0} /\ Len(Contents') = Len(Contents) - 1
         /\ \A i \in 1 .. Len(Contents') : Contents'[i] = Contents[i + 1]
         /\ taken' = [taken EXCEPT ![w] = Contents[1]] /\ Contents[1] \in Messages
         /\ taken[w] = None
<1>1. /\ Contents # <<>> /\ Head(Contents) \in Messages /\ taken[w] = None
      /\ taken' = [taken EXCEPT ![w] = Head(Contents)] /\ Contents' = Tail(Contents)
      /\ Contents \in Seq(Messages \cup {None})
  BY AfterPop
<1>2. Len(Contents) \in Nat \ {0} /\ Head(Contents) = Contents[1]
  BY <1>1
<1> QED
  BY <1>1, <1>2, HeadTailProperties

(* A step that queues, moves and runs no job. *)
Still == /\ Contents' = Contents /\ UNCHANGED <<taken, queued, ran>>
         /\ \A c \in Clients : pc'[c] = "push" <=> pc[c] = "push"

(* One that leaves the completion objects alone, too. *)
Quiet == /\ UNCHANGED <<pairs, nJobs>>
         /\ \A c \in Clients : /\ msg'[c] = msg[c]
                               /\ pc'[c] = "waited" => pc[c] = "waited"

Queues(c) == QueueJob(c) \/ QueueJobAlone(c)

LEMMA StepKinds ==
  ASSUME TypeOK, PlacesSound, [Next]_vars
  PROVE  \/ Still /\ Quiet
         \/ \E c \in Clients : Still /\ (WaitReturns(c) \/ Reset(c))
         \/ \E c \in Clients : Queues(c)
         \/ \E t \in Threads : Puts(t)
         \/ \E w \in Workers : PopMessage(w) \/ RunJob(w)
<1> USE Who DEF Queues, Puts
<1>0. /\ pc \in [Threads -> Places] /\ msg \in [Threads -> Messages \cup {None}]
      /\ \A c \in Clients : Home(c) \notin {"push", "waited"}
  BY TypeParts DEF ThreadTypes
<1>k. UNCHANGED ring => Contents' = Contents
  BY DEF ring, Contents
<1>1. CASE UNCHANGED vars
  BY <1>k, <1>1 DEF Still, Quiet, vars, queueVars, ring, threadVars
<1>2. ASSUME NEW c \in Clients, WaitBegins(c) \/ Reset(c)
      PROVE  Still /\ (Quiet \/ Reset(c))
  BY <1>0, <1>k, <1>2 DEF Still, Quiet, WaitBegins, AtHome, Reset, Goto, queueVars, ring
<1>3. ASSUME NEW c \in Clients, ClientStep(c), ~PushMessage(c, "pushed")
      PROVE  Still /\ (Quiet \/ WaitReturns(c))
  <2>1. CASE PushSleeps(c)
    BY <2>1, <1>k DEF Still, Quiet, PushSleeps, SleepWhileFull, threadVars
  <2>2. CASE PushNotifies(c, Home(c))
    BY <2>2, <1>0, <1>k DEF Still, Quiet, PushNotifies, NotifyNotEmpty, Goto
  <2>3. CASE WaitReturns(c)
    BY <2>3, <1>0, <1>k DEF Still, WaitReturns, Goto, queueVars, ring
  <2> QED
    BY <1>3, <2>1, <2>2, <2>3 DEF ClientStep
<1>4. ASSUME NEW w \in Workers, PopSleeps(w) \/ PopNotifies(w)
      PROVE  Still /\ Quiet
  <2>1. CASE PopSleeps(w)
    BY <2>1, <1>k DEF Still, Quiet, PopSleeps, SleepWhileEmpty, threadVars
  <2>2. CASE PopNotifies(w)
    BY <2>2, <1>0, <1>k DEF Still, Quiet, PopNotifies, NotifyNotFull, Goto
  <2> QED
    BY <1>4, <2>1, <2>2
<1>5. ASSUME DestroyBegins \/ StopOne \/ PushSleeps(Owner) \/ PushNotifies(Owner, "stop") \/ JoinAll
      PROVE  Still /\ Quiet
  <2>1. CASE DestroyBegins \/ StopOne \/ JoinAll
    BY <2>1, <1>0, <1>k DEF Still, Quiet, DestroyBegins, StopOne, JoinAll, Goto, queueVars, ring
  <2>2. CASE PushSleeps(Owner)
    BY <2>2, <1>k DEF Still, Quiet, PushSleeps, SleepWhileFull, threadVars
  <2>3. CASE PushNotifies(Owner, "stop")
    BY <2>3, <1>0, <1>k DEF Still, Quiet, PushNotifies, NotifyNotEmpty, Goto
  <2> QED
    BY <1>5, <2>1, <2>2, <2>3
<1>6. CASE SpuriousWakeup /\ UNCHANGED threadVars
  BY <1>6, <1>k DEF Still, Quiet, SpuriousWakeup, threadVars
<1> QED
  BY <1>1, <1>2, <1>3, <1>4, <1>5, <1>6 DEF Next, ClientStep, WorkerStep, OwnerStep

(* Pending in the next state, of a job known now. *)
PendingNext(j) ==
  /\ j.number \in 1 .. queued'[j.caller]
  /\ <<j.caller, j.number>> \notin ran'
  /\ pc'[j.caller] = "push" => j.number # queued'[j.caller]

LEMMA JobsStayStill ==
  ASSUME TypeOK, PlacesSound, JobsSound, Still
  PROVE  JobsSound'
<1>1. \A j \in Jobs : Pending(j) => PendingNext(j)
  BY Names DEF Pending, PendingNext, Still
<1>2. Contents' = Contents /\ taken' = taken /\ ran' = ran /\ queued' = queued
      /\ \A c \in Clients : pc'[c] = "push" <=> pc[c] = "push"
  BY DEF Still
<1>3. QueuedPending' /\ TakenPending'
  <2>1. /\ \A i \in 1 .. Len(Contents') :
             Contents'[i] \in Messages /\ (Contents'[i] \in Jobs => PendingNext(Contents'[i]))
        /\ \A w \in Workers : taken'[w] \in Jobs => PendingNext(taken'[w])
    BY <1>1, <1>2 DEF JobsSound, QueuedPending, TakenPending
  <2> QED
    BY <2>1 DEF QueuedPending, TakenPending, Pending, PendingNext
<1>4. QueuedDiffer' /\ QueuedTakenDiffer' /\ TakenDiffer'
  BY <1>2 DEF JobsSound, QueuedDiffer, QueuedTakenDiffer, TakenDiffer, Differ
<1>5. RanWereQueued'
  BY <1>2 DEF JobsSound, RanWereQueued
<1> QED
  BY <1>3, <1>4, <1>5 DEF JobsSound

LEMMA JobsAfterQueueing ==
  ASSUME TypeOK, PlacesSound, JobsSound, NEW c \in Clients, Queues(c)
  PROVE  JobsSound'
<1>0. ThreadTypes
  BY TypeParts
<1>1. /\ Contents' = Contents /\ UNCHANGED <<taken, ran>>
      /\ queued' = [queued EXCEPT ![c] = queued[c] + 1] /\ pc' = [pc EXCEPT ![c] = "push"]
      /\ pc[c] # "push"
  BY Who DEF Queues, QueueJob, QueueJobAlone, Calls, AtHome, Goto, queueVars, Contents
<1>2. /\ queued \in [Clients -> Nat] /\ pc \in [Threads -> Places]
  BY <1>0 DEF ThreadTypes
<1>3. ASSUME NEW j \in Jobs, Pending(j) PROVE PendingNext(j)
  <2>1. j.caller \in Clients /\ j.number \in Nat /\ j.caller \in Threads
    BY Names, Bounds, Who
  <2> QED
    BY <1>1, <1>2, <1>3, <2>1 DEF Pending, PendingNext
<1>4. RanWereQueued'
  BY <1>1, <1>2, Bounds, Who DEF JobsSound, RanWereQueued
<1>5. QueuedPending' /\ TakenPending'
  <2>1. /\ \A i \in 1 .. Len(Contents') :
             Contents'[i] \in Messages /\ (Contents'[i] \in Jobs => PendingNext(Contents'[i]))
        /\ \A w \in Workers : taken'[w] \in Jobs => PendingNext(taken'[w])
    BY <1>1, <1>3 DEF JobsSound, QueuedPending, TakenPending
  <2> QED
    BY <2>1 DEF QueuedPending, TakenPending, Pending, PendingNext
<1>6. QueuedDiffer' /\ QueuedTakenDiffer' /\ TakenDiffer'
  BY <1>1 DEF JobsSound, QueuedDiffer, QueuedTakenDiffer, TakenDiffer, Differ
<1> QED
  BY <1>4, <1>5, <1>6 DEF JobsSound

LEMMA JobsAfterPush ==
  ASSUME TypeOK, PlacesSound, JobsSound, NEW t \in Threads, Puts(t)
  PROVE  JobsSound'
<1>0. ThreadTypes
  BY TypeParts
<1> DEFINE L == Len(Contents)
           m == msg[t]
<1>1. /\ L \in Nat /\ Len(Contents') = L + 1 /\ m \in Messages
      /\ \A i \in 1 .. L : Contents'[i] = Contents[i]
      /\ Contents'[L + 1] = m
  BY PushedContents
<1>2. /\ pc[t] = "push" /\ pc' = [pc EXCEPT ![t] = "pushed"] /\ UNCHANGED <<taken, queued, ran>>
      /\ pc \in [Threads -> Places] /\ queued \in [Clients -> Nat]
  BY <1>0 DEF Puts, PushMessage, Goto, ThreadTypes
<1>3. m \in Jobs => t \in Clients /\ m.caller = t /\ m.number = queued[t]
                    /\ m.number \in Nat \ {0} /\ m.number \in Numbers
  BY <1>1, <1>2, Names, Bounds, Who DEF PlacesSound
<1> HIDE DEF L, m
<1>4. ASSUME NEW j \in Jobs, Pending(j) PROVE PendingNext(j) /\ (m \in Jobs => Differ(j, m) /\ Differ(m, j))
  <2>1. j.caller \in Threads /\ \A d : pc'[d] = "push" => pc[d] = "push"
    BY <1>2, Names, Who
  <2> QED
    BY <1>2, <1>3, <1>4, <2>1 DEF Pending, PendingNext, Differ
<1>5. m \in Jobs => PendingNext(m)
  BY <1>2, <1>3 DEF JobsSound, RanWereQueued, PendingNext
<1>6. \A i \in 1 .. Len(Contents') : i \in 1 .. L \/ i = L + 1
  BY <1>1
<1>7. RanWereQueued'
  BY <1>2 DEF JobsSound, RanWereQueued
<1>8. QueuedPending' /\ TakenPending'
  <2>1. /\ \A i \in 1 .. Len(Contents') :
             Contents'[i] \in Messages /\ (Contents'[i] \in Jobs => PendingNext(Contents'[i]))
        /\ \A w \in Workers : taken'[w] \in Jobs => PendingNext(taken'[w])
    BY <1>1, <1>2, <1>4, <1>5, <1>6 DEF JobsSound, QueuedPending, TakenPending, L
  <2> QED
    BY <2>1 DEF QueuedPending, TakenPending, Pending, PendingNext
<1>9. QueuedDiffer'
  <2>1. \A i \in 1 .. L : Contents[i] \in Jobs /\ m \in Jobs =>
                           Differ(Contents[i], m) /\ Differ(m, Contents[i])
    BY <1>4 DEF JobsSound, QueuedPending, L
  <2>2. \A i, k \in 1 .. Len(Contents') :
          Contents'[i] \in Jobs /\ Contents'[k] \in Jobs /\ i # k => Differ(Contents'[i], Contents'[k])
    BY <1>1, <1>6, <2>1 DEF JobsSound, QueuedDiffer, L
  <2> QED
    BY <2>2 DEF QueuedDiffer, Differ
<1>10. QueuedTakenDiffer'
  <2>1. \A w \in Workers : taken[w] \in Jobs /\ m \in Jobs => Differ(m, taken[w])
    BY <1>4 DEF JobsSound, TakenPending
  <2>2. \A i \in 1 .. Len(Contents'), w \in Workers :
          Contents'[i] \in Jobs /\ taken'[w] \in Jobs => Differ(Contents'[i], taken'[w])
    BY <1>1, <1>2, <1>6, <2>1 DEF JobsSound, QueuedTakenDiffer, L
  <2> QED
    BY <2>2 DEF QueuedTakenDiffer, Differ
<1>11. TakenDiffer'
  BY <1>2 DEF JobsSound, TakenDiffer, Differ
<1> QED
  BY <1>7, <1>8, <1>9, <1>10, <1>11 DEF JobsSound

LEMMA JobsAfterPop ==
  ASSUME TypeOK, PlacesSound, JobsSound, NEW w \in Workers, PopMessage(w)
  PROVE  JobsSound'
<1>0. ThreadTypes
  BY TypeParts
<1> DEFINE L == Len(Contents)
           m == Contents[1]
<1>1. /\ L \in Nat \ {0} /\ Len(Contents') = L - 1
      /\ \A i \in 1 .. Len(Contents') : Contents'[i] = Contents[i + 1]
      /\ taken' = [taken EXCEPT ![w] = m] /\ m \in Messages
      /\ taken[w] = None
  BY PoppedContents
<1>2. /\ pc' = [pc EXCEPT ![w] = "popped"] /\ pc[w] = "pop" /\ UNCHANGED <<queued, ran>>
      /\ pc \in [Threads -> Places] /\ taken \in [Workers -> Messages \cup {None}]
  BY <1>0 DEF PopMessage, Goto, ThreadTypes
<1>3. ASSUME NEW j \in Jobs, Pending(j) PROVE PendingNext(j)
  <2>1. \A d : pc'[d] = "push" => pc[d] = "push"
    BY <1>2, Who
  <2> QED
    BY <1>2, <1>3, <2>1 DEF Pending, PendingNext
<1>4. /\ 1 \in 1 .. L
      /\ \A i \in 1 .. Len(Contents') : i + 1 \in 1 .. L /\ i + 1 # 1
      /\ \A i, k \in 1 .. Len(Contents') : i # k => i + 1 # k + 1
  BY <1>1
<1>5. m \in Jobs => /\ Pending(m)
                    /\ \A i \in 1 .. Len(Contents') : Contents'[i] \in Jobs => Differ(Contents'[i], m)
                    /\ \A u \in Workers : taken[u] \in Jobs => Differ(m, taken[u]) /\ Differ(taken[u], m)
  BY <1>1, <1>4 DEF JobsSound, QueuedPending, QueuedDiffer, QueuedTakenDiffer, Differ
<1>6. /\ \A i \in 1 .. Len(Contents') :
           Contents'[i] \in Messages /\ (Contents'[i] \in Jobs => Pending(Contents'[i]))
      /\ \A i, k \in 1 .. Len(Contents') :
           Contents'[i] \in Jobs /\ Contents'[k] \in Jobs /\ i # k => Differ(Contents'[i], Contents'[k])
      /\ \A i \in 1 .. Len(Contents'), u \in Workers :
           Contents'[i] \in Jobs /\ taken[u] \in Jobs => Differ(Contents'[i], taken[u])
  <2>1. \A i \in 1 .. Len(Contents') :
           Contents'[i] \in Messages /\ (Contents'[i] \in Jobs => Pending(Contents'[i]))
    BY <1>1, <1>4 DEF JobsSound, QueuedPending
  <2>2. \A i, k \in 1 .. Len(Contents') :
           Contents'[i] \in Jobs /\ Contents'[k] \in Jobs /\ i # k => Differ(Contents'[i], Contents'[k])
    BY <1>1, <1>4 DEF JobsSound, QueuedDiffer
  <2>3. \A i \in 1 .. Len(Contents'), u \in Workers :
           Contents'[i] \in Jobs /\ taken[u] \in Jobs => Differ(Contents'[i], taken[u])
    BY <1>1, <1>4 DEF JobsSound, QueuedTakenDiffer
  <2> QED
    BY <2>1, <2>2, <2>3
<1>7. \A u \in Workers : taken'[u] = IF u = w THEN m ELSE taken[u]
  BY <1>1, <1>2
<1> HIDE DEF L, m
<1>8. QueuedPending' /\ TakenPending'
  <2>1. /\ \A i \in 1 .. Len(Contents') :
             Contents'[i] \in Messages /\ (Contents'[i] \in Jobs => PendingNext(Contents'[i]))
        /\ \A u \in Workers : taken'[u] \in Jobs => PendingNext(taken'[u])
    BY <1>3, <1>5, <1>6, <1>7 DEF JobsSound, TakenPending
  <2> QED
    BY <2>1 DEF QueuedPending, TakenPending, Pending, PendingNext
<1>9. QueuedDiffer'
  BY <1>6 DEF QueuedDiffer, Differ
<1>10. QueuedTakenDiffer'
  <2>1. \A i \in 1 .. Len(Contents'), u \in Workers :
          Contents'[i] \in Jobs /\ taken'[u] \in Jobs => Differ(Contents'[i], taken'[u])
    BY <1>5, <1>6, <1>7
  <2> QED
    BY <2>1 DEF QueuedTakenDiffer, Differ
<1>11. TakenDiffer'
  <2>1. \A u, v \in Workers :
          taken'[u] \in Jobs /\ taken'[v] \in Jobs /\ u # v => Differ(taken'[u], taken'[v])
    BY <1>5, <1>7 DEF JobsSound, TakenDiffer
  <2> QED
    BY <2>1 DEF TakenDiffer, Differ
<1>12. RanWereQueued'
  BY <1>2 DEF JobsSound, RanWereQueued
<1> QED
  BY <1>8, <1>9, <1>10, <1>11, <1>12 DEF JobsSound

LEMMA Runs ==
  ASSUME TypeOK, PlacesSound, NEW w \in Workers, RunJob(w)
  PROVE  /\ Contents' = Contents /\ taken' = [taken EXCEPT ![w] = None]
         /\ taken[w] \in Jobs /\ UNCHANGED <<msg, queued, nJobs, stops>>
         /\ ran' = ran \cup {<<taken[w].caller, taken[w].number>>}
         /\ pc' = [pc EXCEPT ![w] = "pop"] /\ pc[w] = "run"
         /\ \A u \in Workers : taken'[u] = IF u = w THEN None ELSE taken[u]
<1>0. taken \in [Workers -> Messages \cup {None}]
  BY TypeParts DEF ThreadTypes
<1>1. /\ UNCHANGED queueVars /\ taken' = [taken EXCEPT ![w] = None]
      /\ UNCHANGED <<msg, queued, nJobs, stops>>
      /\ ran' = ran \cup {<<taken[w].caller, taken[w].number>>}
      /\ pc' = [pc EXCEPT ![w] = "pop"] /\ pc[w] = "run"
  BY DEF RunJob, Goto
<1>2. taken[w] \in Jobs
  BY <1>1 DEF PlacesSound
<1>3. Contents' = Contents
  BY <1>1 DEF queueVars, Contents
<1> QED
  BY <1>0, <1>1, <1>2, <1>3

LEMMA JobsAfterRun ==
  ASSUME TypeOK, PlacesSound, JobsSound, NEW w \in Workers, RunJob(w)
  PROVE  JobsSound'
<1> DEFINE m == taken[w]
<1>1. /\ Contents' = Contents /\ UNCHANGED queued /\ m \in Jobs
      /\ ran' = ran \cup {<<m.caller, m.number>>}
      /\ \A u \in Workers : taken'[u] = IF u = w THEN None ELSE taken[u]
  BY Runs
<1>2. \A d : pc'[d] = "push" => pc[d] = "push"
  <2>1. pc' = [pc EXCEPT ![w] = "pop"] /\ pc \in [Threads -> Places] /\ w \in Threads
    BY Runs, Who, TypeParts DEF ThreadTypes
  <2> QED
    BY <2>1
<1>3. Pending(m)
  BY <1>1 DEF JobsSound, TakenPending
<1>5. /\ \A i \in 1 .. Len(Contents) : Contents[i] \in Jobs => Differ(Contents[i], m)
      /\ \A u \in Workers : taken[u] \in Jobs /\ u # w => Differ(taken[u], m)
  BY <1>1 DEF JobsSound, QueuedTakenDiffer, TakenDiffer
<1> HIDE DEF m
<1>4. ASSUME NEW j \in Jobs, Pending(j), Differ(j, m) PROVE PendingNext(j)
  <2>1. <<j.caller, j.number>> # <<m.caller, m.number>>
    BY <1>4 DEF Differ
  <2> QED
    BY <1>1, <1>2, <1>4, <2>1 DEF Pending, PendingNext
<1>6. RanWereQueued'
  <2> SUFFICES ASSUME NEW d \in Clients, NEW n \in Numbers, <<d, n>> \in ran'
               PROVE  n \in 1 .. queued'[d] /\ (pc'[d] = "push" => n # queued'[d])
    BY DEF RanWereQueued
  <2>1. CASE <<d, n>> \in ran
    BY <1>1, <1>2, <2>1 DEF JobsSound, RanWereQueued
  <2>2. CASE <<d, n>> = <<m.caller, m.number>>
    BY <1>1, <1>2, <1>3, <2>2 DEF Pending
  <2> QED
    BY <1>1, <2>1, <2>2
<1>7. QueuedPending' /\ TakenPending'
  <2>1. \A i \in 1 .. Len(Contents') :
             Contents'[i] \in Messages /\ (Contents'[i] \in Jobs => PendingNext(Contents'[i]))
    BY <1>1, <1>4, <1>5 DEF JobsSound, QueuedPending
  <2>2. \A u \in Workers : taken'[u] \in Jobs => PendingNext(taken'[u])
    BY <1>1, <1>4, <1>5, Names DEF JobsSound, TakenPending
  <2> QED
    BY <2>1, <2>2 DEF QueuedPending, TakenPending, Pending, PendingNext
<1>8. QueuedDiffer' /\ QueuedTakenDiffer' /\ TakenDiffer'
  <2>1. \A u \in Workers : taken'[u] \in Jobs => taken'[u] = taken[u]
    BY <1>1, Names
  <2> QED
    BY <1>1, <2>1 DEF JobsSound, QueuedDiffer, QueuedTakenDiffer, TakenDiffer, Differ
<1> QED
  BY <1>6, <1>7, <1>8 DEF JobsSound

LEMMA JobsStay ==
  ASSUME TypeOK, PlacesSound, JobsSound, [Next]_vars
  PROVE  JobsSound'
BY StepKinds, JobsStayStill, JobsAfterQueueing, JobsAfterPush, JobsAfterPop, JobsAfterRun

(* No job is run twice, nor by two workers at once. *)
LEMMA RunOnce ==
  ASSUME TypeOK, JobsSound
  PROVE  RunsOnce
<1> SUFFICES ASSUME NEW w \in Workers, taken[w] \in Jobs
             PROVE  <<taken[w].caller, taken[w].number>> \notin ran \cup InHand(w)
  BY DEF RunsOnce
<1>1. <<taken[w].caller, taken[w].number>> \notin ran
  BY DEF JobsSound, TakenPending, Pending
<1>2. ASSUME NEW u \in {v \in Workers \ {w} : taken[v] \in Jobs}
      PROVE  <<taken[u].caller, taken[u].number>> # <<taken[w].caller, taken[w].number>>
  BY DEF JobsSound, TakenDiffer, Differ
<1>3. <<taken[w].caller, taken[w].number>> \notin InHand(w)
  BY <1>2 DEF InHand
<1> QED
  BY <1>1, <1>3

-----------------------------------------------------------------------------
(* Promises *)

PromisedNext(j) ==
  j.slot # 0 => /\ j.slot <= nJobs'[j.caller]
                /\ pairs'[j.caller][j.slot].for = j.number
                /\ pairs'[j.caller][j.slot].by = 0

(* What the two assignments to a promise do to its fields. *)
ForSet(p, q, c, k, n) == \A d \in Clients, i \in 1 .. MaxSlots :
  /\ q[d][i].by = p[d][i].by
  /\ q[d][i].for = IF d = c /\ i = k THEN n ELSE p[d][i].for
BySet(p, q, c, k, n) == \A d \in Clients, i \in 1 .. MaxSlots :
  /\ q[d][i].for = p[d][i].for
  /\ q[d][i].by = IF d = c /\ i = k THEN n ELSE p[d][i].by

LEMMA PairFields ==
  ASSUME NEW p \in [Clients -> [1 .. MaxSlots -> Promises]], NEW c \in Clients,
         NEW k \in 1 .. MaxSlots, NEW n, NEW how
  PROVE  /\ ForSet(p, [p EXCEPT ![c][k].for = n], c, k, n)
         /\ BySet(p, [p EXCEPT ![c][k].by = n, ![c][k].how = how], c, k, n)
<1>1. ASSUME NEW d \in Clients, NEW i \in 1 .. MaxSlots
      PROVE  /\ [p EXCEPT ![c][k].for = n][d][i].by = p[d][i].by
             /\ [p EXCEPT ![c][k].for = n][d][i].for = IF d = c /\ i = k THEN n ELSE p[d][i].for
             /\ [p EXCEPT ![c][k].by = n, ![c][k].how = how][d][i].for = p[d][i].for
             /\ [p EXCEPT ![c][k].by = n, ![c][k].how = how][d][i].by =
                  IF d = c /\ i = k THEN n ELSE p[d][i].by
  <2>1. p[d][i] \in Promises
    OBVIOUS
  <2>2. /\ [p EXCEPT ![c][k].for = n][d][i] =
             IF d = c /\ i = k THEN [p[d][i] EXCEPT !.for = n] ELSE p[d][i]
        /\ [p EXCEPT ![c][k].by = n, ![c][k].how = how][d][i] =
             IF d = c /\ i = k THEN [[p[d][i] EXCEPT !.by = n] EXCEPT !.how = how] ELSE p[d][i]
    OBVIOUS
  <2> QED
    BY <2>1, <2>2 DEF Promises
<1> QED
  BY <1>1, ZenonT(30) DEF ForSet, BySet

(* What has to be shown of a step. *)
LEMMA PromisesFrom ==
  ASSUME \A c \in Clients : msg'[c] \in Jobs => PromisedNext(msg'[c]),
         \A i \in 1 .. Len(Contents') : Contents'[i] \in Jobs => PromisedNext(Contents'[i]),
         \A w \in Workers : taken'[w] \in Jobs => PromisedNext(taken'[w]),
         PairsSound', WaitedDone'
  PROVE  PromisesSound'
BY DEF PromisesSound, MsgPromised, QueuedPromised, TakenPromised, Promised, PromisedNext

LEMMA PromisesStayQuiet ==
  ASSUME PromisesSound, Still, Quiet
  PROVE  PromisesSound'
<1>1. Contents' = Contents /\ taken' = taken /\ ran' = ran /\ pairs' = pairs /\ nJobs' = nJobs
      /\ \A c \in Clients : msg'[c] = msg[c] /\ (pc'[c] = "waited" => pc[c] = "waited")
  BY DEF Still, Quiet
<1>2. PairsSound' /\ WaitedDone'
  BY <1>1 DEF PromisesSound, PairsSound, WaitedDone
<1>3. \A j : Promised(j) => PromisedNext(j)
  BY <1>1 DEF Promised, PromisedNext
<1>4. /\ \A c \in Clients : msg'[c] \in Jobs => PromisedNext(msg'[c])
      /\ \A i \in 1 .. Len(Contents') : Contents'[i] \in Jobs => PromisedNext(Contents'[i])
      /\ \A w \in Workers : taken'[w] \in Jobs => PromisedNext(taken'[w])
  BY <1>1, <1>3 DEF PromisesSound, MsgPromised, QueuedPromised, TakenPromised
<1> QED
  BY <1>2, <1>4, PromisesFrom

LEMMA PromisesAfterWait ==
  ASSUME TypeOK, PromisesSound, NEW c \in Clients, WaitReturns(c)
  PROVE  PromisesSound'
<1>1. /\ Contents' = Contents /\ taken' = taken /\ ran' = ran /\ pairs' = pairs /\ nJobs' = nJobs
      /\ msg' = msg /\ pc' = [pc EXCEPT ![c] = "waited"]
      /\ \A i \in 1 .. nJobs[c] : pairs[c][i].by # 0
  BY DEF WaitReturns, Goto, queueVars, Contents
<1>2. pc \in [Threads -> Places] /\ nJobs \in [Clients -> 0 .. MaxSlots]
  BY TypeParts DEF ThreadTypes
<1>3. PairsSound'
  BY <1>1 DEF PromisesSound, PairsSound
<1>4. WaitedDone'
  BY <1>1, <1>2, Bounds, Who DEF PromisesSound, WaitedDone
<1>5. \A j : Promised(j) => PromisedNext(j)
  BY <1>1 DEF Promised, PromisedNext
<1>6. /\ \A d \in Clients : msg'[d] \in Jobs => PromisedNext(msg'[d])
      /\ \A i \in 1 .. Len(Contents') : Contents'[i] \in Jobs => PromisedNext(Contents'[i])
      /\ \A w \in Workers : taken'[w] \in Jobs => PromisedNext(taken'[w])
  BY <1>1, <1>5 DEF PromisesSound, MsgPromised, QueuedPromised, TakenPromised
<1> QED
  BY <1>3, <1>4, <1>6, PromisesFrom

(* Reset finds no promise of its completion object on its way. *)
LEMMA PromisesAfterReset ==
  ASSUME TypeOK, PromisesSound, NEW c \in Clients, Reset(c)
  PROVE  PromisesSound'
<1>0. /\ pc \in [Threads -> Places] /\ nJobs \in [Clients -> 0 .. MaxSlots]
      /\ pairs \in [Clients -> [1 .. MaxSlots -> Promises]]
  BY TypeParts DEF ThreadTypes
<1>1. /\ Contents' = Contents /\ taken' = taken /\ ran' = ran /\ msg' = msg
      /\ pc[c] = "waited" /\ pc' = [pc EXCEPT ![c] = Home(c)]
      /\ nJobs' = [nJobs EXCEPT ![c] = 0]
      /\ pairs' = [pairs EXCEPT ![c] = [i \in 1 .. MaxSlots |->
                                          IF i <= nJobs[c] THEN FreshPair ELSE pairs[c][i]]]
  BY DEF Reset, Goto, queueVars, Contents
<1>2. \A d \in Clients : /\ d # c => nJobs'[d] = nJobs[d] /\ pairs'[d] = pairs[d]
                         /\ pc'[d] = "waited" => pc[d] = "waited" /\ d # c
  BY <1>0, <1>1, Who
<1>3. nJobs'[c] = 0 /\ \A i \in 1 .. MaxSlots :
        pairs'[c][i] = IF i <= nJobs[c] THEN FreshPair ELSE pairs[c][i]
  BY <1>0, <1>1
<1>4. PairsSound'
  <2> SUFFICES ASSUME NEW d \in Clients, NEW i \in 1 .. MaxSlots
               PROVE  /\ i > nJobs'[d] => pairs'[d][i].by = 0
                      /\ pairs'[d][i].by # 0 => /\ pairs'[d][i].by = pairs'[d][i].for
                                                /\ <<d, pairs'[d][i].for>> \in ran'
    BY DEF PairsSound
  <2>1. CASE d # c
    BY <1>1, <1>2, <2>1 DEF PromisesSound, PairsSound
  <2>2. CASE d = c /\ i <= nJobs[c]
    BY <1>3, <2>2 DEF FreshPair
  <2>3. CASE d = c /\ i > nJobs[c]
    BY <1>0, <1>3, <2>3 DEF PromisesSound, PairsSound
  <2> QED
    BY <1>0, <2>1, <2>2, <2>3, Bounds
<1>5. WaitedDone'
  BY <1>2 DEF PromisesSound, WaitedDone
<1>6. ASSUME NEW j \in Jobs, Promised(j) PROVE PromisedNext(j)
  <2>1. j.caller \in Clients /\ j.slot \in 0 .. MaxSlots
    BY Names
  <2>2. CASE j.slot = 0
    BY <2>2 DEF PromisedNext
  <2>3. CASE j.slot # 0 /\ j.caller = c
    BY <1>0, <1>1, <1>6, <2>1, <2>3, Bounds DEF Promised, PromisesSound, WaitedDone
  <2>4. CASE j.slot # 0 /\ j.caller # c
    BY <1>2, <1>6, <2>1, <2>4 DEF Promised, PromisedNext
  <2> QED
    BY <2>2, <2>3, <2>4
<1>7. /\ \A d \in Clients : msg'[d] \in Jobs => PromisedNext(msg'[d])
      /\ \A i \in 1 .. Len(Contents') : Contents'[i] \in Jobs => PromisedNext(Contents'[i])
      /\ \A w \in Workers : taken'[w] \in Jobs => PromisedNext(taken'[w])
  BY <1>1, <1>6 DEF PromisesSound, MsgPromised, QueuedPromised, TakenPromised
<1> QED
  BY <1>4, <1>5, <1>7, PromisesFrom

LEMMA PromisesAfterQueueJob ==
  ASSUME TypeOK, PlacesSound, PromisesSound, NEW c \in Clients, QueueJob(c)
  PROVE  PromisesSound'
<1>0. /\ pc \in [Threads -> Places] /\ nJobs \in [Clients -> 0 .. MaxSlots]
      /\ pairs \in [Clients -> [1 .. MaxSlots -> Promises]]
      /\ msg \in [Threads -> Messages \cup {None}]
      /\ queued \in [Clients -> Nat]
  BY TypeParts DEF ThreadTypes
<1> DEFINE k == nJobs[c] + 1
           n == queued[c] + 1
<1>1. /\ Contents' = Contents /\ taken' = taken /\ ran' = ran
      /\ msg' = [msg EXCEPT ![c] = Job(c, n, k)]
      /\ pc' = [pc EXCEPT ![c] = "push"] /\ nJobs' = [nJobs EXCEPT ![c] = k]
      /\ pairs' = [pairs EXCEPT ![c][k].for = n]
      /\ nJobs[c] < MaxSlots /\ queued[c] < Bound(c)
  BY DEF QueueJob, Calls, Goto, queueVars, Contents
<1>2. k \in 1 .. MaxSlots /\ n \in Numbers /\ k \in 0 .. MaxSlots /\ nJobs[c] = k - 1
  <2>0. /\ nJobs[c] \in 0 .. MaxSlots /\ nJobs[c] < MaxSlots /\ MaxSlots \in Nat
        /\ queued[c] \in Nat /\ queued[c] < Bound(c) /\ Bound(c) \in Nat
    BY <1>0, <1>1, Bounds
  <2>1. k \in 1 .. MaxSlots /\ k \in 0 .. MaxSlots /\ nJobs[c] = k - 1
    BY <2>0
  <2>2. n \in 1 .. Bound(c)
    BY <2>0
  <2> QED
    BY <2>1, <2>2, Bounds
<1>3. /\ Job(c, n, k).caller = c /\ Job(c, n, k).number = n /\ Job(c, n, k).slot = k
  BY <1>2, Names
<1> HIDE DEF k, n
<1>4. \A d \in Clients : /\ nJobs'[d] = IF d = c THEN k ELSE nJobs[d]
                         /\ pc'[d] = "waited" => pc[d] = "waited" /\ d # c
                         /\ msg'[d] = IF d = c THEN Job(c, n, k) ELSE msg[d]
  BY <1>0, <1>1, Who
<1>5. \A d \in Clients, i \in 1 .. MaxSlots :
        /\ pairs'[d][i].by = pairs[d][i].by
        /\ pairs'[d][i].for = IF d = c /\ i = k THEN n ELSE pairs[d][i].for
  <2>1. ForSet(pairs, pairs', c, k, n)
    <3>1. pairs \in [Clients -> [1 .. MaxSlots -> Promises]] /\ k \in 1 .. MaxSlots
      BY <1>0, <1>2
    <3>2. pairs' = [pairs EXCEPT ![c][k].for = n]
      BY <1>1
    <3>3. ForSet(pairs, [pairs EXCEPT ![c][k].for = n], c, k, n)
      BY <3>1, PairFields, Zenon
    <3> QED
      BY <3>2, <3>3, Zenon
  <2> QED
    BY <2>1, Zenon DEF ForSet
<1>6. pairs[c][k].by = 0
  <2>1. k > nJobs[c]
    BY <1>0, <1>2
  <2> QED
    BY <1>2, <2>1 DEF PromisesSound, PairsSound
<1>7. PairsSound'
  <2> SUFFICES ASSUME NEW d \in Clients, NEW i \in 1 .. MaxSlots
               PROVE  /\ i > nJobs'[d] => pairs'[d][i].by = 0
                      /\ pairs'[d][i].by # 0 => /\ pairs'[d][i].by = pairs'[d][i].for
                                                /\ <<d, pairs'[d][i].for>> \in ran'
    BY DEF PairsSound
  <2>1. i > nJobs'[d] => i > nJobs[d]
    BY <1>0, <1>2, <1>4, SMTT(30)
  <2> QED
    BY <1>1, <1>5, <1>6, <2>1 DEF PromisesSound, PairsSound
<1>8. WaitedDone'
  BY <1>4, <1>5 DEF PromisesSound, WaitedDone
<1>9. ASSUME NEW j \in Jobs, Promised(j) PROVE PromisedNext(j)
  <2>1. j.caller \in Clients /\ j.slot \in 0 .. MaxSlots
    BY Names
  <2>2. CASE j.slot = 0
    BY <2>2 DEF PromisedNext
  <2>3. CASE j.slot # 0
    <3>1. j.slot \in 1 .. MaxSlots /\ ~(j.caller = c /\ j.slot = k)
      BY <1>2, <1>9, <2>1, <2>3 DEF Promised
    <3>2. j.slot <= nJobs'[j.caller]
      BY <1>0, <1>2, <1>4, <1>9, <2>1, <2>3, SMTT(30) DEF Promised
    <3> QED
      BY <1>5, <1>9, <2>1, <2>3, <3>1, <3>2 DEF Promised, PromisedNext
  <2> QED
    BY <2>2, <2>3
<1>10. PromisedNext(Job(c, n, k))
  BY <1>2, <1>3, <1>4, <1>5, <1>6 DEF PromisedNext
<1>11. /\ \A d \in Clients : msg'[d] \in Jobs => PromisedNext(msg'[d])
       /\ \A i \in 1 .. Len(Contents') : Contents'[i] \in Jobs => PromisedNext(Contents'[i])
       /\ \A w \in Workers : taken'[w] \in Jobs => PromisedNext(taken'[w])
  BY <1>1, <1>4, <1>9, <1>10 DEF PromisesSound, MsgPromised, QueuedPromised, TakenPromised
<1> QED
  BY <1>7, <1>8, <1>11, PromisesFrom

LEMMA PromisesAfterQueueJobAlone ==
  ASSUME TypeOK, PlacesSound, PromisesSound, NEW c \in Clients, QueueJobAlone(c)
  PROVE  PromisesSound'
<1>0. /\ pc \in [Threads -> Places] /\ msg \in [Threads -> Messages \cup {None}]
      /\ queued \in [Clients -> Nat]
  BY TypeParts DEF ThreadTypes
<1> DEFINE n == queued[c] + 1
<1>1. /\ Contents' = Contents /\ taken' = taken /\ ran' = ran /\ pairs' = pairs /\ nJobs' = nJobs
      /\ msg' = [msg EXCEPT ![c] = Job(c, n, 0)]
      /\ pc' = [pc EXCEPT ![c] = "push"] /\ queued[c] < Bound(c)
  BY DEF QueueJobAlone, Calls, Goto, queueVars, Contents
<1>2. n \in Numbers /\ 0 \in 0 .. MaxSlots
  BY <1>0, <1>1, Bounds
<1>3. Job(c, n, 0).slot = 0
  BY <1>2, Names
<1> HIDE DEF n
<1>4. \A d \in Clients : /\ pc'[d] = "waited" => pc[d] = "waited"
                         /\ msg'[d] = IF d = c THEN Job(c, n, 0) ELSE msg[d]
  BY <1>0, <1>1, Who
<1>5. PairsSound' /\ WaitedDone'
  BY <1>1, <1>4 DEF PromisesSound, PairsSound, WaitedDone
<1>6. PromisedNext(Job(c, n, 0)) /\ \A j : Promised(j) => PromisedNext(j)
  BY <1>1, <1>3 DEF Promised, PromisedNext
<1>7. /\ \A d \in Clients : msg'[d] \in Jobs => PromisedNext(msg'[d])
      /\ \A i \in 1 .. Len(Contents') : Contents'[i] \in Jobs => PromisedNext(Contents'[i])
      /\ \A w \in Workers : taken'[w] \in Jobs => PromisedNext(taken'[w])
  BY <1>1, <1>4, <1>6 DEF PromisesSound, MsgPromised, QueuedPromised, TakenPromised
<1> QED
  BY <1>5, <1>7, PromisesFrom

LEMMA PromisesAfterPush ==
  ASSUME TypeOK, PlacesSound, PromisesSound, NEW t \in Threads, Puts(t)
  PROVE  PromisesSound'
<1>0. /\ pc \in [Threads -> Places] /\ msg \in [Threads -> Messages \cup {None}]
  BY TypeParts DEF ThreadTypes
<1> DEFINE L == Len(Contents)
           m == msg[t]
<1>1. /\ L \in Nat /\ Len(Contents') = L + 1 /\ \A i \in 1 .. L : Contents'[i] = Contents[i]
      /\ Contents'[L + 1] = m
  BY PushedContents
<1>2. /\ taken' = taken /\ ran' = ran /\ pairs' = pairs /\ nJobs' = nJobs
      /\ msg' = [msg EXCEPT ![t] = None] /\ pc' = [pc EXCEPT ![t] = "pushed"] /\ pc[t] = "push"
  BY DEF Puts, PushMessage, Goto
<1>3. \A d \in Clients : /\ pc'[d] = "waited" => pc[d] = "waited"
                         /\ msg'[d] \in Jobs => msg'[d] = msg[d]
  BY <1>0, <1>2, Who, Names
<1>4. PairsSound' /\ WaitedDone'
  BY <1>2, <1>3 DEF PromisesSound, PairsSound, WaitedDone
<1>5. \A j : Promised(j) => PromisedNext(j)
  BY <1>2 DEF Promised, PromisedNext
<1>6. m \in Jobs => Promised(m)
  BY <1>2, Who, Names DEF PromisesSound, MsgPromised, PlacesSound
<1>7. \A i \in 1 .. Len(Contents') : i \in 1 .. L \/ i = L + 1
  BY <1>1
<1> HIDE DEF m
<1>8. \A i \in 1 .. Len(Contents') : Contents'[i] \in Jobs => PromisedNext(Contents'[i])
  BY <1>1, <1>5, <1>6, <1>7 DEF PromisesSound, QueuedPromised
<1>9. /\ \A d \in Clients : msg'[d] \in Jobs => PromisedNext(msg'[d])
      /\ \A w \in Workers : taken'[w] \in Jobs => PromisedNext(taken'[w])
  BY <1>2, <1>3, <1>5 DEF PromisesSound, MsgPromised, TakenPromised
<1> QED
  BY <1>4, <1>8, <1>9, PromisesFrom

LEMMA PromisesAfterPop ==
  ASSUME TypeOK, PlacesSound, PromisesSound, NEW w \in Workers, PopMessage(w)
  PROVE  PromisesSound'
<1>0. /\ pc \in [Threads -> Places] /\ taken \in [Workers -> Messages \cup {None}]
  BY TypeParts DEF ThreadTypes
<1> DEFINE L == Len(Contents)
           m == Contents[1]
<1>1. /\ L \in Nat \ {0} /\ Len(Contents') = L - 1
      /\ \A i \in 1 .. Len(Contents') : Contents'[i] = Contents[i + 1]
      /\ taken' = [taken EXCEPT ![w] = m]
  BY PoppedContents
<1>2. /\ ran' = ran /\ pairs' = pairs /\ nJobs' = nJobs /\ msg' = msg
      /\ pc' = [pc EXCEPT ![w] = "popped"]
  BY DEF PopMessage, Goto
<1>3. /\ \A d \in Clients : pc'[d] = "waited" => pc[d] = "waited"
      /\ \A u \in Workers : taken'[u] = IF u = w THEN m ELSE taken[u]
  BY <1>0, <1>1, <1>2, Who
<1>4. PairsSound' /\ WaitedDone'
  BY <1>2, <1>3 DEF PromisesSound, PairsSound, WaitedDone
<1>5. \A j : Promised(j) => PromisedNext(j)
  BY <1>2 DEF Promised, PromisedNext
<1>6. 1 \in 1 .. L /\ \A i \in 1 .. Len(Contents') : i + 1 \in 1 .. L
  BY <1>1
<1>7. m \in Jobs => Promised(m)
  BY <1>6 DEF PromisesSound, QueuedPromised
<1> HIDE DEF m
<1>8. \A i \in 1 .. Len(Contents') : Contents'[i] \in Jobs => PromisedNext(Contents'[i])
  BY <1>1, <1>5, <1>6 DEF PromisesSound, QueuedPromised
<1>9. /\ \A d \in Clients : msg'[d] \in Jobs => PromisedNext(msg'[d])
      /\ \A u \in Workers : taken'[u] \in Jobs => PromisedNext(taken'[u])
  BY <1>2, <1>3, <1>5, <1>7 DEF PromisesSound, MsgPromised, TakenPromised
<1> QED
  BY <1>4, <1>8, <1>9, PromisesFrom

(* The job fulfils its own promise: no other job has it. *)
LEMMA PromisesAfterRun ==
  ASSUME TypeOK, PlacesSound, JobsSound, PromisesSound, NEW w \in Workers, RunJob(w)
  PROVE  PromisesSound'
<1>0. /\ pc \in [Threads -> Places] /\ nJobs \in [Clients -> 0 .. MaxSlots]
      /\ pairs \in [Clients -> [1 .. MaxSlots -> Promises]]
      /\ msg \in [Threads -> Messages \cup {None}]
  BY TypeParts DEF ThreadTypes
<1> DEFINE m == taken[w]
<1>1. /\ Contents' = Contents /\ m \in Jobs /\ msg' = msg /\ nJobs' = nJobs
      /\ ran' = ran \cup {<<m.caller, m.number>>}
      /\ \A u \in Workers : taken'[u] = IF u = w THEN None ELSE taken[u]
  BY Runs
<1>2. \A d \in Clients : pc'[d] = "waited" => pc[d] = "waited"
  <2>1. pc' = [pc EXCEPT ![w] = "pop"] /\ w \in Threads
    BY Runs, Who
  <2> QED
    BY <1>0, <2>1, Who
<1>3. m.caller \in Clients /\ m.number \in Numbers /\ m.number # 0 /\ m.slot \in 0 .. MaxSlots
  BY <1>1, Names, Bounds
<1>4. Promised(m)
  BY <1>1 DEF PromisesSound, TakenPromised
<1>5. PICK how : pairs' = IF m.slot = 0 THEN pairs
                          ELSE [pairs EXCEPT ![m.caller][m.slot].by = m.number,
                                             ![m.caller][m.slot].how = how]
  BY DEF RunJob
<1>6. /\ \A i \in 1 .. Len(Contents) : Contents[i] \in Jobs => Differ(Contents[i], m)
      /\ \A u \in Workers : taken[u] \in Jobs /\ u # w => Differ(taken[u], m)
      /\ \A d \in Clients : msg[d] \in Jobs => Differ(msg[d], m)
  <2>1. \A i \in 1 .. Len(Contents) : Contents[i] \in Jobs => Differ(Contents[i], m)
    BY <1>1 DEF JobsSound, QueuedTakenDiffer
  <2>2. \A u \in Workers : taken[u] \in Jobs /\ u # w => Differ(taken[u], m)
    BY <1>1 DEF JobsSound, TakenDiffer
  <2>3. Pending(m)
    BY <1>1 DEF JobsSound, TakenPending
  <2>4. \A d \in Clients : msg[d] \in Jobs => Differ(msg[d], m)
    BY <1>3, <2>3, Names, Who DEF PlacesSound, Pending, Differ
  <2> QED
    BY <2>1, <2>2, <2>4
<1> HIDE DEF m
<1>7. \A d \in Clients, i \in 1 .. MaxSlots :
        /\ pairs'[d][i].for = pairs[d][i].for
        /\ pairs'[d][i].by = IF d = m.caller /\ i = m.slot THEN m.number ELSE pairs[d][i].by
  <2>1. CASE m.slot = 0
    BY <1>5, <2>1
  <2>2. CASE m.slot # 0
    <3> DEFINE e == m.caller
               k == m.slot
               n == m.number
    <3>1. e \in Clients /\ k \in 1 .. MaxSlots
      BY <1>3, <2>2
    <3>2. pairs' = [pairs EXCEPT ![e][k].by = n, ![e][k].how = how]
      BY <1>5, <2>2
    <3> HIDE DEF e, k, n
    <3>3. \A d \in Clients, i \in 1 .. MaxSlots :
            /\ pairs'[d][i].for = pairs[d][i].for
            /\ pairs'[d][i].by = IF d = e /\ i = k THEN n ELSE pairs[d][i].by
      <4>1. BySet(pairs, [pairs EXCEPT ![e][k].by = n, ![e][k].how = how], e, k, n)
        BY <1>0, <3>1, PairFields, Zenon
      <4>2. BySet(pairs, pairs', e, k, n)
        BY <3>2, <4>1, Zenon
      <4> QED
        BY <4>2, Zenon DEF BySet
    <3> QED
      BY <3>3 DEF e, k, n
  <2> QED
    BY <2>1, <2>2
<1>8. PairsSound'
  <2> SUFFICES ASSUME NEW d \in Clients, NEW i \in 1 .. MaxSlots
               PROVE  /\ i > nJobs'[d] => pairs'[d][i].by = 0
                      /\ pairs'[d][i].by # 0 => /\ pairs'[d][i].by = pairs'[d][i].for
                                                /\ <<d, pairs'[d][i].for>> \in ran'
    BY DEF PairsSound
  <2>1. CASE d = m.caller /\ i = m.slot
    BY <1>0, <1>1, <1>3, <1>4, <1>7, <2>1 DEF Promised
  <2>2. CASE ~(d = m.caller /\ i = m.slot)
    BY <1>1, <1>7, <2>2 DEF PromisesSound, PairsSound
  <2> QED
    BY <2>1, <2>2
<1>9. WaitedDone'
  BY <1>1, <1>2, <1>3, <1>7 DEF PromisesSound, WaitedDone
<1>10. ASSUME NEW j \in Jobs, Promised(j), Differ(j, m) PROVE PromisedNext(j)
  <2>1. j.caller \in Clients /\ j.slot \in 0 .. MaxSlots
    BY Names
  <2>2. CASE j.slot = 0
    BY <2>2 DEF PromisedNext
  <2>3. CASE j.slot # 0
    <3>1. j.slot \in 1 .. MaxSlots /\ ~(j.caller = m.caller /\ j.slot = m.slot)
      BY <1>4, <1>10, <2>1, <2>3 DEF Promised, Differ
    <3> QED
      BY <1>1, <1>7, <1>10, <2>1, <2>3, <3>1 DEF Promised, PromisedNext
  <2> QED
    BY <2>2, <2>3
<1>11. \A d \in Clients : msg'[d] \in Jobs => PromisedNext(msg'[d])
  BY <1>1, <1>6, <1>10 DEF PromisesSound, MsgPromised
<1>12. \A i \in 1 .. Len(Contents') : Contents'[i] \in Jobs => PromisedNext(Contents'[i])
  BY <1>1, <1>6, <1>10 DEF PromisesSound, QueuedPromised
<1>13. \A u \in Workers : taken'[u] \in Jobs => PromisedNext(taken'[u])
  BY <1>1, <1>6, <1>10, Names DEF PromisesSound, TakenPromised
<1> QED
  BY <1>8, <1>9, <1>11, <1>12, <1>13, PromisesFrom

LEMMA PromisesStay ==
  ASSUME TypeOK, PlacesSound, JobsSound, PromisesSound, [Next]_vars
  PROVE  PromisesSound'
BY StepKinds, PromisesStayQuiet, PromisesAfterWait, PromisesAfterReset, PromisesAfterQueueJob,
   PromisesAfterQueueJobAlone, PromisesAfterPush, PromisesAfterPop, PromisesAfterRun DEF Queues

-----------------------------------------------------------------------------
(* The THREAD_STOPs *)

Count == Cardinality(StopsAt) + Cardinality(Stopped)

LEMMA StopsFinite ==
  ASSUME TypeOK
  PROVE  /\ IsFiniteSet(StopsAt) /\ Cardinality(StopsAt) \in Nat /\ StopsAt \subseteq Nat
         /\ IsFiniteSet(Stopped) /\ Cardinality(Stopped) \in Nat
         /\ Count \in Nat
<1>1. Len(Contents) \in Nat
  BY TypeParts, RingContents
<1>2. IsFiniteSet(1 .. Len(Contents))
  BY <1>1, FS_Interval
<1>3. StopsAt \in SUBSET (1 .. Len(Contents)) /\ Stopped \in SUBSET Workers
  BY DEF StopsAt, Stopped
<1>4. IsFiniteSet(StopsAt) /\ IsFiniteSet(Stopped)
  BY <1>2, <1>3, FS_Subset, ThreadsAssumption
<1>5. Cardinality(StopsAt) \in Nat /\ Cardinality(Stopped) \in Nat
  BY <1>4, FS_CardinalityType
<1> QED
  BY <1>1, <1>3, <1>4, <1>5 DEF Count

LEMMA CountsOne ==
  ASSUME NEW S, NEW x, IsFiniteSet(S), x \notin S
  PROVE  Cardinality(S \cup {x}) = Cardinality(S) + 1
BY FS_AddElement

LEMMA Shifted ==
  ASSUME NEW S \in SUBSET Nat, NEW T, IsFiniteSet(S), \A x : x \in T <=> x \in Nat /\ x + 1 \in S,
         0 \notin S
  PROVE  Cardinality(T) = Cardinality(S)
<1> DEFINE f == [x \in S |-> x - 1]
<1>1. \A x \in S : x \in Nat /\ x # 0 /\ x - 1 \in Nat /\ (x - 1) + 1 = x
  OBVIOUS
<1>2. f \in [S -> T]
  BY <1>1
<1>3. \A x, y \in S : f[x] = f[y] => x = y
  BY <1>1
<1>4. \A z \in T : z + 1 \in S /\ f[z + 1] = z
  OBVIOUS
<1> HIDE DEF f
<1>5. f \in Bijection(S, T)
  BY <1>2, <1>3, <1>4 DEF Bijection, Injection, Surjection, IsInjective
<1>6. ExistsBijection(S, T)
  BY <1>5 DEF ExistsBijection
<1> QED
  BY <1>6, FS_Bijection

(* One more with each THREAD_STOP that is pushed, and otherwise as many. *)
LEMMA CountKept ==
  ASSUME Contents' = Contents,
         \A w \in Workers : taken'[w] = STOP <=> taken[w] = STOP
  PROVE  StopsAt' = StopsAt /\ Stopped' = Stopped /\ Count' = Count
<1>1. StopsAt' = StopsAt
  BY DEF StopsAt
<1>2. Stopped' = Stopped
  BY DEF Stopped
<1> QED
  BY <1>1, <1>2 DEF Count

LEMMA CountAfterPush ==
  ASSUME TypeOK, PlacesSound, NEW t \in Threads, Puts(t)
  PROVE  /\ Stopped' = Stopped
         /\ t # Owner => StopsAt' = StopsAt /\ Count' = Count
         /\ t = Owner => StopsAt' = StopsAt \cup {Len(Contents) + 1} /\ Count' = Count + 1
<1> DEFINE L == Len(Contents)
           m == msg[t]
<1>1. /\ L \in Nat /\ Len(Contents') = L + 1 /\ \A i \in 1 .. L : Contents'[i] = Contents[i]
      /\ Contents'[L + 1] = m
  BY PushedContents
<1>2. taken' = taken /\ pc[t] = "push"
  BY DEF Puts, PushMessage
<1>3. m = STOP <=> t = Owner
  BY <1>2, Names, Who DEF PlacesSound
<1>4. Stopped' = Stopped
  BY <1>2 DEF Stopped
<1>5. \A i : i \in 1 .. Len(Contents') <=> i \in 1 .. L \/ i = L + 1
  BY <1>1
<1>6. CASE t # Owner
  <2>1. StopsAt' = StopsAt
    BY <1>1, <1>3, <1>5, <1>6 DEF StopsAt
  <2> QED
    BY <1>4, <1>6, <2>1 DEF Count
<1>7. CASE t = Owner
  <2>1. StopsAt' = StopsAt \cup {L + 1} /\ L + 1 \notin StopsAt
    BY <1>1, <1>3, <1>5, <1>7 DEF StopsAt
  <2>2. Cardinality(StopsAt') = Cardinality(StopsAt) + 1
    BY <2>1, StopsFinite, CountsOne
  <2>3. Count' = Count + 1
    <3>1. Cardinality(StopsAt) \in Nat /\ Cardinality(Stopped) \in Nat
      BY StopsFinite
    <3>2. Count' = Cardinality(StopsAt') + Cardinality(Stopped')
      BY DEF Count
    <3> QED
      BY <1>4, <2>2, <3>1, <3>2 DEF Count
  <2> QED
    BY <1>4, <1>7, <2>1, <2>3
<1> QED
  BY <1>6, <1>7

LEMMA CountAfterPop ==
  ASSUME TypeOK, PlacesSound, NEW w \in Workers, PopMessage(w)
  PROVE  /\ Count' = Count /\ \A k : k \in StopsAt' <=> k \in Nat \ {0} /\ k + 1 \in StopsAt
         /\ Contents[1] # STOP => Stopped' = Stopped
         /\ 1 \in StopsAt <=> Contents[1] = STOP
<1> DEFINE L == Len(Contents)
           m == Contents[1]
<1>0. taken \in [Workers -> Messages \cup {None}]
  BY TypeParts DEF ThreadTypes
<1>1. /\ L \in Nat \ {0} /\ Len(Contents') = L - 1
      /\ \A i \in 1 .. Len(Contents') : Contents'[i] = Contents[i + 1]
      /\ taken' = [taken EXCEPT ![w] = m] /\ taken[w] = None
  BY PoppedContents
<1>2. \A i : i \in 1 .. Len(Contents') <=> i \in Nat \ {0} /\ i + 1 \in 1 .. L
  BY <1>1
<1>3. \A k : k \in StopsAt' <=> k \in Nat \ {0} /\ k + 1 \in StopsAt
  BY <1>1, <1>2 DEF StopsAt
<1>4. 1 \in StopsAt <=> m = STOP
  BY <1>1 DEF StopsAt
<1>5. \A u \in Workers : taken'[u] = IF u = w THEN m ELSE taken[u]
  BY <1>0, <1>1
<1>6. w \notin Stopped
  BY <1>1, Names DEF Stopped
<1>7. 0 \notin StopsAt /\ StopsAt \subseteq Nat /\ IsFiniteSet(StopsAt) /\ IsFiniteSet(Stopped)
  BY <1>1, StopsFinite DEF StopsAt
<1>8. Count' = Cardinality(StopsAt') + Cardinality(Stopped')
  BY DEF Count
<1> HIDE DEF m
<1>9. CASE m # STOP
  <2>1. Stopped' = Stopped
    BY <1>5, <1>6, <1>9 DEF Stopped
  <2>2. \A k : k \in StopsAt' <=> k \in Nat /\ k + 1 \in StopsAt
    <3>1. 0 + 1 \notin StopsAt
      BY <1>4, <1>9
    <3> QED
      BY <1>3, <3>1
  <2>3. Cardinality(StopsAt') = Cardinality(StopsAt)
    BY <1>7, <2>2, Shifted
  <2> QED
    BY <1>3, <1>4, <1>8, <2>1, <2>3 DEF Count, m
<1>10. CASE m = STOP
  <2>1. Stopped' = Stopped \cup {w}
    BY <1>5, <1>10 DEF Stopped
  <2>2. Cardinality(Stopped') = Cardinality(Stopped) + 1
    BY <1>6, <1>7, <2>1, CountsOne
  <2> DEFINE S == StopsAt \ {1}
  <2>3. /\ S \in SUBSET Nat /\ IsFiniteSet(S) /\ 0 \notin S
        /\ \A k : k \in StopsAt' <=> k \in Nat /\ k + 1 \in S
    <3>1. IsFiniteSet(S)
      BY <1>7, FS_RemoveElement
    <3> QED
      BY <1>3, <1>7, <3>1
  <2>4. Cardinality(StopsAt') = Cardinality(S)
    <3> HIDE DEF S
    <3> QED
      BY <2>3, Shifted
  <2>5. Cardinality(StopsAt) = Cardinality(S) + 1
    <3>1. StopsAt = S \cup {1} /\ 1 \notin S
      BY <1>4, <1>10
    <3> HIDE DEF S
    <3> QED
      BY <2>3, <3>1, CountsOne
  <2>6. Cardinality(S) \in Nat /\ Cardinality(Stopped) \in Nat
    <3> HIDE DEF S
    <3> QED
      BY <2>3, StopsFinite, FS_CardinalityType
  <2>7. Count' = Count
    <3> HIDE DEF S
    <3> QED
      BY <1>8, <2>2, <2>4, <2>5, <2>6 DEF Count
  <2> QED
    BY <1>3, <1>4, <1>10, <2>7 DEF m
<1> QED
  BY <1>9, <1>10

LEMMA Counted ==
  ASSUME TypeOK, PlacesSound, [Next]_vars
  PROVE  Count' = Count + (IF PushMessage(Owner, "pushed") THEN 1 ELSE 0)
<1>0. Count \in Nat
  BY StopsFinite
<1>1. ASSUME NEW t \in Threads, Puts(t)
      PROVE  Count' = Count + (IF t = Owner THEN 1 ELSE 0)
  BY <1>0, <1>1, CountAfterPush
<1>2. ASSUME NEW t \in Threads, Puts(t), PushMessage(Owner, "pushed")
      PROVE  t = Owner
  <2>1. /\ pc' = [pc EXCEPT ![t] = "pushed"] /\ pc' = [pc EXCEPT ![Owner] = "pushed"]
        /\ pc[Owner] = "push" /\ pc \in [Threads -> Places]
    BY <1>2, TypeParts DEF Puts, PushMessage, Goto, ThreadTypes
  <2> QED
    BY <2>1, Who
<1>3. ASSUME PushMessage(Owner, "pushed")
      PROVE  Puts(Owner)
  BY <1>3, Who DEF Puts
<1>4. CASE \E t \in Threads : Puts(t)
  BY <1>1, <1>2, <1>4 DEF Puts
<1>5. CASE ~ \E t \in Threads : Puts(t)
  <2>1. ~PushMessage(Owner, "pushed")
    BY <1>3, <1>5, Who
  <2>2. Count' = Count
    <3>1. CASE Still
      BY <3>1, CountKept DEF Still
    <3>2. ASSUME NEW c \in Clients, Queues(c)
          PROVE  Count' = Count
      <4>1. Contents' = Contents /\ taken' = taken
        BY <3>2 DEF Queues, QueueJob, QueueJobAlone, queueVars, Contents
      <4> QED
        BY <4>1, CountKept
    <3>3. ASSUME NEW w \in Workers, RunJob(w)
          PROVE  Count' = Count
      BY <3>3, Runs, Names, CountKept
    <3>4. ASSUME NEW w \in Workers, PopMessage(w)
          PROVE  Count' = Count
      BY <3>4, CountAfterPop
    <3> QED
      BY <1>5, <3>1, <3>2, <3>3, <3>4, StepKinds
  <2> QED
    BY <1>0, <2>1, <2>2
<1> QED
  BY <1>4, <1>5

(* What the owner has pushed, where it is, and that the callers are gone.  *)
OwnerStays == /\ pc'[Owner] = pc[Owner] /\ stops' = stops
              /\ \A c \in Callers : pc'[c] # "idle" => pc[c] # "idle" \/ pc[Owner] = "idle"
              /\ \A w \in Workers : pc[w] = "exited" => pc'[w] = "exited"

LEMMA OwnerSteps ==
  ASSUME TypeOK, PlacesSound, [Next]_vars
  PROVE  \/ OwnerStays
         \/ DestroyBegins \/ StopOne \/ JoinAll
         \/ PushMessage(Owner, "pushed") \/ PushNotifies(Owner, "stop")
<1> USE Who
<1>0. pc \in [Threads -> Places]
  BY TypeParts DEF ThreadTypes
<1>1. ASSUME UNCHANGED threadVars
      PROVE  OwnerStays
  BY <1>1 DEF OwnerStays, threadVars
<1>2. ASSUME NEW c \in Clients, NEW p, Goto(c, p), UNCHANGED stops, pc[c] # "exited",
             c \in Callers => pc[c] # "idle" \/ pc[Owner] = "idle"
      PROVE  OwnerStays
  BY <1>0, <1>2 DEF OwnerStays, Goto
<1>3. ASSUME NEW c \in Clients, QueueJob(c) \/ QueueJobAlone(c) \/ WaitBegins(c) \/ Reset(c)
      PROVE  OwnerStays
  <2>1. AtHome(c) \/ pc[c] = "waited"
    BY <1>3 DEF QueueJob, QueueJobAlone, Calls, WaitBegins, Reset
  <2>2. pc[c] # "exited" /\ (c \in Callers => pc[c] # "idle" \/ pc[Owner] = "idle")
    BY <2>1 DEF AtHome
  <2>3. UNCHANGED stops /\ \E p : Goto(c, p)
    BY <1>3 DEF QueueJob, QueueJobAlone, WaitBegins, Reset
  <2> QED
    BY <1>2, <2>2, <2>3
<1>4. ASSUME NEW c \in Clients, ClientStep(c)
      PROVE  OwnerStays
  <2>1. CASE PushSleeps(c)
    BY <1>1, <2>1, Zenon DEF PushSleeps
  <2>2. CASE PushMessage(c, "pushed")
    BY <2>2, <1>2 DEF PushMessage
  <2>3. CASE PushNotifies(c, Home(c))
    BY <2>3, <1>2 DEF PushNotifies
  <2>4. CASE WaitReturns(c)
    BY <2>4, <1>2 DEF WaitReturns
  <2> QED
    BY <1>4, <2>1, <2>2, <2>3, <2>4 DEF ClientStep
<1>5. ASSUME NEW w \in Workers, WorkerStep(w)
      PROVE  OwnerStays
  <2>1. CASE PopSleeps(w)
    BY <1>1, <2>1, Zenon DEF PopSleeps
  <2>2. CASE PopMessage(w)
    BY <2>2, <1>2 DEF PopMessage
  <2>3. CASE PopNotifies(w)
    BY <2>3, <1>2 DEF PopNotifies
  <2>4. CASE RunJob(w)
    BY <2>4, <1>2 DEF RunJob
  <2> QED
    BY <1>5, <2>1, <2>2, <2>3, <2>4 DEF WorkerStep
<1>6. CASE PushSleeps(Owner)
  BY <1>1, <1>6 DEF PushSleeps
<1>7. CASE UNCHANGED vars
  BY <1>1, <1>7 DEF vars
<1> QED
  BY <1>1, <1>3, <1>4, <1>5, <1>6, <1>7 DEF Next, OwnerStep

LEMMA OwnerStaysSound ==
  ASSUME TypeOK, PlacesSound, OwnerSound, [Next]_vars
  PROVE  OwnerSound'
<1>0. /\ pc \in [Threads -> Places] /\ stops \in Nat /\ Count \in Nat /\ Cardinality(Workers) \in Nat
  BY TypeParts, StopsFinite, Bounds DEF ThreadTypes
<1>1. Count' = Count + (IF PushMessage(Owner, "pushed") THEN 1 ELSE 0)
  BY Counted
<1>2. /\ stops = Count + (IF pc[Owner] = "push" THEN 1 ELSE 0)
      /\ pc[Owner] = "idle" => stops = 0
      /\ pc[Owner] # "idle" => \A c \in Callers : pc[c] = "idle"
      /\ pc[Owner] = "deleted" => stops = Cardinality(Workers) /\ \A w \in Workers : pc[w] = "exited"
  BY DEF OwnerSound, Count
<1> SUFFICES /\ stops' = Count' + (IF pc'[Owner] = "push" THEN 1 ELSE 0)
             /\ pc'[Owner] = "idle" => stops' = 0
             /\ pc'[Owner] # "idle" => \A c \in Callers : pc'[c] = "idle"
             /\ pc'[Owner] = "deleted" => stops' = Cardinality(Workers) /\ \A w \in Workers : pc'[w] = "exited"
  BY DEF OwnerSound, Count
<1>3. ASSUME NEW p, Goto(Owner, p)
      PROVE  pc'[Owner] = p /\ \A t \in Threads : t # Owner => pc'[t] = pc[t]
  BY <1>0, <1>3, Who DEF Goto
<1>4. CASE OwnerStays
  <2>1. ~PushMessage(Owner, "pushed")
    <3> SUFFICES ASSUME PushMessage(Owner, "pushed") PROVE FALSE
      OBVIOUS
    <3>1. pc[Owner] = "push" /\ pc'[Owner] = "pushed"
      BY <1>3 DEF PushMessage
    <3> QED
      BY <1>4, <3>1 DEF OwnerStays
  <2> QED
    BY <1>0, <1>1, <1>2, <1>4, <2>1 DEF OwnerStays
<1>5. CASE DestroyBegins
  <2>1. pc[Owner] = "idle" /\ pc'[Owner] = "stop" /\ stops' = stops
        /\ \A c \in Callers : pc[c] = "idle" /\ pc'[c] = pc[c]
    BY <1>3, <1>5, Who DEF DestroyBegins
  <2> QED
    BY <1>0, <1>1, <1>2, <2>1 DEF PushMessage
<1>6. CASE StopOne
  <2>1. pc[Owner] = "stop" /\ pc'[Owner] = "push" /\ stops' = stops + 1
        /\ \A c \in Callers : pc'[c] = pc[c]
    BY <1>3, <1>6, Who DEF StopOne
  <2> QED
    BY <1>0, <1>1, <1>2, <2>1 DEF PushMessage
<1>7. CASE JoinAll
  <2>1. pc[Owner] = "stop" /\ pc'[Owner] = "deleted" /\ stops' = stops
        /\ stops = Cardinality(Workers)
        /\ (\A w \in Workers : pc[w] = "exited" /\ pc'[w] = pc[w])
        /\ (\A c \in Callers : pc'[c] = pc[c])
    BY <1>3, <1>7, Who DEF JoinAll
  <2>2. Count' = Count
    BY <1>0, <1>1, <2>1 DEF PushMessage
  <2>3. \A w \in Workers : pc'[w] = "exited"
    BY <2>1
  <2> QED
    BY <1>0, <1>2, <2>1, <2>2, <2>3
<1>8. CASE PushMessage(Owner, "pushed")
  <2>1. pc[Owner] = "push" /\ pc'[Owner] = "pushed" /\ stops' = stops
        /\ (\A c \in Callers : pc'[c] = pc[c])
    BY <1>3, <1>8, Who DEF PushMessage
  <2> QED
    BY <1>0, <1>1, <1>2, <1>8, <2>1
<1>9. CASE PushNotifies(Owner, "stop")
  <2>1. pc[Owner] = "pushed" /\ pc'[Owner] = "stop" /\ stops' = stops
        /\ (\A c \in Callers : pc'[c] = pc[c])
    BY <1>3, <1>9, Who DEF PushNotifies
  <2> QED
    BY <1>0, <1>1, <1>2, <2>1 DEF PushMessage
<1> QED
  BY <1>4, <1>5, <1>6, <1>7, <1>8, <1>9, OwnerSteps

(* What has to be shown of a step. *)
LEMMA StopsBehindFrom ==
  ASSUME \A i \in 1 .. Len(Contents') :
           Contents'[i] \in Jobs /\ Contents'[i].caller \in Callers =>
             Stopped' = {} /\ \A k \in StopsAt' : i < k
  PROVE  StopsBehind'
BY DEF StopsBehind

LEMMA StopsBehindKept ==
  ASSUME StopsBehind, Contents' = Contents,
         \A w \in Workers : taken'[w] = STOP <=> taken[w] = STOP
  PROVE  StopsBehind'
<1>1. StopsAt' = StopsAt /\ Stopped' = Stopped
  BY CountKept
<1> QED
  BY <1>1 DEF StopsBehind

LEMMA StopsBehindAfterPush ==
  ASSUME TypeOK, PlacesSound, OwnerSound, StopsBehind, NEW t \in Threads, Puts(t)
  PROVE  StopsBehind'
<1> DEFINE L == Len(Contents)
           m == msg[t]
<1>1. /\ L \in Nat /\ Len(Contents') = L + 1 /\ \A i \in 1 .. L : Contents'[i] = Contents[i]
      /\ Contents'[L + 1] = m
  BY PushedContents
<1>2. \A i : i \in 1 .. Len(Contents') <=> i \in 1 .. L \/ i = L + 1
  BY <1>1
<1>3. pc[t] = "push"
  BY DEF Puts, PushMessage
<1>4. Stopped' = Stopped
  BY CountAfterPush
<1>5. StopsAt \subseteq Nat /\ IsFiniteSet(StopsAt) /\ IsFiniteSet(Stopped)
  BY StopsFinite
<1>6. CASE t \in Callers
  <2>1. pc[Owner] = "idle" /\ stops = 0
    BY <1>3, <1>6 DEF OwnerSound
  <2>2. Cardinality(StopsAt) = 0 /\ Cardinality(Stopped) = 0
    <3>1. stops = Cardinality(StopsAt) + Cardinality(Stopped)
      BY <2>1, StopsFinite DEF OwnerSound
    <3> QED
      BY <2>1, <3>1, StopsFinite
  <2>3. StopsAt = {} /\ Stopped = {}
    BY <1>5, <2>2, FS_EmptySet
  <2>4. StopsAt' = {}
    BY <1>6, <2>3, CountAfterPush, Who
  <2> QED
    BY <1>4, <2>3, <2>4, StopsBehindFrom
<1>7. CASE t \in Workers
  <2>1. StopsAt' = StopsAt
    BY <1>7, CountAfterPush, Who
  <2>2. m.caller = t /\ t \notin Callers
    BY <1>3, <1>7, Who DEF PlacesSound
  <2> HIDE DEF m
  <2> QED
    BY <1>1, <1>2, <1>4, <2>1, <2>2, StopsBehindFrom DEF StopsBehind
<1>8. CASE t = Owner
  <2>1. StopsAt' = StopsAt \cup {L + 1}
    BY <1>8, CountAfterPush
  <2>2. m = STOP
    BY <1>3, <1>8 DEF PlacesSound
  <2> HIDE DEF m
  <2>3. ASSUME NEW i \in 1 .. Len(Contents'), Contents'[i] \in Jobs, Contents'[i].caller \in Callers
        PROVE  Stopped' = {} /\ \A k \in StopsAt' : i < k
    <3>1. i \in 1 .. L
      BY <1>1, <1>2, <2>2, <2>3, Names
    <3>2. Stopped = {} /\ \A k \in StopsAt : i < k
      BY <1>1, <2>3, <3>1 DEF StopsBehind
    <3>3. i < L + 1
      BY <1>1, <3>1
    <3> QED
      BY <1>4, <2>1, <3>2, <3>3
  <2> QED
    BY <2>3, StopsBehindFrom
<1> QED
  BY <1>6, <1>7, <1>8, Who

LEMMA StopsBehindAfterPop ==
  ASSUME TypeOK, PlacesSound, StopsBehind, NEW w \in Workers, PopMessage(w)
  PROVE  StopsBehind'
<1>1. /\ Len(Contents) \in Nat \ {0} /\ Len(Contents') = Len(Contents) - 1
      /\ \A i \in 1 .. Len(Contents') : Contents'[i] = Contents[i + 1]
  BY PoppedContents
<1>2. /\ \A k : k \in StopsAt' <=> k \in Nat \ {0} /\ k + 1 \in StopsAt
      /\ Contents[1] # STOP => Stopped' = Stopped
      /\ 1 \in StopsAt <=> Contents[1] = STOP
  BY CountAfterPop
<1>3. ASSUME NEW i \in 1 .. Len(Contents'), Contents'[i] \in Jobs, Contents'[i].caller \in Callers
      PROVE  Stopped' = {} /\ \A k \in StopsAt' : i < k
  <2>1. i + 1 \in 1 .. Len(Contents) /\ Contents'[i] = Contents[i + 1] /\ i \in Nat \ {0}
    BY <1>1
  <2>2. Stopped = {} /\ \A k \in StopsAt : i + 1 < k
    BY <1>3, <2>1 DEF StopsBehind
  <2>3. 1 \notin StopsAt
    BY <2>1, <2>2
  <2>4. Stopped' = {}
    BY <1>2, <2>2, <2>3
  <2>5. \A k \in StopsAt' : k \in Nat /\ i + 1 < k + 1
    BY <1>2, <2>2
  <2> QED
    BY <2>1, <2>4, <2>5
<1> QED
  BY <1>3, StopsBehindFrom

LEMMA StopsBehindStays ==
  ASSUME TypeOK, PlacesSound, OwnerSound, StopsBehind, [Next]_vars
  PROVE  StopsBehind'
<1>1. CASE Still
  BY <1>1, StopsBehindKept DEF Still
<1>2. ASSUME NEW c \in Clients, Queues(c)
      PROVE  StopsBehind'
  <2>1. Contents' = Contents /\ taken' = taken
    BY <1>2 DEF Queues, QueueJob, QueueJobAlone, queueVars, Contents
  <2> QED
    BY <2>1, StopsBehindKept
<1>3. ASSUME NEW w \in Workers, RunJob(w)
      PROVE  StopsBehind'
  BY <1>3, Runs, Names, StopsBehindKept
<1> QED
  BY <1>1, <1>2, <1>3, StepKinds, StopsBehindAfterPush, StopsBehindAfterPop

(* A caller's job is somewhere, in the next state. *)
Somewhere(c, n) ==
  \/ pc'[c] = "push" /\ n = queued'[c]
  \/ \E i \in 1 .. Len(Contents') :
       Contents'[i] \in Jobs /\ Contents'[i].caller = c /\ Contents'[i].number = n
  \/ \E w \in Workers : taken'[w] \in Jobs /\ taken'[w].caller = c /\ taken'[w].number = n
  \/ <<c, n>> \in ran'

LEMMA NothingLostFrom ==
  ASSUME \A c \in Callers : \A n \in 1 .. queued'[c] : Somewhere(c, n)
  PROVE  NothingLost'
BY DEF NothingLost, Accounted, Somewhere

LEMMA NothingLostStays ==
  ASSUME TypeOK, PlacesSound, JobsSound, NothingLost, [Next]_vars
  PROVE  NothingLost'
<1>0. /\ pc \in [Threads -> Places] /\ queued \in [Clients -> Nat]
      /\ taken \in [Workers -> Messages \cup {None}]
  BY TypeParts DEF ThreadTypes
<1>1. CASE Still
  <2>1. \A c \in Callers : \A n \in 1 .. queued'[c] : Somewhere(c, n)
    BY <1>1, Who DEF Still, NothingLost, Accounted, Somewhere
  <2> QED
    BY <2>1, NothingLostFrom
<1>2. ASSUME NEW d \in Clients, Queues(d)
      PROVE  NothingLost'
  <2>1. /\ Contents' = Contents /\ taken' = taken /\ ran' = ran
        /\ queued' = [queued EXCEPT ![d] = queued[d] + 1] /\ pc' = [pc EXCEPT ![d] = "push"]
        /\ pc[d] # "push"
    BY <1>2, Who DEF Queues, QueueJob, QueueJobAlone, Calls, AtHome, Goto, queueVars, Contents
  <2>2. ASSUME NEW c \in Callers, NEW n \in 1 .. queued'[c]
        PROVE  Somewhere(c, n)
    <3>1. CASE c = d /\ n = queued[d] + 1
      BY <1>0, <2>1, <3>1, Who DEF Somewhere
    <3>2. CASE ~(c = d /\ n = queued[d] + 1)
      <4>1. n \in 1 .. queued[c]
        BY <1>0, <2>1, <2>2, <3>2, Who
      <4>2. Accounted(c, n)
        BY <4>1 DEF NothingLost
      <4>3. pc[c] = "push" => c # d /\ pc'[c] = "push" /\ queued'[c] = queued[c]
        BY <1>0, <2>1, Who
      <4> QED
        BY <2>1, <4>2, <4>3 DEF Accounted, Somewhere
    <3> QED
      BY <3>1, <3>2
  <2> QED
    BY <2>2, NothingLostFrom
<1>3. ASSUME NEW t \in Threads, Puts(t)
      PROVE  NothingLost'
  <2> DEFINE L == Len(Contents)
             m == msg[t]
  <2>1. /\ L \in Nat /\ Len(Contents') = L + 1 /\ \A i \in 1 .. L : Contents'[i] = Contents[i]
        /\ Contents'[L + 1] = m
    BY <1>3, PushedContents
  <2>2. /\ pc[t] = "push" /\ pc' = [pc EXCEPT ![t] = "pushed"]
        /\ taken' = taken /\ queued' = queued /\ ran' = ran
    BY <1>3 DEF Puts, PushMessage, Goto
  <2>3. t \in Callers => m \in Jobs /\ m.caller = t /\ m.number = queued[t]
    BY <2>2, Who DEF PlacesSound
  <2>4. L + 1 \in 1 .. Len(Contents') /\ \A i \in 1 .. L : i \in 1 .. Len(Contents')
    BY <2>1
  <2> HIDE DEF m
  <2>5. ASSUME NEW c \in Callers, NEW n \in 1 .. queued'[c]
        PROVE  Somewhere(c, n)
    <3>1. Accounted(c, n)
      BY <2>2, <2>5 DEF NothingLost
    <3>2. CASE c = t /\ n = queued[c]
      BY <2>1, <2>3, <2>4, <3>2 DEF Somewhere
    <3>3. CASE c # t
      <4>1. pc'[c] = pc[c]
        BY <1>0, <2>2, <3>3, Who
      <4> QED
        BY <2>1, <2>2, <2>4, <3>1, <4>1 DEF Accounted, Somewhere
    <3>4. CASE n # queued[c]
      BY <2>1, <2>2, <2>4, <3>1, <3>4 DEF Accounted, Somewhere
    <3> QED
      BY <3>2, <3>3, <3>4
  <2> QED
    BY <2>5, NothingLostFrom
<1>4. ASSUME NEW w \in Workers, PopMessage(w)
      PROVE  NothingLost'
  <2> DEFINE L == Len(Contents)
             m == Contents[1]
  <2>1. /\ L \in Nat \ {0} /\ Len(Contents') = L - 1
        /\ \A i \in 1 .. Len(Contents') : Contents'[i] = Contents[i + 1]
        /\ taken' = [taken EXCEPT ![w] = m] /\ taken[w] = None
    BY <1>4, PoppedContents
  <2>2. /\ pc[w] = "pop" /\ pc' = [pc EXCEPT ![w] = "popped"] /\ queued' = queued /\ ran' = ran
    BY <1>4 DEF PopMessage, Goto
  <2>3. \A i \in 1 .. L : i = 1 \/ (i - 1 \in 1 .. Len(Contents') /\ Contents'[i - 1] = Contents[i])
    BY <2>1
  <2>4. taken'[w] = m /\ \A u \in Workers : taken[u] \in Jobs => taken'[u] = taken[u]
    BY <1>0, <2>1, Names
  <2>5. ASSUME NEW c \in Callers, NEW n \in 1 .. queued'[c]
        PROVE  Somewhere(c, n)
    <3>1. Accounted(c, n)
      BY <2>2, <2>5 DEF NothingLost
    <3>2. pc'[c] = pc[c]
      BY <1>0, <2>2, Who
    <3>3. CASE \E i \in 1 .. L : Contents[i] \in Jobs /\ Contents[i].caller = c /\ Contents[i].number = n
      <4>1. PICK i \in 1 .. L : Contents[i] \in Jobs /\ Contents[i].caller = c /\ Contents[i].number = n
        BY <3>3
      <4>2. CASE i = 1
        BY <2>4, <4>1, <4>2 DEF Somewhere
      <4>3. CASE i # 1
        BY <2>3, <4>1, <4>3 DEF Somewhere
      <4> QED
        BY <4>2, <4>3
    <3>4. CASE ~ \E i \in 1 .. L : Contents[i] \in Jobs /\ Contents[i].caller = c /\ Contents[i].number = n
      BY <2>2, <2>4, <3>1, <3>2, <3>4 DEF Accounted, Somewhere
    <3> QED
      BY <3>3, <3>4
  <2> QED
    BY <2>5, NothingLostFrom
<1>5. ASSUME NEW w \in Workers, RunJob(w)
      PROVE  NothingLost'
  <2> DEFINE m == taken[w]
  <2>1. /\ Contents' = Contents /\ queued' = queued
        /\ ran' = ran \cup {<<m.caller, m.number>>}
        /\ \A u \in Workers : taken'[u] = IF u = w THEN None ELSE taken[u]
        /\ pc' = [pc EXCEPT ![w] = "pop"]
    BY <1>5, Runs
  <2>2. ASSUME NEW c \in Callers, NEW n \in 1 .. queued'[c]
        PROVE  Somewhere(c, n)
    <3>1. Accounted(c, n)
      BY <2>1, <2>2 DEF NothingLost
    <3>2. pc'[c] = pc[c]
      BY <1>0, <2>1, Who
    <3>3. CASE \E u \in Workers : taken[u] \in Jobs /\ taken[u].caller = c /\ taken[u].number = n
      <4>1. PICK u \in Workers : taken[u] \in Jobs /\ taken[u].caller = c /\ taken[u].number = n
        BY <3>3
      <4>2. CASE u = w
        BY <2>1, <4>1, <4>2 DEF Somewhere
      <4>3. CASE u # w
        BY <2>1, <4>1, <4>3 DEF Somewhere
      <4> QED
        BY <4>2, <4>3
    <3>4. CASE ~ \E u \in Workers : taken[u] \in Jobs /\ taken[u].caller = c /\ taken[u].number = n
      BY <2>1, <3>1, <3>2, <3>4 DEF Accounted, Somewhere
    <3> QED
      BY <3>3, <3>4
  <2> QED
    BY <2>2, NothingLostFrom
<1> QED
  BY <1>1, <1>2, <1>3, <1>4, <1>5, StepKinds

(* When the destructor is through, there is no THREAD_STOP left, all that  *)
(* the callers have queued has been run.                                   *)
LEMMA AllWasRun ==
  ASSUME IInv
  PROVE  NothingLeftBehind
<1> SUFFICES ASSUME pc[Owner] = "deleted"
             PROVE  /\ \A i \in DOMAIN Contents : Contents[i].caller \in Workers
                    /\ \A c \in Callers : \A i \in 1 .. queued[c] : <<c, i>> \in ran
  BY DEF NothingLeftBehind
<1>0. TypeOK /\ PlacesSound /\ JobsSound /\ OwnerSound /\ StopsBehind /\ NothingLost
  BY DEF IInv, StopsSound
<1>1. \A w \in Workers : taken[w] = STOP
  BY <1>0 DEF OwnerSound, PlacesSound
<1>2. Stopped = Workers /\ Stopped # {}
  BY <1>1, ThreadsAssumption DEF Stopped
<1>3. StopsAt = {}
  <2>1. /\ stops = Cardinality(StopsAt) + Cardinality(Stopped)
        /\ stops = Cardinality(Workers)
    BY <1>0, StopsFinite DEF OwnerSound
  <2>2. Cardinality(StopsAt) = 0
    BY <1>0, <1>2, <2>1, StopsFinite
  <2> QED
    BY <1>0, <2>2, StopsFinite, FS_EmptySet
<1>4. DOMAIN Contents = 1 .. Len(Contents)
  BY <1>0, TypeParts, RingContents
<1>5. \A i \in 1 .. Len(Contents) : Contents[i] \in Jobs /\ Contents[i].caller \notin Callers
  <2> SUFFICES ASSUME NEW i \in 1 .. Len(Contents)
               PROVE  Contents[i] \in Jobs /\ Contents[i].caller \notin Callers
    OBVIOUS
  <2>1. Contents[i] # STOP
    BY <1>3 DEF StopsAt
  <2>2. Contents[i] \in Jobs
    BY <1>0, <2>1, Names DEF JobsSound, QueuedPending
  <2> QED
    BY <1>0, <1>2, <2>2 DEF StopsBehind
<1>6. \A i \in DOMAIN Contents : Contents[i].caller \in Workers
  BY <1>4, <1>5, Names, Who
<1>7. ASSUME NEW c \in Callers, NEW n \in 1 .. queued[c]
      PROVE  <<c, n>> \in ran
  <2>1. Accounted(c, n) /\ pc[c] = "idle"
    BY <1>0, <1>7 DEF NothingLost, OwnerSound
  <2> QED
    BY <1>1, <1>5, <2>1, Names DEF Accounted
<1> QED
  BY <1>6, <1>7

-----------------------------------------------------------------------------
(* The theorems *)

LEMMA InitInvariant == Init => IInv
<1> SUFFICES ASSUME Init PROVE IInv
  OBVIOUS
<1>1. TypeOK /\ PlacesSound /\ Contents = <<>> /\ Len(Contents) = 0
  BY Initial
<1>2. /\ \A t \in Threads : msg[t] = None
      /\ \A w \in Workers : taken[w] = None
      /\ \A c \in Clients : queued[c] = 0 /\ nJobs[c] = 0
      /\ \A t \in Threads : pc[t] \in {"pop", "idle"}
      /\ pc[Owner] = "idle" /\ stops = 0 /\ ran = {}
      /\ \A c \in Clients, i \in 1 .. MaxSlots : pairs[c][i].by = 0
  BY Who DEF Init, FreshPair
<1>3. JobsSound
  BY <1>1, <1>2, Names DEF JobsSound, QueuedPending, TakenPending, QueuedDiffer, QueuedTakenDiffer,
                           TakenDiffer, RanWereQueued
<1>4. PromisesSound
  BY <1>1, <1>2, Names, Who DEF PromisesSound, MsgPromised, QueuedPromised, TakenPromised,
                                PairsSound, WaitedDone
<1>5. StopsAt = {} /\ Stopped = {}
  BY <1>1, <1>2, Names DEF StopsAt, Stopped
<1>6. OwnerSound
  BY <1>2, <1>5, FS_EmptySet DEF OwnerSound
<1>7. StopsBehind /\ NothingLost
  BY <1>1, <1>2, Who DEF StopsBehind, NothingLost
<1> QED
  BY <1>1, <1>3, <1>4, <1>6, <1>7 DEF IInv, StopsSound

LEMMA NextInvariant == IInv /\ [Next]_vars => IInv'
BY PlacesStay, JobsStay, PromisesStay, OwnerStaysSound, StopsBehindStays, NothingLostStays
   DEF IInv, StopsSound

(* No job is run twice nor by two workers at once, and the destructor      *)
(* leaves no caller's job behind.                                          *)
THEOREM JobsRunOnce == Spec => []EachJobOnce
<1>1. IInv => EachJobOnce
  BY RunOnce, AllWasRun DEF IInv, EachJobOnce
<1> QED
  BY <1>1, InitInvariant, NextInvariant, PTL DEF Spec

(* When Wait has returned, every promise since the last Reset is fulfilled *)
(* by the job that it was handed out for.                                  *)
THEOREM WaitReturnsResults == Spec => []WaitMeansDone
<1>1. IInv => WaitMeansDone
  <2> SUFFICES ASSUME IInv, NEW c \in Clients, pc[c] = "waited", NEW i \in 1 .. nJobs[c]
               PROVE  pairs[c][i].by = pairs[c][i].for /\ <<c, pairs[c][i].for>> \in ran
    BY DEF WaitMeansDone
  <2>1. nJobs \in [Clients -> 0 .. MaxSlots] /\ MaxSlots \in Nat
    BY TypeParts, Bounds DEF IInv, ThreadTypes
  <2>2. i \in 1 .. MaxSlots /\ i <= nJobs[c]
    BY <2>1
  <2> QED
    BY <2>2 DEF IInv, PromisesSound, PairsSound, WaitedDone
<1> QED
  BY <1>1, InitInvariant, NextInvariant, PTL DEF Spec
=============================================================================

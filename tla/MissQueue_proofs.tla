--------------------------- MODULE MissQueue_proofs ---------------------------
(***************************************************************************)
(* The miss queue keeps its registers, its pending list, its blocking      *)
(* flags and its requests for the bus consistent, for any number of MSHRs, *)
(* targets, write buffers, blocks and threads.                             *)
(***************************************************************************)
EXTENDS MissQueue, SequenceTheorems, FiniteSetTheorems, TLAPS

-----------------------------------------------------------------------------
(* The invariant.                                                          *)

\* An MSHR that is sent for reading was not allocated or sent again for a write,
\* so a fill with read permission satisfies one target at least; only a squash
\* leaves an MSHR without a target, and none has more than numTarget; an uncacheable access shares its MSHR with
\* nothing; and a fetching thread has one access in the MSHRs that are its own.
RegisterInv(r) ==
    /\ r \in MSHR
    /\ r.cmd = Read /\ r.targets # <<>> => r.targets[1].cmd = Read
    /\ r.targets = <<>> => Fetches
    /\ Len(r.targets) <= NumTargets
    /\ r.block = NoBlock => Len(r.targets) <= 1
    /\ \A i \in 1 .. Len(r.targets) : r.thread \in {Mixed, r.targets[i].thread}
    /\ Fetches /\ r.thread # Mixed =>
          Len(r.targets) <= 1 /\ \A i \in 1 .. Len(r.targets) : r.targets[i].live

RegistersInv(s) ==
    /\ s \in [Mshrs -> MSHR \cup {Free}]
    /\ \A m \in Mshrs : s[m] # Free => RegisterInv(s[m])

Unsent(s, m) == s[m] # Free /\ ~s[m].inService

\* PendingIsUnsent, of the list p and the registers s.
ListInv(s, p) ==
    /\ p \in Seq(Mshrs)
    /\ \A m \in Mshrs : (\E i \in 1 .. Len(p) : p[i] = m) <=> Unsent(s, m)
    /\ \A i, j \in 1 .. Len(p) : p[i] = p[j] => i = j
    /\ \A i \in 1 .. Len(p) : s[p[i]].targets # <<>>

IInv ==
    /\ TypeOK
    /\ RegistersInv(mshr)
    /\ ListInv(mshr, pending)
    /\ BlockedForCause
    /\ NoTargetIsFull
    /\ OneMissPerBlock
    /\ AsksForBus

-----------------------------------------------------------------------------
(* One register.                                                           *)

LEMMA Constants ==
    /\ NumTargets \in Nat /\ NumTargets >= 2 /\ WriteBuffers \in Nat
    /\ Limits \subseteq 1 .. MaxMSHRs /\ MaxMSHRs \in Nat /\ MaxMSHRs >= 1
    /\ NoMshr \notin Mshrs /\ NoBlock \notin Blocks /\ Mixed \notin Threads
    /\ Read # Write /\ Writeback \notin {Read, Write}
    /\ NoMSHRs # NoTargets /\ NoWBBuffers \notin {NoMSHRs, NoTargets}
    /\ RequestMSHR # RequestWB
    /\ Free \notin MSHR
    /\ Fetches \in BOOLEAN
BY MissQueueAssumption, FreeAssumption

NewRegister(b, tgt) ==
    [block |-> b, cmd |-> tgt.cmd, inService |-> FALSE, thread |-> tgt.thread, targets |-> <<tgt>>]

LEMMA NewRegisterInv ==
    ASSUME NEW b \in Blocks \cup {NoBlock}, NEW tgt \in Target, tgt.live
    PROVE  /\ RegisterInv(NewRegister(b, tgt))
           /\ Len(NewRegister(b, tgt).targets) = 1 /\ NewRegister(b, tgt).targets # <<>>
<1> DEFINE ts == <<tgt>>
<1>1. ts \in Seq(Target) /\ Len(ts) = 1 /\ ts # <<>> /\ ts[1] = tgt
  OBVIOUS
<1>2. /\ tgt.cmd \in {Read, Write} /\ tgt.thread \in Threads
  BY DEF Target
<1> HIDE DEF ts
<1>3. NewRegister(b, tgt) = [block |-> b, cmd |-> tgt.cmd, inService |-> FALSE,
                             thread |-> tgt.thread, targets |-> ts]
  BY DEF NewRegister, ts
<1>4. NewRegister(b, tgt) \in MSHR
  BY <1>1, <1>2, <1>3 DEF MSHR
<1>5. \A i \in 1 .. Len(ts) : ts[i] = tgt
  BY <1>1
<1>6. /\ NewRegister(b, tgt).targets = ts /\ NewRegister(b, tgt).cmd = tgt.cmd
      /\ NewRegister(b, tgt).thread = tgt.thread
  BY <1>3
<1> HIDE DEF NewRegister
<1>7. \A i \in 1 .. Len(ts) : ts[i].live /\ ts[i].thread = tgt.thread
  BY <1>5
<1> DEFINE r == NewRegister(b, tgt)
<1>8. r.cmd = Read /\ r.targets # <<>> => r.targets[1].cmd = Read
  BY <1>1, <1>6
<1>9. Len(r.targets) = 1 /\ r.targets # <<>>
  BY <1>1, <1>6
<1>10. \A i \in 1 .. Len(r.targets) : r.thread \in {Mixed, r.targets[i].thread}
  BY <1>6, <1>7
<1>11. \A i \in 1 .. Len(r.targets) : r.targets[i].live
  BY <1>6, <1>7
<1> HIDE DEF r
<1>12. RegisterInv(r)
  BY <1>4, <1>8, <1>9, <1>10, <1>11, Constants DEF RegisterInv, r
<1> QED
  BY <1>9, <1>12 DEF r

WithTarget(r, tgt) ==
    [r EXCEPT !.targets = Append(@, tgt),
              !.thread  = IF @ = tgt.thread THEN @ ELSE Mixed,
              !.cmd     = IF ~r.inService /\ tgt.cmd = Write THEN Write ELSE @]

LEMMA WithTargetInv ==
    ASSUME NEW r, RegisterInv(r), r.block \in Blocks, NEW tgt \in Target, tgt.live,
           Len(r.targets) < NumTargets,
           Fetches => tgt.cmd = Read,
           Fetches => \A i \in 1 .. Len(r.targets) : ~(r.targets[i].thread = tgt.thread /\ r.targets[i].live)
    PROVE  /\ RegisterInv(WithTarget(r, tgt))
           /\ WithTarget(r, tgt).block = r.block /\ WithTarget(r, tgt).inService = r.inService
           /\ Len(WithTarget(r, tgt).targets) = Len(r.targets) + 1
           /\ WithTarget(r, tgt).targets # <<>>
<1> USE Constants
<1> DEFINE ts == Append(r.targets, tgt)
           th == IF r.thread = tgt.thread THEN r.thread ELSE Mixed
           c  == IF ~r.inService /\ tgt.cmd = Write THEN Write ELSE r.cmd
           n  == Len(r.targets)
<1>1. /\ r \in MSHR /\ r.targets \in Seq(Target) /\ r.cmd \in {Read, Write} /\ r.inService \in BOOLEAN
      /\ r.thread \in Threads \cup {Mixed} /\ tgt.cmd \in {Read, Write} /\ tgt.thread \in Threads
      /\ n \in Nat
  BY LenProperties DEF RegisterInv, MSHR, Target
<1>2. /\ ts \in Seq(Target) /\ Len(ts) = n + 1 /\ ts # <<>> /\ ts[n + 1] = tgt
      /\ \A i \in 1 .. n : ts[i] = r.targets[i]
  BY <1>1, AppendProperties
<1>3. /\ c \in {Read, Write} /\ th \in Threads \cup {Mixed}
  BY <1>1
<1>4. r.targets = <<>> <=> n = 0
  BY <1>1, EmptySeq
<1> HIDE DEF ts, n
<1>5. WithTarget(r, tgt) = [r EXCEPT !.targets = ts, !.thread = th, !.cmd = c]
  BY DEF WithTarget, ts
<1> HIDE DEF th, c
<1>6. /\ WithTarget(r, tgt) \in MSHR
      /\ WithTarget(r, tgt).targets = ts /\ WithTarget(r, tgt).thread = th
      /\ WithTarget(r, tgt).cmd = c /\ WithTarget(r, tgt).block = r.block
      /\ WithTarget(r, tgt).inService = r.inService
  BY <1>1, <1>2, <1>3, <1>5 DEF MSHR
<1>7. c = Read => ts[1].cmd = Read
  <2> SUFFICES ASSUME c = Read PROVE ts[1].cmd = Read
    OBVIOUS
  <2>1. r.cmd = Read
    BY DEF c
  <2>2. CASE n = 0
    BY <1>1, <1>2, <1>4, <2>2 DEF RegisterInv
  <2>3. CASE n # 0
    BY <1>1, <1>2, <1>4, <2>1, <2>3 DEF RegisterInv
  <2> QED
    BY <2>2, <2>3
<1>8. \A i \in 1 .. n + 1 : th \in {Mixed, ts[i].thread}
  BY <1>1, <1>2 DEF th, RegisterInv, n
<1>9. Fetches /\ th # Mixed => n + 1 <= 1 /\ \A i \in 1 .. n + 1 : ts[i].live
  <2> SUFFICES ASSUME Fetches, th # Mixed PROVE n + 1 <= 1 /\ \A i \in 1 .. n + 1 : ts[i].live
    OBVIOUS
  <2>1. r.thread = tgt.thread /\ r.thread # Mixed
    BY <1>1 DEF th
  <2>2. \A i \in 1 .. n : r.targets[i].live /\ r.targets[i].thread = tgt.thread
    BY <2>1 DEF RegisterInv, n
  <2>3. n = 0
    BY <1>1, <2>2 DEF n
  <2> QED
    BY <1>2, <2>3
<1> HIDE DEF WithTarget
<1> QED
  BY <1>2, <1>6, <1>7, <1>8, <1>9 DEF RegisterInv, n

LEMMA SentInv ==
    ASSUME NEW r, RegisterInv(r)
    PROVE  LET s == [r EXCEPT !.inService = TRUE]
           IN  /\ RegisterInv(s) /\ s.inService
               /\ s.block = r.block /\ s.targets = r.targets
<1> DEFINE s == [r EXCEPT !.inService = TRUE]
<1>1. /\ s \in MSHR /\ s.inService /\ s.block = r.block /\ s.targets = r.targets
      /\ s.thread = r.thread /\ s.cmd = r.cmd
  BY DEF RegisterInv, MSHR
<1> HIDE DEF s
<1>2. RegisterInv(s)
  BY <1>1 DEF RegisterInv
<1> QED
  BY <1>1, <1>2 DEF s

\* The targets a fill leaves.
Left(r, k) == SubSeq(r.targets, k + 1, Len(r.targets))

LEMMA LeftProperties ==
    ASSUME NEW r, RegisterInv(r), NEW k \in 0 .. Len(r.targets)
    PROVE  /\ Left(r, k) \in Seq(Target) /\ Len(Left(r, k)) = Len(r.targets) - k
           /\ \A i \in 1 .. Len(Left(r, k)) :
                 Left(r, k)[i] = r.targets[i + k] /\ i + k \in 1 .. Len(r.targets)
           /\ Left(r, k) = <<>> <=> k = Len(r.targets)
<1> DEFINE n == Len(r.targets)
<1>1. r.targets \in Seq(Target) /\ n \in Nat
  BY LenProperties DEF RegisterInv, MSHR
<1>2. \A i \in k + 1 .. n : r.targets[i] \in Target
  BY <1>1, ElementOfSeq
<1>3. /\ Left(r, k) \in Seq(Target)
      /\ Len(Left(r, k)) = IF k + 1 <= n THEN n - (k + 1) + 1 ELSE 0
      /\ \A i \in 1 .. n - (k + 1) + 1 : Left(r, k)[i] = r.targets[k + 1 + i - 1]
  BY <1>1, <1>2, SubSeqProperties DEF Left
<1>4. Left(r, k) = <<>> <=> Len(Left(r, k)) = 0
  BY <1>3, EmptySeq
<1>5. Len(Left(r, k)) = n - k
  BY <1>1, <1>3
<1>6. \A i \in 1 .. n - k : k + 1 + i - 1 = i + k /\ i + k \in 1 .. n
  BY <1>1
<1>7. \A i \in 1 .. n - k : Left(r, k)[i] = r.targets[i + k]
  BY <1>1, <1>3, <1>6
<1> HIDE DEF n
<1> QED
  BY <1>1, <1>3, <1>4, <1>5, <1>6, <1>7 DEF n

LEMMA ResentInv ==
    ASSUME NEW r, RegisterInv(r), NEW k \in 0 .. Len(r.targets), Left(r, k) # <<>>,
           r.block # NoBlock
    PROVE  LET s == Resent(r, Left(r, k))
           IN  /\ RegisterInv(s) /\ ~s.inService
               /\ s.block = r.block /\ s.targets = Left(r, k)
<1> DEFINE s == Resent(r, Left(r, k))
           ts == Left(r, k)
<1>1. /\ ts \in Seq(Target) /\ Len(ts) \in Nat /\ Len(ts) >= 1 /\ Len(ts) <= Len(r.targets)
      /\ Len(r.targets) \in Nat
      /\ \A i \in 1 .. Len(ts) : ts[i] = r.targets[i + k] /\ i + k \in 1 .. Len(r.targets)
  <2>1. r.targets \in Seq(Target) /\ Len(r.targets) \in Nat
    BY LenProperties DEF RegisterInv, MSHR
  <2> QED
    BY <2>1, LeftProperties
<1> HIDE DEF ts
<1>2. s = [r EXCEPT !.targets = ts, !.cmd = ts[1].cmd, !.inService = FALSE]
  BY DEF Resent, ts
<1>3. ts[1].cmd \in {Read, Write}
  <2>1. 1 \in 1 .. Len(ts)
    BY <1>1
  <2>2. ts[1] \in Target
    BY <1>1, <2>1, ElementOfSeq
  <2> QED
    BY <2>2 DEF Target
<1> HIDE DEF s
<1>4. /\ s \in MSHR /\ ~s.inService /\ s.block = r.block /\ s.targets = ts
      /\ s.thread = r.thread /\ s.cmd = ts[1].cmd
  BY <1>1, <1>2, <1>3 DEF RegisterInv, MSHR
<1>5. \A i \in 1 .. Len(ts) : s.thread \in {Mixed, ts[i].thread}
  BY <1>1, <1>4 DEF RegisterInv
<1>6. Fetches /\ s.thread # Mixed => Len(ts) <= 1 /\ \A i \in 1 .. Len(ts) : ts[i].live
  BY <1>1, <1>4 DEF RegisterInv
<1>7. ts # <<>>
  BY DEF ts
<1>8. Len(ts) <= NumTargets
  BY <1>1, Constants DEF RegisterInv
<1>9. RegisterInv(s)
  BY <1>4, <1>5, <1>6, <1>7, <1>8 DEF RegisterInv
<1> QED
  BY <1>4, <1>9 DEF s, ts

\* The accesses of thread t, which squashes, are not live any more.
Stale(ts, t) == [i \in DOMAIN ts |-> IF ts[i].thread = t THEN [ts[i] EXCEPT !.live = FALSE] ELSE ts[i]]

LEMMA StaleInv ==
    ASSUME NEW r, RegisterInv(r), NEW t \in Threads, r.thread # t
    PROVE  LET s == [r EXCEPT !.targets = Stale(@, t)]
           IN  /\ RegisterInv(s) /\ s.block = r.block /\ s.inService = r.inService
               /\ s.thread = r.thread
               /\ Len(s.targets) = Len(r.targets) /\ (s.targets = <<>> <=> r.targets = <<>>)
<1> DEFINE ts == Stale(r.targets, t)
           s  == [r EXCEPT !.targets = ts]
           n  == Len(r.targets)
<1>1. r \in MSHR /\ r.targets \in Seq(Target) /\ n \in Nat /\ DOMAIN r.targets = 1 .. n
  BY LenProperties DEF RegisterInv, MSHR
<1>2. \A i \in 1 .. n : /\ r.targets[i] \in Target
                        /\ [r.targets[i] EXCEPT !.live = FALSE] \in Target
                        /\ [r.targets[i] EXCEPT !.live = FALSE].thread = r.targets[i].thread
                        /\ [r.targets[i] EXCEPT !.live = FALSE].cmd = r.targets[i].cmd
  <2> TAKE i \in 1 .. n
  <2>1. r.targets[i] \in Target
    BY <1>1, ElementOfSeq
  <2> QED
    BY <2>1 DEF Target
<1>3. /\ ts \in [1 .. n -> Target]
      /\ \A i \in 1 .. n : ts[i].thread = r.targets[i].thread /\ ts[i].cmd = r.targets[i].cmd
      /\ \A i \in 1 .. n : r.targets[i].thread # t => ts[i] = r.targets[i]
  <2> HIDE DEF n
  <2>1. ts = [i \in 1 .. n |-> IF r.targets[i].thread = t THEN [r.targets[i] EXCEPT !.live = FALSE]
                               ELSE r.targets[i]]
    BY <1>1 DEF Stale
  <2> HIDE DEF ts
  <2> QED
    BY <1>2, <2>1
<1> HIDE DEF ts
<1>4. ts \in Seq(Target) /\ Len(ts) = n
  BY <1>1, <1>3
<1>5. ts = <<>> <=> r.targets = <<>>
  BY <1>1, <1>4, EmptySeq
<1>6. /\ s \in MSHR /\ s.block = r.block /\ s.inService = r.inService /\ s.thread = r.thread
      /\ s.cmd = r.cmd /\ s.targets = ts
  BY <1>1, <1>4 DEF MSHR
<1> HIDE DEF s
<1>7. s.cmd = Read /\ ts # <<>> => ts[1].cmd = Read
  <2>1. r.targets # <<>> => 1 \in 1 .. n
    BY <1>1, EmptySeq
  <2> QED
    BY <1>3, <1>5, <1>6, <2>1 DEF RegisterInv
<1>8. \A i \in 1 .. n : s.thread \in {Mixed, ts[i].thread}
  BY <1>3, <1>6 DEF RegisterInv
<1>9. Fetches /\ s.thread # Mixed => n <= 1 /\ \A i \in 1 .. n : ts[i].live
  <2> SUFFICES ASSUME Fetches, s.thread # Mixed
               PROVE  n <= 1 /\ \A i \in 1 .. n : ts[i].live
    OBVIOUS
  <2>1. \A i \in 1 .. n : r.targets[i].thread = r.thread /\ r.targets[i].live
    BY <1>6 DEF RegisterInv
  <2>2. \A i \in 1 .. n : ts[i] = r.targets[i]
    BY <1>3, <2>1
  <2> QED
    BY <1>6, <2>1, <2>2 DEF RegisterInv
<1>10. RegisterInv(s)
  BY <1>4, <1>5, <1>6, <1>7, <1>8, <1>9 DEF RegisterInv
<1> QED
  BY <1>4, <1>5, <1>6, <1>10 DEF s, n, ts

LEMMA EmptiedInv ==
    ASSUME NEW r, RegisterInv(r), Fetches
    PROVE  LET s == [r EXCEPT !.targets = <<>>]
           IN  /\ RegisterInv(s) /\ s.block = r.block /\ s.inService = r.inService
               /\ Len(s.targets) = 0
<1> DEFINE s == [r EXCEPT !.targets = <<>>]
<1>1. /\ s \in MSHR /\ s.block = r.block /\ s.inService = r.inService /\ s.targets = <<>>
  BY EmptySeq DEF RegisterInv, MSHR
<1>2. Len(s.targets) = 0
  BY <1>1
<1> HIDE DEF s
<1>3. RegisterInv(s)
  BY <1>1, <1>2, Constants DEF RegisterInv
<1> QED
  BY <1>1, <1>2, <1>3 DEF s

-----------------------------------------------------------------------------
(* The pending list.                                                       *)

\* An MSHR that is to be sent (again) is put at the end.
LEMMA ListAppend ==
    ASSUME NEW s \in [Mshrs -> MSHR \cup {Free}], NEW p, ListInv(s, p),
           NEW m \in Mshrs, ~Unsent(s, m),
           NEW r \in MSHR, ~r.inService, r.targets # <<>>
    PROVE  ListInv([s EXCEPT ![m] = r], Append(p, m))
<1> DEFINE s2 == [s EXCEPT ![m] = r]
           p2 == Append(p, m)
           n  == Len(p)
<1>1. p \in Seq(Mshrs) /\ n \in Nat /\ \A i \in 1 .. n : p[i] \in Mshrs
  BY LenProperties, ElementOfSeq DEF ListInv
<1>2. /\ p2 \in Seq(Mshrs) /\ Len(p2) = n + 1 /\ p2[n + 1] = m
      /\ \A i \in 1 .. n : p2[i] = p[i]
  BY <1>1, AppendProperties
<1>3. s2[m] = r /\ \A k \in Mshrs \ {m} : s2[k] = s[k]
  OBVIOUS
<1>4. Unsent(s2, m)
  BY <1>3, Constants DEF Unsent
<1>5. \A i \in 1 .. n : p[i] # m
  BY <1>1 DEF ListInv
<1>6. \A k \in Mshrs \ {m} : Unsent(s2, k) <=> Unsent(s, k)
  BY <1>3 DEF Unsent
<1> HIDE DEF s2, p2
<1>7. \A k \in Mshrs : (\E i \in 1 .. n + 1 : p2[i] = k) <=> Unsent(s2, k)
  <2> TAKE k \in Mshrs
  <2>1. CASE k = m
    BY <1>1, <1>2, <1>4, <2>1
  <2>2. CASE k # m
    <3>1. (\E i \in 1 .. n + 1 : p2[i] = k) <=> (\E i \in 1 .. n : p[i] = k)
      BY <1>1, <1>2, <2>2
    <3> QED
      BY <1>6, <2>2, <3>1 DEF ListInv
  <2> QED
    BY <2>1, <2>2
<1>8. \A i, j \in 1 .. n + 1 : p2[i] = p2[j] => i = j
  <2> TAKE i, j \in 1 .. n + 1
  <2>1. \/ i \in 1 .. n /\ p2[i] = p[i] /\ p[i] # m
        \/ i = n + 1 /\ p2[i] = m
    BY <1>1, <1>2, <1>5
  <2>2. \/ j \in 1 .. n /\ p2[j] = p[j] /\ p[j] # m
        \/ j = n + 1 /\ p2[j] = m
    BY <1>1, <1>2, <1>5
  <2>3. i \in 1 .. n /\ j \in 1 .. n /\ p[i] = p[j] => i = j
    BY DEF ListInv
  <2> QED
    BY <2>1, <2>2, <2>3
<1>9. \A i \in 1 .. n + 1 : s2[p2[i]].targets # <<>>
  BY <1>1, <1>2, <1>3, <1>5 DEF ListInv
<1> QED
  BY <1>2, <1>7, <1>8, <1>9 DEF ListInv, s2, p2

\* The first MSHR is sent.
LEMMA ListTail ==
    ASSUME NEW s \in [Mshrs -> MSHR \cup {Free}], NEW p, ListInv(s, p), p # <<>>,
           NEW r \in MSHR, r.inService
    PROVE  /\ Head(p) \in Mshrs /\ Unsent(s, Head(p))
           /\ ListInv([s EXCEPT ![Head(p)] = r], Tail(p))
<1> DEFINE m  == Head(p)
           s2 == [s EXCEPT ![m] = r]
           p2 == Tail(p)
           n  == Len(p)
<1>1. /\ p \in Seq(Mshrs) /\ n \in Nat /\ n >= 1 /\ \A i \in 1 .. n : p[i] \in Mshrs
      /\ m = p[1]
  <2>1. p \in Seq(Mshrs)
    BY DEF ListInv
  <2> QED
    BY <2>1, LenProperties, ElementOfSeq, EmptySeq
<1>2. /\ p2 \in Seq(Mshrs) /\ Len(p2) = n - 1
      /\ \A i \in 1 .. n - 1 : p2[i] = p[i + 1]
  <2>1. /\ p2 \in Seq(Mshrs) /\ Len(p2) = n - 1
        /\ \A i \in 1 .. Len(p2) : p2[i] = p[i + 1]
    BY <1>1, HeadTailProperties
  <2> QED
    BY <2>1
<1>3. m \in Mshrs /\ Unsent(s, m)
  BY <1>1 DEF ListInv
<1> HIDE DEF m
<1>4. s2[m] = r /\ \A k \in Mshrs \ {m} : s2[k] = s[k]
  BY <1>3
<1>5. ~Unsent(s2, m)
  BY <1>4 DEF Unsent
<1>6. \A i \in 1 .. n : p[i] = m <=> i = 1
  BY <1>1 DEF ListInv
<1>7. \A k \in Mshrs \ {m} : Unsent(s2, k) <=> Unsent(s, k)
  BY <1>4 DEF Unsent
<1> HIDE DEF s2, p2
<1>8. \A k \in Mshrs : (\E i \in 1 .. n - 1 : p2[i] = k) <=> Unsent(s2, k)
  <2> TAKE k \in Mshrs
  <2>1. CASE k = m
    BY <1>1, <1>2, <1>5, <1>6, <2>1
  <2>2. CASE k # m
    <3>1. ASSUME NEW i \in 1 .. n, p[i] = k
          PROVE  \E j \in 1 .. n - 1 : p2[j] = k
      <4>1. i # 1
        BY <1>6, <2>2, <3>1
      <4>2. i - 1 \in 1 .. n - 1 /\ p2[i - 1] = p[i - 1 + 1] /\ i - 1 + 1 = i
        BY <1>1, <1>2, <4>1
      <4> QED
        BY <3>1, <4>2
    <3>2. ASSUME NEW j \in 1 .. n - 1, p2[j] = k
          PROVE  \E i \in 1 .. n : p[i] = k
      BY <1>1, <1>2, <3>2
    <3> QED
      BY <1>7, <2>2, <3>1, <3>2 DEF ListInv
  <2> QED
    BY <2>1, <2>2
<1>9. \A i, j \in 1 .. n - 1 : p2[i] = p2[j] => i = j
  <2> TAKE i, j \in 1 .. n - 1
  <2>1. i + 1 \in 1 .. n /\ j + 1 \in 1 .. n /\ p2[i] = p[i + 1] /\ p2[j] = p[j + 1]
    BY <1>1, <1>2
  <2>2. p[i + 1] = p[j + 1] => i + 1 = j + 1
    BY <2>1 DEF ListInv
  <2> QED
    BY <2>1, <2>2
<1>10. \A i \in 1 .. n - 1 : s2[p2[i]].targets # <<>>
  <2> TAKE i \in 1 .. n - 1
  <2>1. i + 1 \in 1 .. n /\ p2[i] = p[i + 1] /\ p[i + 1] # m
    BY <1>1, <1>2, <1>6
  <2> QED
    BY <1>1, <1>4, <2>1 DEF ListInv
<1> QED
  BY <1>2, <1>3, <1>8, <1>9, <1>10 DEF ListInv, s2, p2, m

\* The list stays when no MSHR on it loses its targets or is sent.
LEMMA ListSame ==
    ASSUME NEW s, NEW s2, NEW p, ListInv(s, p),
           \A m \in Mshrs : Unsent(s2, m) <=> Unsent(s, m),
           \A m \in Mshrs : Unsent(s2, m) => s2[m].targets # <<>>
    PROVE  ListInv(s2, p)
<1>1. \A i \in 1 .. Len(p) : p[i] \in Mshrs
  BY ElementOfSeq DEF ListInv
<1>2. \A i \in 1 .. Len(p) : Unsent(s2, p[i])
  BY <1>1 DEF ListInv
<1> QED
  BY <1>1, <1>2 DEF ListInv

\* MSHRs that are squashed are taken off.
LEMMA ListUnlisted ==
    ASSUME NEW s, NEW S, ListInv(s, pending), NEW s2,
           NEW q \in Unlisted(S),
           \A m \in Mshrs : Unsent(s2, m) <=> Unsent(s, m) /\ m \notin S,
           \A m \in Mshrs : Unsent(s2, m) => s2[m].targets # <<>>
    PROVE  ListInv(s2, q)
<1> DEFINE p == pending
           n == Len(p)
<1>1. p \in Seq(Mshrs) /\ n \in Nat /\ DOMAIN p = 1 .. n /\ \A i \in 1 .. n : p[i] \in Mshrs
  BY LenProperties, ElementOfSeq DEF ListInv
<1>2. PICK k \in 0 .. n : q \in [1 .. k -> Mshrs]
  BY DEF Unlisted, SeqOf
<1>3. q \in Seq(Mshrs) /\ Len(q) = k /\ DOMAIN q = 1 .. k /\ k \in Nat
  BY <1>1, <1>2
<1>4. /\ Range(q) = Range(p) \ S
      /\ \A i, j \in 1 .. k : i < j =>
            \E h, l \in 1 .. n : h < l /\ p[h] = q[i] /\ p[l] = q[j]
  <2>1. /\ Range(q) = Range(p) \ S
        /\ \A i, j \in DOMAIN q : i < j =>
              \E h, l \in DOMAIN p : h < l /\ p[h] = q[i] /\ p[l] = q[j]
    BY DEF Unlisted
  <2>2. DOMAIN q = 1 .. k /\ DOMAIN p = 1 .. n
    BY <1>1, <1>3
  <2> HIDE DEF p, n
  <2>3. ASSUME NEW i \in 1 .. k, NEW j \in 1 .. k, i < j
        PROVE  \E h, l \in 1 .. n : h < l /\ p[h] = q[i] /\ p[l] = q[j]
    <3>1. i \in DOMAIN q /\ j \in DOMAIN q
      BY <2>2
    <3>2. PICK h \in DOMAIN p, l \in DOMAIN p : h < l /\ p[h] = q[i] /\ p[l] = q[j]
      BY <2>1, <2>3, <3>1
    <3> QED
      BY <2>2, <3>2
  <2> QED
    BY <2>1, <2>3
<1> HIDE DEF p, n
<1>5. \A m : (\E i \in 1 .. k : q[i] = m) <=> (\E i \in 1 .. n : p[i] = m) /\ m \notin S
  <2>1. Range(q) = {q[i] : i \in 1 .. k} /\ Range(p) = {p[i] : i \in 1 .. n}
    BY <1>1, <1>3 DEF Range
  <2> QED
    BY <1>4, <2>1
<1>6. \A m \in Mshrs : (\E i \in 1 .. k : q[i] = m) <=> Unsent(s2, m)
  BY <1>5 DEF ListInv, p, n
<1>7. ASSUME NEW i \in 1 .. k, NEW j \in 1 .. k, i < j
      PROVE  q[i] # q[j]
  <2>1. PICK h \in 1 .. n, l \in 1 .. n : h < l /\ p[h] = q[i] /\ p[l] = q[j]
    BY <1>4, <1>7
  <2>2. p[h] # p[l]
    BY <1>1, <2>1 DEF ListInv, p, n
  <2> QED
    BY <2>1, <2>2
<1>8. \A i, j \in 1 .. k : q[i] = q[j] => i = j
  <2> TAKE i, j \in 1 .. k
  <2>1. i < j \/ i = j \/ j < i
    BY <1>3
  <2> QED
    BY <1>7, <2>1
<1>9. \A i \in 1 .. k : s2[q[i]].targets # <<>>
  BY <1>2, <1>3, <1>6
<1> QED
  BY <1>3, <1>6, <1>8, <1>9 DEF ListInv

-----------------------------------------------------------------------------
(* Full and not full.                                                      *)

LEMMA FullOfMore ==
    ASSUME NEW s, NEW s2, Allocated(s2) \subseteq Allocated(s), NEW n \in Int, IsFull(s2, n)
    PROVE  IsFull(s, n)
<1>1. IsFiniteSet(Mshrs) /\ Allocated(s) \in SUBSET Mshrs
  BY MissQueueAssumption DEF Allocated
<1>2. IsFiniteSet(Allocated(s))
  BY <1>1, FS_Subset
<1>3. Cardinality(Allocated(s2)) <= Cardinality(Allocated(s)) /\ IsFiniteSet(Allocated(s2))
  BY <1>2, FS_Subset
<1>4. Cardinality(Allocated(s)) \in Nat /\ Cardinality(Allocated(s2)) \in Nat
  BY <1>2, <1>3, FS_CardinalityType
<1> QED
  BY <1>3, <1>4 DEF IsFull

LEMMA SameFull ==
    ASSUME NEW s, NEW s2, NEW n, Allocated(s2) = Allocated(s)
    PROVE  IsFull(s2, n) <=> IsFull(s, n)
BY DEF IsFull

-----------------------------------------------------------------------------
(* The actions.                                                            *)

LEMMA InitEstablishes == Init => IInv
<1> SUFFICES ASSUME Init PROVE IInv
  OBVIOUS
<1> USE Constants DEF Init
<1>1. TypeOK
  BY EmptySeq DEF TypeOK
<1>2. RegistersInv(mshr)
  BY DEF RegistersInv
<1>3. ListInv(mshr, pending)
  BY EmptySeq DEF ListInv, Unsent
<1>4. BlockedForCause
  <2>1. Allocated(mshr) = {}
    BY DEF Allocated
  <2>2. Cardinality(Allocated(mshr)) = 0
    BY <2>1, FS_EmptySet
  <2>3. ~IsFull(mshr, limit)
    BY <2>2, MissQueueAssumption DEF IsFull
  <2>4. WbAllocated = 0
    BY EmptySeq DEF WbAllocated
  <2>5. ~WbIsFull(WbAllocated)
    BY <2>4, MissQueueAssumption DEF WbIsFull
  <2> QED
    BY <2>3, <2>5 DEF BlockedForCause
<1>5. NoTargetIsFull /\ OneMissPerBlock /\ AsksForBus
  BY DEF NoTargetIsFull, OneMissPerBlock, Holds, AsksForBus
<1> QED
  BY <1>1, <1>2, <1>3, <1>4, <1>5 DEF IInv

\* What an access relies on: no MSHR is out of targets, mq and wb have room.
LEMMA NotBlocked ==
    ASSUME IInv, blocked = {}
    PROVE  /\ ~IsFull(mshr, limit) /\ noTarget = NoMshr /\ ~WbIsFull(WbAllocated)
           /\ \A m \in Mshrs : mshr[m] # Free => Len(mshr[m].targets) < NumTargets
<1>1. ~IsFull(mshr, limit) /\ noTarget = NoMshr /\ ~WbIsFull(WbAllocated)
  BY DEF IInv, BlockedForCause
<1>2. ASSUME NEW m \in Mshrs, mshr[m] # Free
      PROVE  Len(mshr[m].targets) < NumTargets
  <2>1. m # noTarget
    BY <1>1, Constants
  <2>2. ~(Len(mshr[m].targets) >= NumTargets)
    BY <1>2, <2>1 DEF IInv, NoTargetIsFull
  <2>3. mshr[m].targets \in Seq(Target)
    BY <1>2 DEF IInv, RegistersInv, RegisterInv, MSHR
  <2>4. Len(mshr[m].targets) \in Nat
    BY <2>3, LenProperties
  <2> QED
    BY <2>2, <2>4, Constants
<1> QED
  BY <1>1, <1>2

LEMMA AllocateMissPreserves ==
    ASSUME IInv, blocked = {}, NEW b \in Blocks \cup {NoBlock}, NEW tgt \in Target, tgt.live,
           b = NoBlock \/ ~\E m \in Mshrs : Holds(m, b),
           AllocateMiss(b, tgt)
    PROVE  IInv'
<1> USE Constants
<1> DEFINE r == NewRegister(b, tgt)
<1>1. PICK m \in Mshrs : /\ mshr[m] = Free
                         /\ mshr' = [mshr EXCEPT ![m] = r]
                         /\ pending' = Append(pending, m)
                         /\ blocked' = blocked \cup Flag(NoMSHRs, IsFull(mshr', limit))
                         /\ requests' = requests \cup {RequestMSHR}
  BY DEF AllocateMiss, NewRegister
<1>2. UNCHANGED <<limit, noTarget, wbPending, wbInService>>
  BY DEF AllocateMiss
<1>3. /\ RegisterInv(r) /\ Len(r.targets) = 1 /\ r.targets # <<>> /\ r \in MSHR
      /\ r.block = b /\ ~r.inService
  BY NewRegisterInv DEF NewRegister, RegisterInv
<1> HIDE DEF r
<1>4. mshr \in [Mshrs -> MSHR \cup {Free}] /\ r # Free
  BY <1>3 DEF IInv, TypeOK
<1>5. mshr'[m] = r /\ \A k \in Mshrs \ {m} : mshr'[k] = mshr[k]
  BY <1>1, <1>4
<1>6. RegistersInv(mshr')
  BY <1>1, <1>3, <1>4, <1>5 DEF IInv, RegistersInv
<1>7. ListInv(mshr', pending')
  <2>1. ~Unsent(mshr, m)
    BY <1>1 DEF Unsent
  <2> QED
    BY <1>1, <1>3, <1>4, <2>1, ListAppend DEF IInv
<1>8. TypeOK'
  BY <1>1, <1>2, <1>6, <1>7 DEF IInv, TypeOK, RegistersInv, ListInv, Flag
<1>9. BlockedForCause'
  <2>1. noTarget' = NoMshr /\ ~WbIsFull(WbAllocated')
    BY <1>2, NotBlocked DEF WbAllocated, WbIsFull
  <2>2. blocked' = Flag(NoMSHRs, IsFull(mshr', limit')) /\ limit' = limit
    BY <1>1, <1>2
  <2> QED
    BY <2>1, <2>2 DEF BlockedForCause, Flag, WbIsFull
<1>10. NoTargetIsFull'
  <2> SUFFICES ASSUME NEW k \in Mshrs
               PROVE  (k = noTarget <=> mshr[k] # Free /\ Len(mshr[k].targets) >= NumTargets)'
    BY DEF NoTargetIsFull
  <2>1. noTarget = NoMshr
    BY NotBlocked
  <2>2. CASE k = m
    <3>1. Len(mshr'[k].targets) = 1
      BY <1>3, <1>5, <2>2
    <3>2. noTarget' = NoMshr /\ ~(Len(mshr'[k].targets) >= NumTargets)
      BY <1>2, <2>1, <3>1
    <3> QED
      BY <3>2
  <2>3. CASE k # m
    BY <1>2, <1>5, <2>3 DEF IInv, NoTargetIsFull
  <2> QED
    BY <2>2, <2>3
<1>11. OneMissPerBlock'
  BY <1>1, <1>3, <1>4, <1>5 DEF IInv, OneMissPerBlock, Holds
<1>12. AsksForBus'
  <2>1. pending' # <<>>
    BY <1>1, AppendProperties DEF IInv, TypeOK
  <2> QED
    BY <1>1, <1>2, <2>1 DEF IInv, AsksForBus
<1> QED
  BY <1>6, <1>7, <1>8, <1>9, <1>10, <1>11, <1>12 DEF IInv

LEMMA AllocateTargetPreserves ==
    ASSUME IInv, blocked = {}, NEW m \in Mshrs, NEW b \in Blocks, Holds(m, b),
           NEW tgt \in Target, tgt.live, Fetches => tgt.cmd = Read,
           Fetches => \A i \in 1 .. Len(mshr[m].targets) :
                         ~(mshr[m].targets[i].thread = tgt.thread /\ mshr[m].targets[i].live),
           AllocateTarget(m, tgt)
    PROVE  IInv'
<1> USE Constants
<1> DEFINE r == WithTarget(mshr[m], tgt)
<1>0. /\ mshr \in [Mshrs -> MSHR \cup {Free}] /\ mshr[m] # Free /\ mshr[m].block = b
      /\ RegisterInv(mshr[m]) /\ mshr[m] \in MSHR
      /\ Len(mshr[m].targets) < NumTargets /\ noTarget = NoMshr
  BY NotBlocked DEF IInv, RegistersInv, Holds, TypeOK, RegisterInv
<1>1. mshr' = [mshr EXCEPT ![m] = r]
  BY <1>0 DEF AllocateTarget, WithTarget
<1>2. /\ IF Len(mshr'[m].targets) = NumTargets
         THEN noTarget' = m /\ blocked' = blocked \cup {NoTargets}
         ELSE noTarget' = noTarget /\ blocked' = blocked
      /\ UNCHANGED <<pending, limit, wbPending, wbInService, requests>>
  BY DEF AllocateTarget
<1>3. /\ RegisterInv(r) /\ r.block = b /\ r.inService = mshr[m].inService
      /\ Len(r.targets) = Len(mshr[m].targets) + 1 /\ r.targets # <<>> /\ r \in MSHR
  BY <1>0, WithTargetInv DEF RegisterInv
<1> HIDE DEF r
<1>4. r # Free
  BY <1>3
<1>5. mshr'[m] = r /\ \A k \in Mshrs \ {m} : mshr'[k] = mshr[k]
  BY <1>0, <1>1
<1>6. RegistersInv(mshr')
  BY <1>0, <1>1, <1>3, <1>5 DEF IInv, RegistersInv
<1>7. ListInv(mshr', pending')
  <2>1. \A k \in Mshrs : Unsent(mshr', k) <=> Unsent(mshr, k)
    BY <1>0, <1>3, <1>4, <1>5 DEF Unsent
  <2>2. \A k \in Mshrs : Unsent(mshr, k) => mshr[k].targets # <<>>
    BY DEF IInv, ListInv
  <2>3. \A k \in Mshrs : Unsent(mshr', k) => mshr'[k].targets # <<>>
    BY <1>3, <1>5, <2>1, <2>2
  <2> QED
    BY <1>2, <2>1, <2>3, ListSame DEF IInv
<1>8. TypeOK'
  BY <1>2, <1>6, <1>7 DEF IInv, TypeOK, RegistersInv, ListInv
<1>9. BlockedForCause'
  <2>1. Allocated(mshr') = Allocated(mshr)
    BY <1>0, <1>4, <1>5 DEF Allocated
  <2>2. ~IsFull(mshr', limit') /\ ~WbIsFull(WbAllocated')
    BY <1>2, <2>1, NotBlocked, SameFull DEF WbAllocated, WbIsFull
  <2>3. NoTargets \in blocked' <=> noTarget' # NoMshr
    BY <1>0, <1>2
  <2>4. blocked' \subseteq {NoTargets}
    BY <1>2
  <2> QED
    BY <2>2, <2>3, <2>4 DEF BlockedForCause, WbIsFull
<1>10. NoTargetIsFull'
  <2> SUFFICES ASSUME NEW k \in Mshrs
               PROVE  (k = noTarget <=> mshr[k] # Free /\ Len(mshr[k].targets) >= NumTargets)'
    BY DEF NoTargetIsFull
  <2>1. CASE k = m
    <3>1. Len(r.targets) \in Nat /\ Len(r.targets) <= NumTargets
      BY <1>3, LenProperties DEF RegisterInv, MSHR
    <3>2. Len(mshr'[k].targets) >= NumTargets <=> Len(mshr'[k].targets) = NumTargets
      BY <1>5, <2>1, <3>1
    <3>3. k = noTarget' <=> Len(mshr'[k].targets) = NumTargets
      BY <1>0, <1>2, <2>1
    <3> QED
      BY <1>4, <1>5, <2>1, <3>2, <3>3
  <2>2. CASE k # m
    <3>1. k # noTarget'
      BY <1>0, <1>2, <2>2
    <3>2. ~(mshr[k] # Free /\ Len(mshr[k].targets) >= NumTargets)
      BY <1>0 DEF IInv, NoTargetIsFull
    <3> QED
      BY <1>5, <2>2, <3>1, <3>2
  <2> QED
    BY <2>1, <2>2
<1>11. OneMissPerBlock'
  <2>1. \A k \in Mshrs : \A c \in Blocks : Holds(k, c)' <=> Holds(k, c)
    BY <1>0, <1>3, <1>4, <1>5 DEF Holds
  <2> QED
    BY <2>1 DEF IInv, OneMissPerBlock
<1>12. AsksForBus'
  BY <1>2 DEF IInv, AsksForBus
<1> QED
  BY <1>6, <1>7, <1>8, <1>9, <1>10, <1>11, <1>12 DEF IInv

LEMMA MissPreserves ==
    ASSUME IInv, NEW t \in Threads, NEW b \in Blocks, NEW c \in {Read, Write}, Miss(t, b, c)
    PROVE  IInv'
<1> DEFINE tgt == [cmd |-> c, thread |-> t, live |-> TRUE]
<1>1. tgt \in Target /\ tgt.live /\ tgt.cmd = c /\ tgt.thread = t
  BY DEF Target
<1> HIDE DEF tgt
<1>2. /\ blocked = {} /\ (Fetches => c = Read)
      /\ Fetches => \A m \in Allocated(mshr) : \A i \in 1 .. Len(mshr[m].targets) :
                       ~(mshr[m].targets[i].thread = t /\ mshr[m].targets[i].live)
      /\ IF \E m \in Mshrs : Holds(m, b)
         THEN \E m \in Mshrs : Holds(m, b) /\ AllocateTarget(m, tgt)
         ELSE AllocateMiss(b, tgt)
  BY DEF Miss, MayAccess, tgt
<1>3. CASE \E m \in Mshrs : Holds(m, b)
  <2>1. PICK m \in Mshrs : Holds(m, b) /\ AllocateTarget(m, tgt)
    BY <1>2, <1>3
  <2>2. m \in Allocated(mshr)
    BY <2>1 DEF Holds, Allocated
  <2>3. Fetches => \A i \in 1 .. Len(mshr[m].targets) :
                      ~(mshr[m].targets[i].thread = tgt.thread /\ mshr[m].targets[i].live)
    BY <1>1, <1>2, <2>2
  <2> QED
    BY <1>1, <1>2, <2>1, <2>3, AllocateTargetPreserves
<1>4. CASE ~\E m \in Mshrs : Holds(m, b)
  <2>1. AllocateMiss(b, tgt)
    BY <1>2, <1>4
  <2> QED
    BY <1>1, <1>2, <1>4, <2>1, AllocateMissPreserves
<1> QED
  BY <1>3, <1>4

LEMMA UncachedReadPreserves ==
    ASSUME IInv, NEW t \in Threads, UncachedRead(t)
    PROVE  IInv'
<1> DEFINE tgt == [cmd |-> Read, thread |-> t, live |-> TRUE]
<1>1. tgt \in Target /\ tgt.live
  BY DEF Target
<1> HIDE DEF tgt
<1>2. blocked = {} /\ AllocateMiss(NoBlock, tgt)
  BY DEF UncachedRead, MayAccess, tgt
<1> QED
  BY <1>1, <1>2, AllocateMissPreserves

\* The counts of the write buffers.
LEMMA WbCounts ==
    ASSUME IInv
    PROVE  /\ Len(wbPending) \in Nat /\ wbInService \in Nat
           /\ \A c \in {Writeback, Write} :
                 /\ Append(wbPending, c) \in Seq({Writeback, Write})
                 /\ Append(wbPending, c) # <<>>
                 /\ Len(Append(wbPending, c)) = Len(wbPending) + 1
           /\ wbPending # <<>> =>
                 /\ Head(wbPending) \in {Writeback, Write}
                 /\ Tail(wbPending) \in Seq({Writeback, Write})
                 /\ Len(Tail(wbPending)) = Len(wbPending) - 1
<1>1. wbPending \in Seq({Writeback, Write}) /\ wbInService \in Nat
  BY DEF IInv, TypeOK
<1>2. Len(wbPending) \in Nat
  BY <1>1, LenProperties
<1>3. ASSUME NEW c \in {Writeback, Write}
      PROVE  /\ Append(wbPending, c) \in Seq({Writeback, Write})
             /\ Append(wbPending, c) # <<>>
             /\ Len(Append(wbPending, c)) = Len(wbPending) + 1
  BY <1>1, AppendProperties
<1>4. ASSUME wbPending # <<>>
      PROVE  /\ Head(wbPending) \in {Writeback, Write}
             /\ Tail(wbPending) \in Seq({Writeback, Write})
             /\ Len(Tail(wbPending)) = Len(wbPending) - 1
  BY <1>1, <1>4, HeadTailProperties
<1> QED
  BY <1>1, <1>2, <1>3, <1>4

\* A step that leaves mq alone.
LEMMA MqUntouched ==
    ASSUME IInv, UNCHANGED <<mshr, pending, limit, noTarget>>
    PROVE  /\ RegistersInv(mshr') /\ ListInv(mshr', pending')
           /\ NoTargetIsFull' /\ OneMissPerBlock'
           /\ IsFull(mshr', limit') <=> IsFull(mshr, limit)
BY DEF IInv, NoTargetIsFull, OneMissPerBlock, Holds

LEMMA WriteOutPreserves ==
    ASSUME IInv, NEW c \in {Write, Writeback}, WriteOut(c)
    PROVE  IInv'
<1> USE Constants
<1>1. /\ blocked = {} /\ wbPending' = Append(wbPending, c)
      /\ blocked' = blocked \cup Flag(NoWBBuffers, WbIsFull(WbAllocated + 1))
      /\ requests' = requests \cup {RequestWB}
      /\ UNCHANGED <<mshr, pending, limit, noTarget, wbInService>>
  BY DEF WriteOut, BlockedByWrite
<1>2. WbAllocated' = WbAllocated + 1 /\ wbPending' # <<>>
  BY <1>1, WbCounts DEF WbAllocated
<1>3. TypeOK'
  BY <1>1, WbCounts DEF IInv, TypeOK, Flag
<1>4. BlockedForCause'
  <2>1. ~IsFull(mshr', limit') /\ noTarget' = NoMshr
    BY <1>1, NotBlocked, MqUntouched
  <2>2. NoWBBuffers \in blocked' <=> WbIsFull(WbAllocated')
    BY <1>1, <1>2 DEF Flag
  <2>3. blocked' \subseteq {NoWBBuffers}
    BY <1>1 DEF Flag
  <2> QED
    BY <2>1, <2>2, <2>3 DEF BlockedForCause, WbIsFull
<1>5. AsksForBus'
  BY <1>1, <1>2 DEF IInv, AsksForBus
<1> QED
  BY <1>1, <1>3, <1>4, <1>5, MqUntouched DEF IInv

LEMMA IssueMissPreserves ==
    ASSUME IInv, IssueMiss
    PROVE  IInv'
<1> USE Constants
<1> DEFINE m == Head(pending)
           r == [mshr[m] EXCEPT !.inService = TRUE]
<1>1. /\ pending # <<>> /\ pending' = Tail(pending)
      /\ mshr' = [mshr EXCEPT ![m] = r]
      /\ requests' = requests \ Flag(RequestMSHR, pending' = <<>>)
      /\ UNCHANGED <<limit, noTarget, wbPending, wbInService, blocked>>
  BY DEF IssueMiss
<1>2. m \in Mshrs /\ Unsent(mshr, m)
  <2>1. pending \in Seq(Mshrs) /\ Len(pending) \in Nat /\ Len(pending) >= 1
    BY <1>1, LenProperties, EmptySeq DEF IInv, TypeOK
  <2>2. m = pending[1] /\ 1 \in 1 .. Len(pending)
    BY <2>1
  <2>3. m \in Mshrs
    BY <2>1, <2>2, ElementOfSeq
  <2> QED
    BY <2>2, <2>3 DEF IInv, ListInv
<1> HIDE DEF m
<1>3. mshr \in [Mshrs -> MSHR \cup {Free}] /\ RegisterInv(mshr[m]) /\ mshr[m] # Free
  BY <1>2 DEF IInv, RegistersInv, Unsent
<1>4. /\ RegisterInv(r) /\ r \in MSHR /\ r.inService
      /\ r.block = mshr[m].block /\ r.targets = mshr[m].targets
  BY <1>3, SentInv DEF RegisterInv
<1> HIDE DEF r
<1>5. r # Free
  BY <1>4
<1>6. mshr'[m] = r /\ \A k \in Mshrs \ {m} : mshr'[k] = mshr[k]
  BY <1>1, <1>2, <1>3
<1>7. RegistersInv(mshr')
  BY <1>1, <1>3, <1>4, <1>6 DEF IInv, RegistersInv
<1>8. ListInv(mshr', pending')
  BY <1>1, <1>3, <1>4, ListTail DEF IInv, m
<1>9. TypeOK'
  BY <1>1, <1>7, <1>8 DEF IInv, TypeOK, RegistersInv, ListInv, Flag
<1>10. BlockedForCause'
  <2>1. Allocated(mshr') = Allocated(mshr)
    BY <1>3, <1>5, <1>6 DEF Allocated
  <2>2. IsFull(mshr', limit') <=> IsFull(mshr, limit)
    BY <1>1, <2>1, SameFull
  <2>3. WbAllocated' = WbAllocated
    BY <1>1 DEF WbAllocated
  <2> QED
    BY <1>1, <2>2, <2>3 DEF IInv, BlockedForCause, WbIsFull
<1>11. NoTargetIsFull'
  <2> SUFFICES ASSUME NEW k \in Mshrs
               PROVE  (k = noTarget <=> mshr[k] # Free /\ Len(mshr[k].targets) >= NumTargets)'
    BY DEF NoTargetIsFull
  <2>1. (mshr'[k] # Free <=> mshr[k] # Free) /\ (mshr[k] # Free => mshr'[k].targets = mshr[k].targets)
    BY <1>3, <1>4, <1>5, <1>6
  <2> QED
    BY <1>1, <2>1 DEF IInv, NoTargetIsFull
<1>12. OneMissPerBlock'
  <2>1. \A k \in Mshrs : \A c \in Blocks : Holds(k, c)' <=> Holds(k, c)
    BY <1>3, <1>4, <1>5, <1>6 DEF Holds
  <2> QED
    BY <2>1 DEF IInv, OneMissPerBlock
<1>13. AsksForBus'
  BY <1>1 DEF IInv, AsksForBus, Flag
<1> QED
  BY <1>7, <1>8, <1>9, <1>10, <1>11, <1>12, <1>13 DEF IInv

LEMMA IssueWritePreserves ==
    ASSUME IInv, IssueWrite
    PROVE  IInv'
<1> USE Constants
<1>1. /\ wbPending # <<>> /\ wbPending' = Tail(wbPending)
      /\ wbInService' = IF Head(wbPending) = Write THEN wbInService + 1 ELSE wbInService
      /\ requests' = requests \ Flag(RequestWB, wbPending' = <<>>)
      /\ blocked' = blocked \ Flag(NoWBBuffers, WbIsFull(WbAllocated) /\ ~WbIsFull(WbAllocated'))
      /\ UNCHANGED <<mshr, pending, limit, noTarget>>
  BY DEF IssueWrite
<1>2. TypeOK'
  BY <1>1, WbCounts DEF IInv, TypeOK, Flag
<1>3. WbAllocated' \in Int /\ WbAllocated \in Int /\ WbAllocated' <= WbAllocated
  BY <1>1, WbCounts DEF WbAllocated
<1>4. BlockedForCause'
  <2>1. WbIsFull(WbAllocated') => WbIsFull(WbAllocated)
    BY <1>3 DEF WbIsFull
  <2>2. NoWBBuffers \in blocked' <=> WbIsFull(WbAllocated')
    BY <1>1, <2>1 DEF IInv, BlockedForCause, Flag
  <2>3. (NoMSHRs \in blocked' <=> NoMSHRs \in blocked) /\ (NoTargets \in blocked' <=> NoTargets \in blocked)
    BY <1>1 DEF Flag
  <2> QED
    BY <1>1, <2>2, <2>3, MqUntouched DEF IInv, BlockedForCause, WbIsFull
<1>5. AsksForBus'
  BY <1>1 DEF IInv, AsksForBus, Flag
<1> QED
  BY <1>1, <1>2, <1>4, <1>5, MqUntouched DEF IInv

LEMMA UncachedWriteDonePreserves ==
    ASSUME IInv, UncachedWriteDone
    PROVE  IInv'
<1> USE Constants
<1>1. /\ wbInService > 0 /\ wbInService' = wbInService - 1
      /\ blocked' = blocked \ Flag(NoWBBuffers, WbIsFull(WbAllocated) /\ ~WbIsFull(WbAllocated - 1))
      /\ UNCHANGED <<mshr, pending, limit, noTarget, wbPending, requests>>
  BY DEF UncachedWriteDone
<1>2. TypeOK'
  BY <1>1, WbCounts DEF IInv, TypeOK
<1>3. WbAllocated \in Int /\ WbAllocated' = WbAllocated - 1
  BY <1>1, WbCounts DEF WbAllocated
<1>4. BlockedForCause'
  <2>1. WbIsFull(WbAllocated - 1) => WbIsFull(WbAllocated)
    BY <1>3 DEF WbIsFull
  <2>2. NoWBBuffers \in blocked' <=> WbIsFull(WbAllocated - 1)
    BY <1>1, <2>1 DEF IInv, BlockedForCause, Flag
  <2>3. (NoMSHRs \in blocked' <=> NoMSHRs \in blocked) /\ (NoTargets \in blocked' <=> NoTargets \in blocked)
    BY <1>1 DEF Flag
  <2> QED
    BY <1>1, <1>3, <2>2, <2>3, MqUntouched DEF IInv, BlockedForCause, WbIsFull
<1>5. AsksForBus'
  BY <1>1 DEF IInv, AsksForBus
<1> QED
  BY <1>1, <1>2, <1>4, <1>5, MqUntouched DEF IInv

\* An MSHR is freed by its response.
LEMMA FreeRegister ==
    ASSUME IInv, NEW m \in Mshrs, mshr[m] # Free, mshr[m].inService,
           mshr' = [mshr EXCEPT ![m] = Free]
    PROVE  /\ RegistersInv(mshr') /\ ListInv(mshr', pending) /\ OneMissPerBlock'
           /\ mshr'[m] = Free /\ \A k \in Mshrs \ {m} : mshr'[k] = mshr[k]
           /\ Allocated(mshr') \subseteq Allocated(mshr)
<1>1. mshr \in [Mshrs -> MSHR \cup {Free}]
  BY DEF IInv, RegistersInv
<1>2. mshr'[m] = Free /\ \A k \in Mshrs \ {m} : mshr'[k] = mshr[k]
  BY <1>1
<1>3. RegistersInv(mshr')
  BY <1>1, <1>2 DEF IInv, RegistersInv
<1>4. ListInv(mshr', pending)
  <2>1. \A k \in Mshrs : Unsent(mshr', k) <=> Unsent(mshr, k)
    BY <1>2 DEF Unsent
  <2>2. \A k \in Mshrs : Unsent(mshr, k) => mshr[k].targets # <<>>
    BY DEF IInv, ListInv
  <2>3. \A k \in Mshrs : Unsent(mshr', k) => mshr'[k].targets # <<>>
    BY <1>2, <2>2 DEF Unsent
  <2> QED
    BY <2>1, <2>3, ListSame DEF IInv
<1>5. OneMissPerBlock'
  BY <1>2 DEF IInv, OneMissPerBlock, Holds
<1>6. Allocated(mshr') \subseteq Allocated(mshr)
  BY <1>2 DEF Allocated
<1> QED
  BY <1>2, <1>3, <1>4, <1>5, <1>6

\* Freeing MSHRs leaves the flag NoMSHRs as it must be.
LEMMA MqUnblocks ==
    ASSUME IInv, Allocated(mshr') \subseteq Allocated(mshr), limit' = limit
    PROVE  (NoMSHRs \in blocked /\ ~(IsFull(mshr, limit) /\ ~IsFull(mshr', limit)))
              <=> IsFull(mshr', limit')
<1>1. limit \in Int
  BY DEF IInv, TypeOK
<1>2. IsFull(mshr', limit) => IsFull(mshr, limit)
  BY <1>1, FullOfMore
<1> QED
  BY <1>2 DEF IInv, BlockedForCause

LEMMA UncachedReadDonePreserves ==
    ASSUME IInv, NEW m \in Mshrs, UncachedReadDone(m)
    PROVE  IInv'
<1> USE Constants
<1>1. /\ mshr[m] # Free /\ mshr[m].inService /\ mshr[m].block = NoBlock
      /\ mshr' = [mshr EXCEPT ![m] = Free]
      /\ blocked' = blocked \ Unblocks(m, mshr')
      /\ UNCHANGED <<pending, limit, noTarget, wbPending, wbInService, requests>>
  BY DEF UncachedReadDone
<1>2. /\ RegistersInv(mshr') /\ ListInv(mshr', pending) /\ OneMissPerBlock'
      /\ mshr'[m] = Free /\ \A k \in Mshrs \ {m} : mshr'[k] = mshr[k]
      /\ Allocated(mshr') \subseteq Allocated(mshr)
  BY <1>1, FreeRegister
<1>3. m # noTarget
  <2>1. mshr[m].targets \in Seq(Target) /\ Len(mshr[m].targets) <= 1
    BY <1>1 DEF IInv, RegistersInv, RegisterInv, MSHR
  <2>2. Len(mshr[m].targets) \in Nat
    BY <2>1, LenProperties
  <2> QED
    BY <2>1, <2>2 DEF IInv, NoTargetIsFull
<1>4. TypeOK'
  BY <1>1, <1>2 DEF IInv, TypeOK, RegistersInv
<1>5. BlockedForCause'
  <2>1. blocked' = blocked \ Flag(NoMSHRs, IsFull(mshr, limit) /\ ~IsFull(mshr', limit))
    BY <1>1, <1>3 DEF Unblocks, Flag
  <2>2. NoMSHRs \in blocked' <=> IsFull(mshr', limit')
    BY <1>1, <1>2, <2>1, MqUnblocks DEF Flag
  <2>3. WbAllocated' = WbAllocated
    BY <1>1 DEF WbAllocated
  <2>4. /\ NoTargets \in blocked' <=> NoTargets \in blocked
        /\ NoWBBuffers \in blocked' <=> NoWBBuffers \in blocked
    BY <2>1 DEF Flag
  <2> QED
    BY <1>1, <2>2, <2>3, <2>4 DEF IInv, BlockedForCause, WbIsFull
<1>6. NoTargetIsFull'
  BY <1>1, <1>2, <1>3 DEF IInv, NoTargetIsFull
<1>7. AsksForBus'
  BY <1>1 DEF IInv, AsksForBus
<1> QED
  BY <1>1, <1>2, <1>4, <1>5, <1>6, <1>7 DEF IInv

\* A fill satisfies one target at least, if it leaves any.
LEMMA FillSatisfies ==
    ASSUME NEW r, RegisterInv(r), NEW k \in Satisfied(r)
    PROVE  /\ k \in 0 .. Len(r.targets) /\ Len(r.targets) \in Nat
           /\ Left(r, k) # <<>> => k >= 1
<1> DEFINE n == Len(r.targets)
<1>1. r.targets \in Seq(Target) /\ n \in Nat
  BY LenProperties DEF RegisterInv, MSHR
<1>2. \/ k = n
      \/ k \in 0 .. n - 1 /\ r.cmd = Read /\ r.targets[k + 1].cmd = Write
  BY DEF Satisfied
<1>3. k \in 0 .. n
  BY <1>1, <1>2
<1>4. ASSUME Left(r, k) # <<>>, k = 0
      PROVE  FALSE
  <2>1. n # 0
    BY <1>3, <1>4, LeftProperties
  <2>2. r.targets # <<>>
    BY <1>1, <2>1, EmptySeq
  <2>3. r.cmd = Read /\ r.targets[1].cmd = Write
    BY <1>2, <1>4, <2>1
  <2> QED
    BY <2>2, <2>3, Constants DEF RegisterInv
<1> QED
  BY <1>1, <1>3, <1>4

\* The writeback that a fill may cause.
LEMMA FillWriteback ==
    ASSUME IInv, NEW evicts \in BOOLEAN,
           wbPending' = IF evicts THEN Append(wbPending, Writeback) ELSE wbPending,
           wbInService' = wbInService
    PROVE  /\ wbPending' \in Seq({Writeback, Write})
           /\ wbPending' # <<>> <=> evicts \/ wbPending # <<>>
           /\ NoWBBuffers \in (IF evicts THEN BlockedByWrite ELSE blocked) <=> WbIsFull(WbAllocated')
           /\ (IF evicts THEN BlockedByWrite ELSE blocked) \subseteq {NoMSHRs, NoTargets, NoWBBuffers}
           /\ NoMSHRs \in (IF evicts THEN BlockedByWrite ELSE blocked) <=> NoMSHRs \in blocked
           /\ NoTargets \in (IF evicts THEN BlockedByWrite ELSE blocked) <=> NoTargets \in blocked
<1> USE Constants
<1>1. CASE evicts
  <2>0. wbPending' = Append(wbPending, Writeback) /\ Len(wbPending') = Len(wbPending) + 1
    BY <1>1, WbCounts
  <2>01. Len(wbPending) \in Nat /\ wbInService \in Nat
    BY WbCounts
  <2>02. WbAllocated = Len(wbPending) + wbInService /\ WbAllocated' = Len(wbPending') + wbInService
    BY DEF WbAllocated
  <2> DEFINE n == Len(wbPending)
             n2 == Len(wbPending')
  <2>03. n2 = n + 1 /\ n \in Nat /\ WbAllocated = n + wbInService /\ WbAllocated' = n2 + wbInService
    BY <2>0, <2>01, <2>02
  <2> HIDE DEF n, n2
  <2>1. WbAllocated' = WbAllocated + 1 /\ WbAllocated \in Int
    BY <2>01, <2>03
  <2>2. WbIsFull(WbAllocated) => WbIsFull(WbAllocated + 1)
    BY <2>1 DEF WbIsFull
  <2>3. BlockedByWrite = blocked \cup Flag(NoWBBuffers, WbIsFull(WbAllocated'))
    BY <2>1 DEF BlockedByWrite
  <2>4. NoWBBuffers \in blocked <=> WbIsFull(WbAllocated)
    BY DEF IInv, BlockedForCause
  <2>5. NoWBBuffers \in BlockedByWrite <=> WbIsFull(WbAllocated')
    BY <2>1, <2>2, <2>3, <2>4 DEF Flag
  <2>6. blocked \subseteq {NoMSHRs, NoTargets, NoWBBuffers}
    BY DEF IInv, TypeOK
  <2> QED
    BY <1>1, <2>3, <2>5, <2>6, WbCounts DEF Flag
<1>2. CASE ~evicts
  <2>1. WbAllocated' = WbAllocated
    BY <1>2 DEF WbAllocated
  <2> QED
    BY <1>2, <2>1 DEF IInv, TypeOK, BlockedForCause, WbIsFull
<1> QED
  BY <1>1, <1>2

\* A fill that leaves no target.
LEMMA FillFrees ==
    ASSUME IInv, NEW m \in Mshrs, NEW k \in 0 .. NumTargets, NEW evicts \in BOOLEAN,
           Fill(m, k, evicts), Left(mshr[m], k) = <<>>
    PROVE  IInv'
<1> USE Constants
<1>1. /\ mshr[m] # Free /\ mshr[m].inService
      /\ mshr' = [mshr EXCEPT ![m] = Free] /\ pending' = pending
      /\ noTarget' = IF m = noTarget THEN NoMshr ELSE noTarget
      /\ wbPending' = IF evicts THEN Append(wbPending, Writeback) ELSE wbPending
      /\ requests' = requests \cup Flag(RequestWB, evicts)
      /\ blocked' = (IF evicts THEN BlockedByWrite ELSE blocked) \ Unblocks(m, mshr')
      /\ limit' = limit /\ wbInService' = wbInService
  BY DEF Fill, Left, Flag
<1>2. /\ RegistersInv(mshr') /\ ListInv(mshr', pending) /\ OneMissPerBlock'
      /\ mshr'[m] = Free /\ \A i \in Mshrs \ {m} : mshr'[i] = mshr[i]
      /\ Allocated(mshr') \subseteq Allocated(mshr)
  BY <1>1, FreeRegister
<1> DEFINE b == IF evicts THEN BlockedByWrite ELSE blocked
<1>3. /\ wbPending' \in Seq({Writeback, Write})
      /\ wbPending' # <<>> <=> evicts \/ wbPending # <<>>
      /\ NoWBBuffers \in b <=> WbIsFull(WbAllocated')
      /\ b \subseteq {NoMSHRs, NoTargets, NoWBBuffers}
      /\ NoMSHRs \in b <=> NoMSHRs \in blocked
      /\ NoTargets \in b <=> NoTargets \in blocked
  BY <1>1, FillWriteback
<1>4. blocked' = b \ Unblocks(m, mshr')
  BY <1>1
<1> HIDE DEF b
<1>5. TypeOK'
  BY <1>1, <1>2, <1>3, <1>4 DEF IInv, TypeOK, RegistersInv, Flag
<1>6. BlockedForCause'
  <2>1. NoMSHRs \in blocked' <=> IsFull(mshr', limit')
    BY <1>1, <1>2, <1>3, <1>4, MqUnblocks DEF Unblocks, Flag
  <2>2. NoTargets \in blocked' <=> noTarget' # NoMshr
    BY <1>1, <1>3, <1>4 DEF Unblocks, Flag, IInv, BlockedForCause
  <2>3. NoWBBuffers \in blocked' <=> WbIsFull(WbAllocated')
    BY <1>3, <1>4 DEF Unblocks, Flag
  <2> QED
    BY <2>1, <2>2, <2>3 DEF BlockedForCause, WbIsFull
<1>7. NoTargetIsFull'
  BY <1>1, <1>2 DEF IInv, NoTargetIsFull
<1>8. AsksForBus'
  BY <1>1, <1>3 DEF IInv, AsksForBus, Flag
<1> QED
  BY <1>1, <1>2, <1>5, <1>6, <1>7, <1>8 DEF IInv

\* A fill whose MSHR is sent again.
LEMMA FillResends ==
    ASSUME IInv, NEW m \in Mshrs, NEW k \in 0 .. NumTargets, NEW evicts \in BOOLEAN,
           Fill(m, k, evicts), Left(mshr[m], k) # <<>>
    PROVE  IInv'
<1> USE Constants
<1> DEFINE r == Resent(mshr[m], Left(mshr[m], k))
<1>1. /\ mshr[m] # Free /\ mshr[m].inService /\ mshr[m].block # NoBlock /\ k \in Satisfied(mshr[m])
      /\ mshr' = [mshr EXCEPT ![m] = r] /\ pending' = Append(pending, m)
      /\ noTarget' = IF m = noTarget THEN NoMshr ELSE noTarget
      /\ wbPending' = IF evicts THEN Append(wbPending, Writeback) ELSE wbPending
      /\ requests' = requests \cup Flag(RequestWB, evicts) \cup {RequestMSHR}
      /\ blocked' = (IF evicts THEN BlockedByWrite ELSE blocked) \ Unblocks(m, mshr')
      /\ limit' = limit /\ wbInService' = wbInService
  BY DEF Fill, Left, Flag
<1>2. /\ mshr \in [Mshrs -> MSHR \cup {Free}] /\ RegisterInv(mshr[m])
      /\ k \in 0 .. Len(mshr[m].targets) /\ Len(mshr[m].targets) \in Nat /\ k >= 1
  BY <1>1, FillSatisfies DEF IInv, RegistersInv
<1>3. Len(Left(mshr[m], k)) = Len(mshr[m].targets) - k
  BY <1>2, LeftProperties
<1>4. /\ RegisterInv(r) /\ r \in MSHR /\ ~r.inService /\ r.block = mshr[m].block
      /\ r.targets # <<>> /\ Len(r.targets) = Len(mshr[m].targets) - k
  BY <1>1, <1>2, <1>3, ResentInv DEF RegisterInv
<1> HIDE DEF r
<1>5. r # Free /\ mshr'[m] = r /\ \A i \in Mshrs \ {m} : mshr'[i] = mshr[i]
  BY <1>1, <1>2, <1>4
<1>6. RegistersInv(mshr')
  BY <1>1, <1>2, <1>4, <1>5 DEF IInv, RegistersInv
<1>7. ListInv(mshr', pending')
  <2>1. ~Unsent(mshr, m)
    BY <1>1 DEF Unsent
  <2> QED
    BY <1>1, <1>2, <1>4, <2>1, ListAppend DEF IInv
<1>8. Allocated(mshr') = Allocated(mshr)
  BY <1>1, <1>5 DEF Allocated
<1> DEFINE b == IF evicts THEN BlockedByWrite ELSE blocked
<1>9. /\ wbPending' \in Seq({Writeback, Write})
      /\ wbPending' # <<>> <=> evicts \/ wbPending # <<>>
      /\ NoWBBuffers \in b <=> WbIsFull(WbAllocated')
      /\ b \subseteq {NoMSHRs, NoTargets, NoWBBuffers}
      /\ NoMSHRs \in b <=> NoMSHRs \in blocked
      /\ NoTargets \in b <=> NoTargets \in blocked
  BY <1>1, FillWriteback
<1>10. blocked' = b \ Unblocks(m, mshr')
  BY <1>1
<1> HIDE DEF b
<1>11. TypeOK'
  BY <1>1, <1>6, <1>7, <1>9, <1>10 DEF IInv, TypeOK, RegistersInv, ListInv, Flag
<1>12. BlockedForCause'
  <2>1. NoMSHRs \in blocked' <=> IsFull(mshr', limit')
    BY <1>1, <1>8, <1>9, <1>10, MqUnblocks DEF Unblocks, Flag
  <2>2. NoTargets \in blocked' <=> noTarget' # NoMshr
    BY <1>1, <1>9, <1>10 DEF Unblocks, Flag, IInv, BlockedForCause
  <2>3. NoWBBuffers \in blocked' <=> WbIsFull(WbAllocated')
    BY <1>9, <1>10 DEF Unblocks, Flag
  <2> QED
    BY <2>1, <2>2, <2>3 DEF BlockedForCause, WbIsFull
<1>13. NoTargetIsFull'
  <2> SUFFICES ASSUME NEW i \in Mshrs
               PROVE  (i = noTarget <=> mshr[i] # Free /\ Len(mshr[i].targets) >= NumTargets)'
    BY DEF NoTargetIsFull
  <2>1. CASE i = m
    <3>1. Len(mshr[m].targets) <= NumTargets
      BY <1>2 DEF RegisterInv
    <3>2. ~(Len(mshr'[i].targets) >= NumTargets)
      BY <1>2, <1>4, <1>5, <2>1, <3>1
    <3> QED
      BY <1>1, <2>1, <3>2
  <2>2. CASE i # m
    <3>1. i = noTarget' <=> i = noTarget
      BY <1>1, <2>2
    <3> QED
      BY <1>5, <2>2, <3>1 DEF IInv, NoTargetIsFull
  <2> QED
    BY <2>1, <2>2
<1>14. OneMissPerBlock'
  <2>1. \A i \in Mshrs : \A c \in Blocks : Holds(i, c)' <=> Holds(i, c)
    BY <1>1, <1>4, <1>5 DEF Holds
  <2> QED
    BY <2>1 DEF IInv, OneMissPerBlock
<1>15. AsksForBus'
  <2>1. pending' # <<>>
    BY <1>1, AppendProperties DEF IInv, TypeOK
  <2> QED
    BY <1>1, <1>9, <2>1 DEF IInv, AsksForBus, Flag
<1> QED
  BY <1>6, <1>7, <1>11, <1>12, <1>13, <1>14, <1>15 DEF IInv

LEMMA SetNumMSHRsPreserves ==
    ASSUME IInv, NEW n \in Limits, SetNumMSHRs(n)
    PROVE  IInv'
<1> USE Constants
<1>1. /\ limit' = n
      /\ blocked' = IF IsFull(mshr, n) THEN blocked \cup {NoMSHRs} ELSE blocked \ {NoMSHRs}
      /\ UNCHANGED <<mshr, pending, noTarget, wbPending, wbInService, requests>>
  BY DEF SetNumMSHRs
<1>2. TypeOK'
  BY <1>1 DEF IInv, TypeOK
<1>3. BlockedForCause'
  <2>1. NoMSHRs \in blocked' <=> IsFull(mshr', limit')
    BY <1>1
  <2>2. /\ NoTargets \in blocked' <=> NoTargets \in blocked
        /\ NoWBBuffers \in blocked' <=> NoWBBuffers \in blocked
    BY <1>1
  <2>3. WbAllocated' = WbAllocated
    BY <1>1 DEF WbAllocated
  <2> QED
    BY <1>1, <2>1, <2>2, <2>3 DEF IInv, BlockedForCause, WbIsFull
<1>4. RegistersInv(mshr') /\ ListInv(mshr', pending') /\ NoTargetIsFull' /\ OneMissPerBlock' /\ AsksForBus'
  BY <1>1 DEF IInv, NoTargetIsFull, OneMissPerBlock, Holds, AsksForBus
<1> QED
  BY <1>2, <1>3, <1>4 DEF IInv

\* A squash leaves the MSHRs shared with another thread, and those already sent
\* without a target; only MSHRs with one target are squashed, so noTarget stays.
Own(t) == {m \in Allocated(mshr) : mshr[m].thread = t}

Squashed(m, t) ==
    CASE m \in Own(t) /\ mshr[m].inService  -> [mshr[m] EXCEPT !.targets = <<>>]
      [] m \in Own(t) /\ ~mshr[m].inService -> Free
      [] m \in Allocated(mshr) \ Own(t)     -> [mshr[m] EXCEPT !.targets = Stale(@, t)]
      [] OTHER -> Free

\* What a squash does to one register.
KeptSame(m) ==
    /\ RegisterInv(mshr'[m])
    /\ mshr'[m].block = mshr[m].block /\ mshr'[m].inService = mshr[m].inService

LEMMA SquashedRegister ==
    ASSUME IInv, Fetches, NEW t \in Threads, NEW m \in Mshrs, mshr'[m] = Squashed(m, t)
    PROVE  /\ mshr[m] = Free => mshr'[m] = Free
           /\ m \in Own(t) => Len(mshr[m].targets) < NumTargets
           /\ m \in Own(t) /\ ~mshr[m].inService => mshr'[m] = Free
           /\ m \in Own(t) /\ mshr[m].inService =>
                 mshr'[m] # Free /\ KeptSame(m) /\ Len(mshr'[m].targets) = 0
           /\ mshr[m] # Free /\ m \notin Own(t) =>
                 /\ mshr'[m] # Free /\ KeptSame(m)
                 /\ Len(mshr'[m].targets) = Len(mshr[m].targets)
                 /\ mshr'[m].targets = <<>> <=> mshr[m].targets = <<>>
<1> USE Constants
<1>1. mshr[m] # Free => RegisterInv(mshr[m])
  BY DEF IInv, RegistersInv
<1>2. m \in Own(t) <=> mshr[m] # Free /\ mshr[m].thread = t
  BY DEF Own, Allocated
<1>3. m \in Allocated(mshr) <=> mshr[m] # Free
  BY DEF Allocated
<1>4. \A r : RegisterInv(r) => r # Free
  BY DEF RegisterInv
<1>5. CASE mshr[m] = Free
  BY <1>2, <1>3, <1>5 DEF Squashed
<1>6. CASE m \in Own(t)
  <2>1. RegisterInv(mshr[m]) /\ mshr[m].thread # Mixed
    BY <1>1, <1>2, <1>6
  <2>2. Len(mshr[m].targets) < NumTargets
    <3>1. Len(mshr[m].targets) \in Nat /\ Len(mshr[m].targets) <= 1
      BY <2>1, LenProperties DEF RegisterInv, MSHR
    <3> QED
      BY <3>1
  <2>3. CASE mshr[m].inService
    <3>1. mshr'[m] = [mshr[m] EXCEPT !.targets = <<>>]
      BY <1>6, <2>3 DEF Squashed
    <3>2. KeptSame(m) /\ Len(mshr'[m].targets) = 0
      BY <2>1, <3>1, EmptiedInv DEF KeptSame
    <3>3. mshr'[m] # Free
      BY <1>4, <3>2 DEF KeptSame
    <3> QED
      BY <1>2, <1>6, <2>2, <2>3, <3>2, <3>3
  <2>4. CASE ~mshr[m].inService
    <3>1. mshr'[m] = Free
      BY <1>6, <2>4 DEF Squashed
    <3> QED
      BY <1>2, <1>6, <2>2, <2>4, <3>1
  <2> QED
    BY <2>3, <2>4
<1>7. CASE mshr[m] # Free /\ m \notin Own(t)
  <2>1. mshr'[m] = [mshr[m] EXCEPT !.targets = Stale(@, t)]
    BY <1>3, <1>7 DEF Squashed
  <2>2. RegisterInv(mshr[m]) /\ mshr[m].thread # t
    BY <1>1, <1>2, <1>7
  <2>3. /\ KeptSame(m)
        /\ Len(mshr'[m].targets) = Len(mshr[m].targets)
        /\ mshr'[m].targets = <<>> <=> mshr[m].targets = <<>>
    BY <2>1, <2>2, StaleInv DEF KeptSame
  <2>4. mshr'[m] # Free
    BY <1>4, <2>3 DEF KeptSame
  <2> QED
    BY <1>7, <2>3, <2>4
<1> QED
  BY <1>2, <1>5, <1>6, <1>7

LEMMA SquashPreserves ==
    ASSUME IInv, NEW t \in Threads, Squash(t)
    PROVE  IInv'
<1> USE Constants
<1>1. /\ Fetches
      /\ mshr' = [m \in Mshrs |-> Squashed(m, t)]
      /\ pending' \in Unlisted(Own(t))
      /\ noTarget' = IF noTarget \in Own(t) THEN NoMshr ELSE noTarget
      /\ requests' = requests \ Flag(RequestMSHR, pending' = <<>>)
      /\ blocked' = blocked \ SquashUnblocks(noTarget \in Own(t), mshr')
      /\ limit' = limit /\ wbPending' = wbPending /\ wbInService' = wbInService
  BY DEF Squash, Squashed, Own, Stale
<1>2. \A m \in Mshrs :
         /\ mshr[m] = Free => mshr'[m] = Free
         /\ m \in Own(t) => Len(mshr[m].targets) < NumTargets
         /\ m \in Own(t) /\ ~mshr[m].inService => mshr'[m] = Free
         /\ m \in Own(t) /\ mshr[m].inService =>
               mshr'[m] # Free /\ KeptSame(m) /\ Len(mshr'[m].targets) = 0
         /\ mshr[m] # Free /\ m \notin Own(t) =>
               /\ mshr'[m] # Free /\ KeptSame(m)
               /\ Len(mshr'[m].targets) = Len(mshr[m].targets)
               /\ mshr'[m].targets = <<>> <=> mshr[m].targets = <<>>
  <2> TAKE m \in Mshrs
  <2>1. mshr'[m] = Squashed(m, t)
    BY <1>1
  <2> QED
    BY <1>1, <2>1, SquashedRegister
<1>3. \A m \in Mshrs : mshr'[m] # Free => mshr[m] # Free /\ KeptSame(m)
  BY <1>2
<1>4. RegistersInv(mshr')
  <2>1. \A m \in Mshrs : mshr'[m] \in MSHR \cup {Free}
    BY <1>3 DEF KeptSame, RegisterInv
  <2>2. mshr' \in [Mshrs -> MSHR \cup {Free}]
    BY <1>1, <2>1
  <2> QED
    BY <1>3, <2>2 DEF RegistersInv, KeptSame
<1>5. \A m \in Mshrs : Unsent(mshr', m) <=> Unsent(mshr, m) /\ m \notin Own(t)
  BY <1>2 DEF Unsent, KeptSame
<1>6. ListInv(mshr', pending')
  <2>1. \A m \in Mshrs : Unsent(mshr, m) => mshr[m].targets # <<>>
    BY DEF IInv, ListInv
  <2>2. \A m \in Mshrs : Unsent(mshr', m) => mshr'[m].targets # <<>>
    BY <1>2, <1>5, <2>1 DEF Unsent
  <2>3. ListInv(mshr, pending)
    BY DEF IInv
  <2> QED
    BY <1>1, <1>5, <2>2, <2>3, ListUnlisted
<1>7. noTarget \notin Own(t) /\ noTarget' = noTarget
  <2>1. \A m \in Own(t) : m \in Mshrs /\ ~(Len(mshr[m].targets) >= NumTargets)
    <3> TAKE m \in Own(t)
    <3>1. m \in Mshrs /\ mshr[m] # Free
      BY DEF Own, Allocated
    <3>2. Len(mshr[m].targets) < NumTargets
      BY <1>2, <3>1
    <3>3. Len(mshr[m].targets) \in Nat
      BY <3>1, LenProperties DEF IInv, RegistersInv, RegisterInv, MSHR
    <3> QED
      BY <3>1, <3>2, <3>3
  <2>2. noTarget \notin Own(t)
    BY <2>1 DEF IInv, NoTargetIsFull
  <2> QED
    BY <1>1, <2>2
<1>8. blocked' = blocked \ Flag(NoMSHRs, IsFull(mshr, limit) /\ ~IsFull(mshr', limit))
  BY <1>1, <1>7 DEF SquashUnblocks
<1>9. TypeOK'
  BY <1>1, <1>4, <1>6, <1>7, <1>8 DEF IInv, TypeOK, RegistersInv, ListInv
<1>10. BlockedForCause'
  <2>1. Allocated(mshr') \subseteq Allocated(mshr)
    BY <1>3 DEF Allocated
  <2>2. NoMSHRs \in blocked' <=> IsFull(mshr', limit')
    BY <1>1, <1>8, <2>1, MqUnblocks DEF Flag
  <2>3. WbAllocated' = WbAllocated
    BY <1>1 DEF WbAllocated
  <2>4. /\ NoTargets \in blocked' <=> NoTargets \in blocked
        /\ NoWBBuffers \in blocked' <=> NoWBBuffers \in blocked
    BY <1>8 DEF Flag
  <2> QED
    BY <1>7, <2>2, <2>3, <2>4 DEF IInv, BlockedForCause, WbIsFull
<1>11. NoTargetIsFull'
  <2> SUFFICES ASSUME NEW m \in Mshrs
               PROVE  (m = noTarget <=> mshr[m] # Free /\ Len(mshr[m].targets) >= NumTargets)'
    BY DEF NoTargetIsFull
  <2>1. m = noTarget <=> mshr[m] # Free /\ Len(mshr[m].targets) >= NumTargets
    BY DEF IInv, NoTargetIsFull
  <2>2. CASE m \in Own(t)
    BY <1>2, <1>7, <2>2
  <2>3. CASE m \notin Own(t)
    BY <1>2, <1>7, <2>1, <2>3
  <2> QED
    BY <2>2, <2>3
<1>12. OneMissPerBlock'
  <2>1. \A m \in Mshrs : \A c \in Blocks : Holds(m, c)' => Holds(m, c)
    BY <1>3 DEF Holds, KeptSame
  <2> QED
    BY <2>1 DEF IInv, OneMissPerBlock
<1>13. AsksForBus'
  <2>1. pending' # <<>> => pending # <<>>
    <3> SUFFICES ASSUME pending' # <<>> PROVE pending # <<>>
      OBVIOUS
    <3>1. pending' \in Seq(Mshrs) /\ 1 \in 1 .. Len(pending')
      BY <1>6, LenProperties, EmptySeq DEF ListInv
    <3>2. pending'[1] \in Mshrs /\ Unsent(mshr', pending'[1])
      BY <1>6, <3>1, ElementOfSeq DEF ListInv
    <3>3. \E i \in 1 .. Len(pending) : pending[i] = pending'[1]
      BY <1>5, <3>2 DEF IInv, ListInv
    <3> QED
      BY <3>3, EmptySeq DEF IInv, TypeOK
  <2> QED
    BY <1>1, <2>1 DEF IInv, AsksForBus, Flag
<1> QED
  BY <1>4, <1>6, <1>9, <1>10, <1>11, <1>12, <1>13 DEF IInv

\* The invariant is inductive.
LEMMA NextPreserves == IInv /\ [Next]_vars => IInv'
<1> SUFFICES ASSUME IInv, [Next]_vars PROVE IInv'
  OBVIOUS
<1>1. ASSUME NEW t \in Threads, NEW b \in Blocks, NEW c \in {Read, Write}, Miss(t, b, c)
      PROVE  IInv'
  BY <1>1, MissPreserves
<1>2. ASSUME NEW t \in Threads, UncachedRead(t) PROVE IInv'
  BY <1>2, UncachedReadPreserves
<1>3. ASSUME NEW t \in Threads, Squash(t) PROVE IInv'
  BY <1>3, SquashPreserves
<1>4. ASSUME NEW c \in {Write, Writeback}, WriteOut(c) PROVE IInv'
  BY <1>4, WriteOutPreserves
<1>5. ASSUME IssueMiss \/ IssueWrite \/ UncachedWriteDone PROVE IInv'
  BY <1>5, IssueMissPreserves, IssueWritePreserves, UncachedWriteDonePreserves
<1>6. ASSUME NEW m \in Mshrs, NEW k \in 0 .. NumTargets, NEW evicts \in BOOLEAN, Fill(m, k, evicts)
      PROVE  IInv'
  <2>1. CASE Left(mshr[m], k) = <<>>
    BY <1>6, <2>1, FillFrees
  <2>2. CASE Left(mshr[m], k) # <<>>
    BY <1>6, <2>2, FillResends
  <2> QED
    BY <2>1, <2>2
<1>7. ASSUME NEW m \in Mshrs, UncachedReadDone(m) PROVE IInv'
  BY <1>7, UncachedReadDonePreserves
<1>8. ASSUME NEW n \in Limits, SetNumMSHRs(n) PROVE IInv'
  BY <1>8, SetNumMSHRsPreserves
<1>9. ASSUME UNCHANGED vars PROVE IInv'
  <2>1. WbAllocated' = WbAllocated
    BY <1>9 DEF vars, WbAllocated
  <2> QED
    BY <1>9, <2>1 DEF vars, IInv, TypeOK, BlockedForCause, NoTargetIsFull, OneMissPerBlock, Holds,
                      AsksForBus, WbIsFull
<1> QED
  BY <1>1, <1>2, <1>3, <1>4, <1>5, <1>6, <1>7, <1>8, <1>9 DEF Next

-----------------------------------------------------------------------------
(* How many MSHRs an action leaves allocated, for the cache around it.     *)

LEMMA AllocatedIsFinite ==
    ASSUME NEW s
    PROVE  IsFiniteSet(Allocated(s)) /\ Cardinality(Allocated(s)) \in Nat
<1>1. IsFiniteSet(Mshrs) /\ Allocated(s) \in SUBSET Mshrs
  BY MissQueueAssumption DEF Allocated
<1>2. IsFiniteSet(Allocated(s))
  BY <1>1, FS_Subset
<1> QED
  BY <1>2, FS_CardinalityType

\* A miss takes one MSHR at most, of those there are.
LEMMA MissAllocates ==
    ASSUME IInv, NEW t \in Threads, NEW b \in Blocks, NEW c \in {Read, Write}, Miss(t, b, c)
    PROVE  LET n == Cardinality(Allocated(mshr))
               n2 == Cardinality(Allocated(mshr'))
           IN  n2 \in Nat /\ n <= n2 /\ n2 <= n + 1 /\ n2 <= MaxMSHRs
<1> DEFINE tgt == [cmd |-> c, thread |-> t, live |-> TRUE]
           n == Cardinality(Allocated(mshr))
<1>1. tgt \in Target /\ tgt.live
  BY DEF Target
<1>2. blocked = {}
  BY DEF Miss, MayAccess
<1>3. n \in Nat /\ n + 1 <= MaxMSHRs
  <2>1. n \in Nat
    BY AllocatedIsFinite
  <2>2. ~IsFull(mshr, limit) /\ limit \in 1 .. MaxMSHRs
    BY <1>2, NotBlocked DEF IInv, TypeOK
  <2> QED
    BY <2>1, <2>2, Constants DEF IsFull
<1>4. mshr \in [Mshrs -> MSHR \cup {Free}]
  BY DEF IInv, TypeOK
<1>5. CASE \E m \in Mshrs : Holds(m, b)
  <2>1. PICK m \in Mshrs : Holds(m, b) /\ AllocateTarget(m, tgt)
    BY <1>5 DEF Miss
  <2>2. mshr[m] # Free /\ mshr[m] \in MSHR
    BY <1>4, <2>1 DEF Holds
  <2>3. mshr' = [mshr EXCEPT ![m] = WithTarget(mshr[m], tgt)]
    BY <2>1 DEF AllocateTarget, WithTarget
  <2>4. WithTarget(mshr[m], tgt) # Free
    <3>1. mshr[m].targets \in Seq(Target) /\ mshr[m].cmd \in {Read, Write}
          /\ mshr[m].thread \in Threads \cup {Mixed} /\ tgt.thread \in Threads /\ tgt.cmd \in {Read, Write}
      BY <1>1, <2>2 DEF MSHR, Target
    <3>2. Append(mshr[m].targets, tgt) \in Seq(Target)
      BY <1>1, <3>1, AppendProperties
    <3> HIDE DEF tgt
    <3>3. WithTarget(mshr[m], tgt) \in MSHR
      BY <2>2, <3>1, <3>2 DEF WithTarget, MSHR
    <3> QED
      BY <3>3, Constants
  <2>5. Allocated(mshr') = Allocated(mshr)
    BY <1>4, <2>2, <2>3, <2>4 DEF Allocated
  <2> QED
    BY <1>3, <2>5, Constants
<1>6. CASE ~\E m \in Mshrs : Holds(m, b)
  <2>1. AllocateMiss(b, tgt)
    BY <1>6 DEF Miss
  <2>2. PICK m \in Mshrs : /\ mshr[m] = Free
                           /\ mshr' = [mshr EXCEPT ![m] = NewRegister(b, tgt)]
    BY <2>1 DEF AllocateMiss, NewRegister
  <2>3. NewRegister(b, tgt) # Free
    BY <1>1, NewRegisterInv, Constants DEF RegisterInv
  <2>4. Allocated(mshr') = Allocated(mshr) \cup {m} /\ m \notin Allocated(mshr)
    BY <1>4, <2>2, <2>3 DEF Allocated
  <2>5. Cardinality(Allocated(mshr')) = n + 1
    BY <2>4, AllocatedIsFinite, FS_AddElement
  <2> QED
    BY <1>3, <2>5
<1> QED
  BY <1>5, <1>6

\* A fill that satisfies all targets gives the MSHR back.
LEMMA FillReleases ==
    ASSUME IInv, NEW m \in Mshrs, NEW evicts \in BOOLEAN,
           Fill(m, Len(mshr[m].targets), evicts)
    PROVE  /\ Len(mshr[m].targets) \in 0 .. NumTargets
           /\ Cardinality(Allocated(mshr)) \in Nat \ {0}
           /\ Cardinality(Allocated(mshr')) = Cardinality(Allocated(mshr)) - 1
<1>1. mshr[m] # Free /\ RegisterInv(mshr[m]) /\ mshr \in [Mshrs -> MSHR \cup {Free}]
  BY DEF Fill, IInv, RegistersInv
<1>2. Len(mshr[m].targets) \in 0 .. NumTargets
  <2>1. mshr[m].targets \in Seq(Target)
    BY <1>1 DEF RegisterInv, MSHR
  <2> QED
    BY <1>1, <2>1, LenProperties, Constants DEF RegisterInv
<1>3. Left(mshr[m], Len(mshr[m].targets)) = <<>>
  BY <1>1, <1>2, LeftProperties
<1>4. mshr' = [mshr EXCEPT ![m] = Free]
  BY <1>3 DEF Fill, Left
<1>5. Allocated(mshr') = Allocated(mshr) \ {m} /\ m \in Allocated(mshr)
  BY <1>1, <1>4 DEF Allocated
<1>6. Cardinality(Allocated(mshr')) = Cardinality(Allocated(mshr)) - 1
  BY <1>5, AllocatedIsFinite, FS_RemoveElement
<1>7. /\ Cardinality(Allocated(mshr)) \in Nat /\ Cardinality(Allocated(mshr')) \in Nat
  BY AllocatedIsFinite
<1> QED
  BY <1>2, <1>6, <1>7

\* Sending a miss leaves the MSHRs as they are.
LEMMA IssueMissAllocates ==
    ASSUME IInv, IssueMiss
    PROVE  Allocated(mshr') = Allocated(mshr) /\ blocked' = blocked
<1> DEFINE m == Head(pending)
<1>1. pending # <<>> /\ mshr' = [mshr EXCEPT ![m].inService = TRUE] /\ blocked' = blocked
  BY DEF IssueMiss
<1>2. m \in Mshrs /\ Unsent(mshr, m)
  <2>1. pending \in Seq(Mshrs) /\ Len(pending) \in Nat /\ Len(pending) >= 1
    BY <1>1, LenProperties, EmptySeq DEF IInv, TypeOK
  <2>2. m = pending[1] /\ 1 \in 1 .. Len(pending)
    BY <2>1
  <2>3. m \in Mshrs
    BY <2>1, <2>2, ElementOfSeq
  <2> QED
    BY <2>2, <2>3 DEF IInv, ListInv
<1> HIDE DEF m
<1>3. mshr \in [Mshrs -> MSHR \cup {Free}] /\ RegisterInv(mshr[m]) /\ mshr[m] # Free
  BY <1>2 DEF IInv, RegistersInv, Unsent
<1>4. [mshr[m] EXCEPT !.inService = TRUE] # Free
  BY <1>3, SentInv, Constants DEF RegisterInv
<1>5. mshr' = [mshr EXCEPT ![m] = [mshr[m] EXCEPT !.inService = TRUE]]
  BY <1>1, <1>3
<1> QED
  BY <1>1, <1>2, <1>3, <1>4, <1>5 DEF Allocated

\* What each does to the targets: a miss adds one, of its thread, to one MSHR.
LEMMA MissAddsTarget ==
    ASSUME IInv, NEW t \in Threads, NEW b \in Blocks, NEW c \in {Read, Write}, Miss(t, b, c)
    PROVE  \E m \in Mshrs, n \in Nat :
               /\ n = IF mshr[m] = Free THEN 0 ELSE Len(mshr[m].targets)
               /\ mshr'[m] # Free /\ \A l \in Mshrs \ {m} : mshr'[l] = mshr[l]
               /\ mshr'[m].targets \in Seq(Target) /\ Len(mshr'[m].targets) = n + 1
               /\ mshr'[m].targets[n + 1].thread = t
               /\ \A k \in 1 .. n : mshr'[m].targets[k] = mshr[m].targets[k]
<1> DEFINE tgt == [cmd |-> c, thread |-> t, live |-> TRUE]
<1>1. tgt \in Target /\ tgt.live /\ tgt.thread = t /\ tgt.cmd \in {Read, Write}
  BY DEF Target
<1>2. mshr \in [Mshrs -> MSHR \cup {Free}]
  BY DEF IInv, TypeOK
<1>3. CASE \E m \in Mshrs : Holds(m, b)
  <2>1. PICK m \in Mshrs : Holds(m, b) /\ AllocateTarget(m, tgt)
    BY <1>3 DEF Miss
  <2>2. mshr[m] # Free /\ mshr[m] \in MSHR
    BY <1>2, <2>1 DEF Holds
  <2>3. mshr' = [mshr EXCEPT ![m] = WithTarget(mshr[m], tgt)]
    BY <2>1 DEF AllocateTarget, WithTarget
  <2> HIDE DEF tgt
  <2> DEFINE ts == mshr[m].targets
             n == Len(ts)
  <2>4. /\ ts \in Seq(Target) /\ mshr[m].cmd \in {Read, Write}
        /\ mshr[m].thread \in Threads \cup {Mixed}
    BY <2>2 DEF MSHR
  <2>5. /\ n \in Nat /\ Append(ts, tgt) \in Seq(Target) /\ Len(Append(ts, tgt)) = n + 1
        /\ Append(ts, tgt)[n + 1] = tgt
        /\ \A k \in 1 .. n : Append(ts, tgt)[k] = ts[k]
    BY <1>1, <2>4, AppendProperties, LenProperties
  <2>6. WithTarget(mshr[m], tgt) \in MSHR
    BY <1>1, <2>2, <2>4, <2>5 DEF WithTarget, MSHR
  <2>7. WithTarget(mshr[m], tgt).targets = Append(ts, tgt)
    BY <2>2 DEF WithTarget, MSHR
  <2>8. /\ mshr'[m] # Free /\ mshr'[m].targets = Append(ts, tgt)
        /\ \A l \in Mshrs \ {m} : mshr'[l] = mshr[l]
    BY <1>2, <2>3, <2>6, <2>7, Constants
  <2>9. n = IF mshr[m] = Free THEN 0 ELSE Len(mshr[m].targets)
    BY <2>2
  <2> HIDE DEF n, ts
  <2>10. /\ mshr'[m].targets \in Seq(Target) /\ Len(mshr'[m].targets) = n + 1
         /\ mshr'[m].targets[n + 1].thread = t
         /\ \A k \in 1 .. n : mshr'[m].targets[k] = ts[k]
    BY <1>1, <2>5, <2>8
  <2> QED
    BY <2>5, <2>8, <2>9, <2>10 DEF ts
<1>4. CASE ~\E m \in Mshrs : Holds(m, b)
  <2>1. AllocateMiss(b, tgt)
    BY <1>4 DEF Miss
  <2>2. PICK m \in Mshrs : /\ mshr[m] = Free
                           /\ mshr' = [mshr EXCEPT ![m] = NewRegister(b, tgt)]
    BY <2>1 DEF AllocateMiss, NewRegister
  <2>3. NewRegister(b, tgt) # Free
    BY <1>1, NewRegisterInv, Constants DEF RegisterInv
  <2> HIDE DEF tgt
  <2>4. /\ NewRegister(b, tgt).targets \in Seq(Target)
        /\ Len(NewRegister(b, tgt).targets) = 1
        /\ NewRegister(b, tgt).targets[1] = tgt
    BY <1>1 DEF NewRegister
  <2>5. /\ mshr'[m] = NewRegister(b, tgt) /\ mshr'[m] # Free
        /\ \A l \in Mshrs \ {m} : mshr'[l] = mshr[l]
    BY <1>2, <2>2, <2>3
  <2>6. /\ mshr'[m].targets \in Seq(Target) /\ Len(mshr'[m].targets) = 0 + 1
        /\ mshr'[m].targets[0 + 1].thread = t
    BY <1>1, <2>4, <2>5
  <2> QED
    BY <2>2, <2>5, <2>6
<1> QED
  BY <1>3, <1>4

\* A fill that satisfies all targets takes those of its MSHR, and only those.
LEMMA FillEmpties ==
    ASSUME IInv, NEW m \in Mshrs, NEW evicts \in BOOLEAN,
           Fill(m, Len(mshr[m].targets), evicts)
    PROVE  /\ mshr[m] # Free
           /\ mshr' = [mshr EXCEPT ![m] = Free]
           /\ mshr[m].targets \in Seq(Target)
<1>1. mshr[m] # Free /\ RegisterInv(mshr[m])
  <2>1. mshr[m] # Free
    BY DEF Fill
  <2> QED
    BY <2>1 DEF IInv, RegistersInv
<1>2. mshr[m].targets \in Seq(Target) /\ Len(mshr[m].targets) \in Nat
  BY <1>1, LenProperties DEF RegisterInv, MSHR
<1>3. Left(mshr[m], Len(mshr[m].targets)) = <<>>
  BY <1>1, <1>2, LeftProperties
<1>4. mshr' = [mshr EXCEPT ![m] = Free]
  BY <1>3 DEF Fill, Left
<1> QED
  BY <1>1, <1>2, <1>4, Zenon

LEMMA IssueKeepsTargets ==
    ASSUME IInv, IssueMiss
    PROVE  \A m \in Mshrs : /\ mshr'[m] = Free <=> mshr[m] = Free
                            /\ mshr[m] # Free => mshr'[m].targets = mshr[m].targets
<1>1. Allocated(mshr') = Allocated(mshr)
  BY IssueMissAllocates
<1>2. mshr' = [mshr EXCEPT ![Head(pending)].inService = TRUE]
  BY DEF IssueMiss
<1>3. mshr \in [Mshrs -> MSHR \cup {Free}]
  BY DEF IInv, TypeOK
<1> SUFFICES ASSUME NEW m \in Mshrs
             PROVE  /\ mshr'[m] = Free <=> mshr[m] = Free
                    /\ mshr[m] # Free => mshr'[m].targets = mshr[m].targets
  OBVIOUS
<1>4. mshr'[m] = Free <=> mshr[m] = Free
  BY <1>1 DEF Allocated
<1>5. ASSUME mshr[m] # Free PROVE mshr'[m].targets = mshr[m].targets
  <2>1. mshr[m] \in MSHR
    BY <1>3, <1>5
  <2>2. mshr'[m] = mshr[m] \/ mshr'[m] = [mshr[m] EXCEPT !.inService = TRUE]
    BY <1>2, <1>3
  <2> QED
    BY <2>1, <2>2 DEF MSHR
<1> QED
  BY <1>4, <1>5

-----------------------------------------------------------------------------
(* How far fills can overfill wb.  A blocked cache misses no more, so what *)
(* may still be written back is one block for each MSHR, and two for one   *)
(* that a fill with read permission leaves with a write.  The last access  *)
(* before the cache blocked, a miss with one target or a writeback, adds   *)
(* one to what the MSHRs before it, one fewer than there are, may cause.   *)

MayFillTwice(r) == Coherent /\ r.cmd = Read /\ \E i \in 1 .. Len(r.targets) : r.targets[i].cmd = Write
Twice(s) == {m \in Mshrs : s[m] # Free /\ MayFillTwice(s[m])}
MostFills == MaxMSHRs + IF Coherent THEN MaxMSHRs - 1 ELSE 0

DueWritebacks == Cardinality(Allocated(mshr)) + Cardinality(Twice(mshr))
DueFit == WbAllocated + DueWritebacks <= WriteBuffers - 1 + MostFills

LEMMA DueType ==
    ASSUME NEW s
    PROVE  /\ IsFiniteSet(Twice(s))
           /\ Cardinality(Allocated(s)) \in Nat /\ Cardinality(Twice(s)) \in Nat
           /\ Cardinality(Twice(s)) <= IF Coherent THEN Cardinality(Allocated(s)) ELSE 0
<1>1. IsFiniteSet(Allocated(s)) /\ Cardinality(Allocated(s)) \in Nat
  BY AllocatedIsFinite
<1>2. Twice(s) \in SUBSET Allocated(s)
  BY DEF Twice, Allocated
<1>3. IsFiniteSet(Twice(s)) /\ Cardinality(Twice(s)) <= Cardinality(Allocated(s))
  BY <1>1, <1>2, FS_Subset
<1>4. Cardinality(Twice(s)) \in Nat
  BY <1>3, FS_CardinalityType
<1>5. ASSUME ~Coherent PROVE Cardinality(Twice(s)) = 0
  <2>1. Twice(s) = {}
    BY <1>5 DEF Twice, MayFillTwice
  <2> QED
    BY <2>1, FS_EmptySet
<1> QED
  BY <1>1, <1>3, <1>4, <1>5

LEMMA WbType ==
    ASSUME IInv
    PROVE  WbAllocated \in Nat /\ WriteBuffers \in Nat /\ MaxMSHRs \in Nat \ {0}
BY WbCounts, Constants DEF WbAllocated

\* No more is due with fewer MSHRs, of which no more may fill twice.
LEMMA DueShrinks ==
    ASSUME NEW s, NEW s2, Allocated(s2) \subseteq Allocated(s), Twice(s2) \subseteq Twice(s)
    PROVE  /\ Cardinality(Allocated(s2)) <= Cardinality(Allocated(s))
           /\ Cardinality(Twice(s2)) <= Cardinality(Twice(s))
<1>1. IsFiniteSet(Allocated(s)) /\ IsFiniteSet(Twice(s))
  BY AllocatedIsFinite, DueType
<1>2. Allocated(s2) \in SUBSET Allocated(s) /\ Twice(s2) \in SUBSET Twice(s)
  OBVIOUS
<1>3. Cardinality(Allocated(s2)) <= Cardinality(Allocated(s))
  BY <1>1, <1>2, FS_Subset
<1>4. Cardinality(Twice(s2)) <= Cardinality(Twice(s))
  BY <1>1, <1>2, FS_Subset
<1> QED
  BY <1>3, <1>4

\* While the cache is not blocked there is an MSHR and a write buffer to spare.
LEMMA SparePlace ==
    ASSUME IInv, blocked = {}
    PROVE  /\ WbAllocated <= WriteBuffers - 1
           /\ Cardinality(Allocated(mshr)) <= MaxMSHRs - 1
<1>1. ~WbIsFull(WbAllocated) /\ ~IsFull(mshr, limit) /\ limit \in 1 .. MaxMSHRs
  BY NotBlocked DEF IInv, TypeOK
<1>2. Cardinality(Allocated(mshr)) \in Nat
  BY AllocatedIsFinite
<1> QED
  BY <1>1, <1>2, WbType DEF WbIsFull, IsFull

LEMMA InitDue == Init => DueFit
<1> SUFFICES ASSUME Init PROVE DueFit
  OBVIOUS
<1>1. IInv /\ blocked = {}
  BY InitEstablishes DEF Init
<1>2. /\ Cardinality(Twice(mshr)) \in Nat /\ Cardinality(Allocated(mshr)) \in Nat
      /\ Cardinality(Twice(mshr)) <= IF Coherent THEN Cardinality(Allocated(mshr)) ELSE 0
  BY DueType
<1> QED
  BY <1>1, <1>2, SparePlace, WbType DEF DueFit, DueWritebacks, MostFills

LEMMA BothShrink ==
    \A v, w, x, y, z \in Int : w <= v /\ y <= x /\ v + x <= z => w + y <= z
OBVIOUS

\* A step that writes nothing back and leaves no more due.
LEMMA DueKept ==
    ASSUME IInv, IInv', DueFit, WbAllocated' <= WbAllocated,
           Allocated(mshr') \subseteq Allocated(mshr), Twice(mshr') \subseteq Twice(mshr)
    PROVE  DueFit'
<1> DEFINE a == Cardinality(Allocated(mshr))
           t == Cardinality(Twice(mshr))
           a2 == Cardinality(Allocated(mshr'))
           t2 == Cardinality(Twice(mshr'))
<1>1. a2 <= a /\ t2 <= t
  BY DueShrinks, Zenon
<1>2. a \in Nat /\ t \in Nat /\ a2 \in Nat /\ t2 \in Nat
  BY DueType
<1>3. WbAllocated \in Nat /\ WbAllocated' \in Nat /\ WriteBuffers \in Nat /\ MostFills \in Nat
  <2>1. WbAllocated' \in Nat
    BY DEF IInv, TypeOK, WbAllocated
  <2> QED
    BY <2>1, WbType DEF MostFills
<1>4. WbAllocated + (a + t) <= WriteBuffers - 1 + MostFills
  BY DEF DueFit, DueWritebacks
<1>5. DueFit' <=> WbAllocated' + (a2 + t2) <= WriteBuffers - 1 + MostFills
  BY DEF DueFit, DueWritebacks, MostFills, Allocated, Twice, MayFillTwice
<1> HIDE DEF a, t, a2, t2
<1>6. a2 + t2 <= a + t
  BY <1>1, <1>2
<1>7. WbAllocated' + (a2 + t2) <= WriteBuffers - 1 + MostFills
  <2>1. /\ WbAllocated \in Int /\ WbAllocated' \in Int /\ a + t \in Int /\ a2 + t2 \in Int
        /\ WriteBuffers - 1 + MostFills \in Int
    BY <1>2, <1>3
  <2> QED
    BY <1>4, <1>6, <2>1, BothShrink, ZenonT(60)
<1> QED
  BY <1>5, <1>7

LEMMA MissDue ==
    ASSUME IInv, IInv', blocked = {}, NEW b \in Blocks \cup {NoBlock}, NEW tgt \in Target, tgt.live,
           \/ AllocateMiss(b, tgt)
           \/ \E m \in Mshrs : mshr[m] # Free /\ AllocateTarget(m, tgt)
    PROVE  DueFit'
<1> DEFINE a == Cardinality(Allocated(mshr))
           t == Cardinality(Twice(mshr))
           a2 == Cardinality(Allocated(mshr'))
           t2 == Cardinality(Twice(mshr'))
<1>1. /\ a \in Nat /\ t \in Nat /\ a2 \in Nat /\ t2 \in Nat
      /\ t <= (IF Coherent THEN a ELSE 0) /\ t2 <= (IF Coherent THEN a2 ELSE 0)
  BY DueType
<1>2. WbAllocated <= WriteBuffers - 1 /\ a <= MaxMSHRs - 1
  BY SparePlace
<1>3. WbAllocated' = WbAllocated
  BY DEF AllocateMiss, AllocateTarget, WbAllocated
<1>4. DueFit' <=> WbAllocated + (a2 + t2) <= WriteBuffers - 1 + MostFills
  BY <1>3 DEF DueFit, DueWritebacks, MostFills, Allocated, Twice, MayFillTwice
<1>5. mshr \in [Mshrs -> MSHR \cup {Free}] /\ mshr' \in [Mshrs -> MSHR \cup {Free}]
  BY DEF IInv, TypeOK
<1>6. a2 + t2 <= MaxMSHRs + IF Coherent THEN MaxMSHRs - 1 ELSE 0
  <2>1. CASE AllocateMiss(b, tgt)
    <3> DEFINE r == NewRegister(b, tgt)
    <3>1. PICK m \in Mshrs : mshr[m] = Free /\ mshr' = [mshr EXCEPT ![m] = r]
      BY <2>1 DEF AllocateMiss, NewRegister
    <3>2. /\ r # Free /\ r.cmd = tgt.cmd /\ r.targets = <<tgt>>
      BY NewRegisterInv, Constants DEF RegisterInv, NewRegister
    <3>3. ~MayFillTwice(r)
      <4>1. \A i \in 1 .. Len(r.targets) : r.targets[i].cmd = tgt.cmd
        BY <3>2
      <4> HIDE DEF r
      <4> QED
        BY <3>2, <4>1, Constants DEF MayFillTwice
    <3> HIDE DEF r
    <3>4. Allocated(mshr') = Allocated(mshr) \cup {m} /\ m \notin Allocated(mshr)
      BY <1>5, <3>1, <3>2 DEF Allocated
    <3>5. Twice(mshr') = Twice(mshr)
      BY <1>5, <3>1, <3>2, <3>3 DEF Twice
    <3>6. a2 = a + 1
      BY <3>4, AllocatedIsFinite, FS_AddElement
    <3>7. t2 = t
      BY <3>5
    <3> HIDE DEF a, t, a2, t2
    <3> QED
      BY <1>1, <1>2, <3>6, <3>7, WbType
  <2>2. CASE \E m \in Mshrs : mshr[m] # Free /\ AllocateTarget(m, tgt)
    <3>1. PICK m \in Mshrs : mshr[m] # Free /\ AllocateTarget(m, tgt)
      BY <2>2
    <3>2. \A l \in Mshrs \ {m} : mshr'[l] = mshr[l]
      BY <1>5, <3>1 DEF AllocateTarget
    <3>3. Allocated(mshr') \subseteq Allocated(mshr)
      BY <3>1, <3>2 DEF Allocated
    <3>4. a2 <= a
      <4>1. Allocated(mshr') \in SUBSET Allocated(mshr) /\ IsFiniteSet(Allocated(mshr))
        BY <3>3, AllocatedIsFinite
      <4> QED
        BY <4>1, FS_Subset
    <3> HIDE DEF a, t, a2, t2
    <3> QED
      BY <1>1, <1>2, <3>4, WbType
  <2> QED
    BY <2>1, <2>2
<1> HIDE DEF a, t, a2, t2
<1> QED
  BY <1>1, <1>2, <1>4, <1>6, WbType DEF MostFills

LEMMA WriteOutDue ==
    ASSUME IInv, NEW c \in {Write, Writeback}, WriteOut(c)
    PROVE  DueFit'
<1>1. blocked = {} /\ mshr' = mshr /\ WbAllocated' = WbAllocated + 1
  BY WbCounts DEF WriteOut, WbAllocated
<1>2. DueFit' <=> WbAllocated + 1 + DueWritebacks <= WriteBuffers - 1 + MostFills
  BY <1>1 DEF DueFit, DueWritebacks, MostFills, Allocated, Twice, MayFillTwice
<1>3. /\ Cardinality(Twice(mshr)) \in Nat /\ Cardinality(Allocated(mshr)) \in Nat
      /\ Cardinality(Twice(mshr)) <= IF Coherent THEN Cardinality(Allocated(mshr)) ELSE 0
  BY DueType
<1> QED
  BY <1>1, <1>2, <1>3, SparePlace, WbType DEF DueWritebacks, MostFills

\* The writeback of a fill was due: it leaves one MSHR fewer, or one that fills
\* only once more.
LEMMA FillDue ==
    ASSUME IInv, IInv', DueFit, NEW m \in Mshrs, NEW k \in 0 .. NumTargets,
           NEW evicts \in BOOLEAN, Fill(m, k, evicts)
    PROVE  DueFit'
<1> DEFINE left == Left(mshr[m], k)
           a == Cardinality(Allocated(mshr))
           t == Cardinality(Twice(mshr))
           a2 == Cardinality(Allocated(mshr'))
           t2 == Cardinality(Twice(mshr'))
<1>1. /\ mshr[m] # Free /\ k \in Satisfied(mshr[m]) /\ mshr[m].block # NoBlock
      /\ mshr' = [mshr EXCEPT ![m] = IF left = <<>> THEN Free ELSE Resent(mshr[m], left)]
      /\ wbPending' = IF evicts THEN Append(wbPending, Writeback) ELSE wbPending
      /\ wbInService' = wbInService
  BY DEF Fill, Left
<1>2. /\ mshr \in [Mshrs -> MSHR \cup {Free}] /\ RegisterInv(mshr[m])
  BY <1>1 DEF IInv, RegistersInv
<1>3. WbAllocated' <= WbAllocated + 1 /\ WbAllocated' \in Nat
  <2>1. CASE evicts
    BY <1>1, <2>1, WbCounts DEF WbAllocated
  <2>2. CASE ~evicts
    BY <1>1, <2>2, WbCounts DEF WbAllocated
  <2> QED
    BY <2>1, <2>2
<1>4. /\ a \in Nat /\ t \in Nat /\ a2 \in Nat /\ t2 \in Nat
  BY DueType
<1>5. a2 + t2 <= a + t - 1
  <2>1. CASE left = <<>>
    <3>1. mshr' = [mshr EXCEPT ![m] = Free]
      BY <1>1, <2>1
    <3>2. Allocated(mshr') = Allocated(mshr) \ {m} /\ m \in Allocated(mshr)
      BY <1>1, <1>2, <3>1 DEF Allocated
    <3>3. a2 = a - 1
      BY <3>2, AllocatedIsFinite, FS_RemoveElement
    <3>4. Twice(mshr') \subseteq Twice(mshr)
      BY <1>2, <3>1 DEF Twice
    <3>5. t2 <= t
      BY <3>2, <3>4, DueShrinks
    <3> HIDE DEF a, t, a2, t2
    <3> QED
      BY <1>4, <3>3, <3>5
  <2>2. CASE left # <<>>
    <3> DEFINE r == Resent(mshr[m], left)
    <3>1. mshr' = [mshr EXCEPT ![m] = r]
      BY <1>1, <2>2
    <3>2. k # Len(mshr[m].targets) /\ k \in 0 .. Len(mshr[m].targets)
      BY <1>1, <1>2, <2>2, FillSatisfies, LeftProperties
    <3>3. /\ Coherent /\ mshr[m].cmd = Read /\ mshr[m].targets[k + 1].cmd = Write
          /\ k \in 0 .. Len(mshr[m].targets) - 1
      BY <1>1, <3>2 DEF Satisfied
    <3>4. /\ Len(mshr[m].targets) \in Nat /\ k + 1 \in 1 .. Len(mshr[m].targets)
          /\ 1 \in 1 .. Len(left) /\ left[1] = mshr[m].targets[k + 1]
      <4>1. Len(mshr[m].targets) \in Nat
        BY <1>1, <1>2, FillSatisfies
      <4>2. /\ Len(left) = Len(mshr[m].targets) - k
            /\ \A i \in 1 .. Len(left) : left[i] = mshr[m].targets[i + k]
        BY <1>2, <3>2, LeftProperties
      <4> HIDE DEF left
      <4>3. 1 \in 1 .. Len(left) /\ 1 + k = k + 1
        BY <3>3, <4>1, <4>2
      <4> QED
        BY <3>3, <4>1, <4>2, <4>3
    <3>5. m \in Twice(mshr)
      BY <1>1, <3>3, <3>4 DEF Twice, MayFillTwice
    <3>6. r.cmd = Write /\ r # Free
      <4>1. r = [mshr[m] EXCEPT !.targets = left, !.cmd = left[1].cmd, !.inService = FALSE]
        BY DEF Resent
      <4>2. mshr[m] \in MSHR
        BY <1>2 DEF RegisterInv
      <4>3. r.cmd = Write
        BY <3>3, <3>4, <4>1, <4>2 DEF MSHR
      <4>4. RegisterInv(r)
        BY <1>1, <1>2, <2>2, <3>2, ResentInv
      <4> QED
        BY <4>3, <4>4, Constants DEF RegisterInv
    <3> HIDE DEF r, left
    <3>7. Allocated(mshr') = Allocated(mshr)
      BY <1>1, <1>2, <3>1, <3>6 DEF Allocated
    <3>8. Twice(mshr') = Twice(mshr) \ {m}
      BY <1>2, <3>1, <3>6, Constants DEF Twice, MayFillTwice
    <3>9. t2 = t - 1
      BY <3>5, <3>8, DueType, FS_RemoveElement
    <3>10. a2 = a
      BY <3>7
    <3> HIDE DEF a, t, a2, t2
    <3> QED
      BY <1>4, <3>9, <3>10
  <2> QED
    BY <2>1, <2>2
<1>6. WbAllocated + (a + t) <= WriteBuffers - 1 + MostFills
  BY DEF DueFit, DueWritebacks
<1>7. DueFit' <=> WbAllocated' + (a2 + t2) <= WriteBuffers - 1 + MostFills
  BY DEF DueFit, DueWritebacks, MostFills, Allocated, Twice, MayFillTwice
<1> HIDE DEF a, t, a2, t2
<1>8. MostFills \in Nat
  BY WbType DEF MostFills
<1> QED
  BY <1>3, <1>4, <1>5, <1>6, <1>7, <1>8, WbType

LEMMA SquashDue ==
    ASSUME IInv, IInv', DueFit, NEW th \in Threads, Squash(th)
    PROVE  DueFit'
<1> DEFINE stale(s) == [i \in DOMAIN s |-> IF s[i].thread = th THEN [s[i] EXCEPT !.live = FALSE]
                                           ELSE s[i]]
<1>1. WbAllocated' = WbAllocated
  BY DEF Squash, WbAllocated
<1>2. ASSUME NEW m \in Mshrs
      PROVE  \/ mshr'[m] = Free
             \/ mshr[m] # Free /\ mshr'[m] = [mshr[m] EXCEPT !.targets = <<>>]
             \/ mshr[m] # Free /\ mshr'[m] = [mshr[m] EXCEPT !.targets = stale(@)]
  BY DEF Squash, Allocated
<1> HIDE DEF stale
<1>3. Allocated(mshr') \subseteq Allocated(mshr)
  BY <1>2 DEF Allocated
<1>4. ASSUME NEW m \in Mshrs, mshr'[m] # Free, MayFillTwice(mshr'[m])
      PROVE  mshr[m] # Free /\ MayFillTwice(mshr[m])
  <2>1. mshr[m] # Free
    BY <1>2, <1>4
  <2>2. /\ mshr[m] \in MSHR /\ mshr[m].targets \in Seq(Target)
    BY <2>1 DEF IInv, RegistersInv, RegisterInv, MSHR
  <2>3. CASE mshr'[m] = [mshr[m] EXCEPT !.targets = <<>>]
    <3>1. mshr'[m].targets = <<>>
      BY <2>2, <2>3 DEF MSHR
    <3> QED
      BY <1>4, <3>1 DEF MayFillTwice
  <2>4. CASE mshr'[m] = [mshr[m] EXCEPT !.targets = stale(@)]
    <3> DEFINE ts == mshr[m].targets
    <3>1. mshr'[m].targets = stale(ts) /\ mshr'[m].cmd = mshr[m].cmd
      BY <2>2, <2>4 DEF MSHR
    <3>2. DOMAIN ts = 1 .. Len(ts) /\ \A i \in 1 .. Len(ts) : ts[i] \in Target
      BY <2>2, LenProperties, ElementOfSeq
    <3>3. Len(ts) \in Nat
      BY <2>2, LenProperties
    <3> HIDE DEF ts
    <3>4. /\ DOMAIN stale(ts) = 1 .. Len(ts)
          /\ \A i \in 1 .. Len(ts) : stale(ts)[i].cmd = ts[i].cmd
      BY <3>2 DEF stale, Target
    <3>5. Len(stale(ts)) = Len(ts)
      <4>1. stale(ts) \in [1 .. Len(ts) -> {stale(ts)[i] : i \in 1 .. Len(ts)}]
        BY <3>2 DEF stale
      <4> QED
        BY <3>3, <4>1
    <3>6. ts = mshr[m].targets
      BY DEF ts
    <3> QED
      BY <1>4, <2>1, <3>1, <3>4, <3>5, <3>6 DEF MayFillTwice
  <2> QED
    BY <1>2, <1>4, <2>3, <2>4
<1>5. Twice(mshr') \subseteq Twice(mshr)
  BY <1>4 DEF Twice
<1> QED
  BY <1>1, <1>3, <1>5, DueKept, WbType

LEMMA NextDue == IInv /\ DueFit /\ [Next]_vars => DueFit'
<1> SUFFICES ASSUME IInv, DueFit, [Next]_vars PROVE DueFit'
  OBVIOUS
<1>1. IInv'
  BY NextPreserves
<1>2. mshr \in [Mshrs -> MSHR \cup {Free}]
  BY DEF IInv, TypeOK
<1>3. ASSUME mshr' = mshr, WbAllocated' <= WbAllocated PROVE DueFit'
  BY <1>1, <1>3, DueKept
<1>4. ASSUME NEW t \in Threads, NEW b \in Blocks, NEW c \in {Read, Write}, Miss(t, b, c)
      PROVE  DueFit'
  <2> DEFINE tgt == [cmd |-> c, thread |-> t, live |-> TRUE]
  <2>1. tgt \in Target /\ tgt.live /\ blocked = {}
    BY <1>4 DEF Target, Miss, MayAccess
  <2>2. \/ AllocateMiss(b, tgt)
        \/ \E m \in Mshrs : mshr[m] # Free /\ AllocateTarget(m, tgt)
    BY <1>4 DEF Miss, Holds
  <2> HIDE DEF tgt
  <2> QED
    BY <1>1, <2>1, <2>2, MissDue
<1>5. ASSUME NEW t \in Threads, UncachedRead(t) PROVE DueFit'
  <2> DEFINE tgt == [cmd |-> Read, thread |-> t, live |-> TRUE]
  <2>1. tgt \in Target /\ tgt.live /\ blocked = {} /\ AllocateMiss(NoBlock, tgt)
    BY <1>5 DEF Target, UncachedRead, MayAccess
  <2> HIDE DEF tgt
  <2> QED
    BY <1>1, <2>1, MissDue
<1>6. ASSUME NEW t \in Threads, Squash(t) PROVE DueFit'
  BY <1>1, <1>6, SquashDue
<1>7. ASSUME NEW c \in {Write, Writeback}, WriteOut(c) PROVE DueFit'
  BY <1>7, WriteOutDue
<1>8. CASE IssueMiss
  <2>1. Allocated(mshr') = Allocated(mshr) /\ WbAllocated' = WbAllocated
    BY <1>8, IssueMissAllocates DEF IssueMiss, WbAllocated
  <2>2. mshr' = [mshr EXCEPT ![Head(pending)].inService = TRUE]
    BY <1>8 DEF IssueMiss
  <2>3. ASSUME NEW m \in Mshrs, mshr'[m] # Free, MayFillTwice(mshr'[m])
        PROVE  mshr[m] # Free /\ MayFillTwice(mshr[m])
    <3>1. mshr[m] # Free /\ mshr[m] \in MSHR
      BY <1>2, <2>1, <2>3 DEF Allocated
    <3>2. mshr'[m] = mshr[m] \/ mshr'[m] = [mshr[m] EXCEPT !.inService = TRUE]
      BY <1>2, <2>2
    <3>3. mshr'[m].cmd = mshr[m].cmd /\ mshr'[m].targets = mshr[m].targets
      BY <3>1, <3>2 DEF MSHR
    <3> QED
      BY <2>3, <3>1, <3>3 DEF MayFillTwice
  <2>4. Twice(mshr') \subseteq Twice(mshr)
    BY <2>3 DEF Twice
  <2> QED
    BY <1>1, <2>1, <2>4, DueKept, WbType
<1>9. CASE IssueWrite
  <2>1. mshr' = mshr /\ WbAllocated' <= WbAllocated
    BY <1>9, WbCounts DEF IssueWrite, WbAllocated
  <2> QED
    BY <1>3, <2>1
<1>10. ASSUME NEW m \in Mshrs, NEW k \in 0 .. NumTargets, NEW evicts \in BOOLEAN, Fill(m, k, evicts)
       PROVE  DueFit'
  BY <1>1, <1>10, FillDue
<1>11. ASSUME NEW m \in Mshrs, UncachedReadDone(m) PROVE DueFit'
  <2>1. mshr' = [mshr EXCEPT ![m] = Free] /\ WbAllocated' = WbAllocated
    BY <1>11 DEF UncachedReadDone, WbAllocated
  <2>2. Allocated(mshr') \subseteq Allocated(mshr) /\ Twice(mshr') \subseteq Twice(mshr)
    BY <1>2, <2>1 DEF Allocated, Twice
  <2>3. WbAllocated' <= WbAllocated
    BY <2>1, WbType
  <2> QED
    BY <1>1, <2>2, <2>3, DueKept
<1>12. CASE UncachedWriteDone
  <2>1. mshr' = mshr /\ WbAllocated' <= WbAllocated
    BY <1>12, WbCounts DEF UncachedWriteDone, WbAllocated
  <2> QED
    BY <1>3, <2>1
<1>13. ASSUME NEW n \in Limits, SetNumMSHRs(n) PROVE DueFit'
  <2>1. mshr' = mshr /\ WbAllocated' <= WbAllocated
    BY <1>13, WbType DEF SetNumMSHRs, WbAllocated
  <2> QED
    BY <1>3, <2>1
<1>14. CASE UNCHANGED vars
  <2>1. mshr' = mshr /\ WbAllocated' <= WbAllocated
    BY <1>14, WbType DEF vars, WbAllocated
  <2> QED
    BY <1>3, <2>1
<1> QED
  BY <1>4, <1>5, <1>6, <1>7, <1>8, <1>9, <1>10, <1>11, <1>12, <1>13, <1>14 DEF Next

-----------------------------------------------------------------------------
(* The theorems.                                                           *)

LEMMA Inductive == Spec => []IInv
BY InitEstablishes, NextPreserves, PTL DEF Spec

\* The variables of MissQueue keep their types: in particular the pending list
\* holds only registers and wb.inServiceMSHRs does not become negative.
THEOREM TypeCorrect == Spec => []TypeOK
<1>1. IInv => TypeOK
  BY DEF IInv
<1> QED
  BY Inductive, <1>1, PTL

\* BaseCache::blocked has the flag of a cause exactly while the cause holds, so the
\* asserts of setBlocked and clearBlocked do not fail, whatever mix of misses, fills,
\* squashes, writebacks and policy decisions the cache sees.
THEOREM BlocksForCause == Spec => []BlockedForCause
<1>1. IInv => BlockedForCause
  BY DEF IInv
<1> QED
  BY Inductive, <1>1, PTL

\* pendingList holds exactly the MSHRs to be sent, each once, each with a target,
\* through fills that resend and squashes that take entries out of the middle.
THEOREM SendsEachOnce == Spec => []PendingIsUnsent
<1>1. IInv => PendingIsUnsent
  BY DEF IInv, ListInv, PendingIsUnsent, Unsent
<1> QED
  BY Inductive, <1>1, PTL

\* noTargetMSHR is the one full MSHR and never a stale pointer.
THEOREM PointsToFull == Spec => []NoTargetIsFull
<1>1. IInv => NoTargetIsFull
  BY DEF IInv
<1> QED
  BY Inductive, <1>1, PTL

\* At most one miss of a block is outstanding (findMatch before allocate).
THEOREM MergesMisses == Spec => []OneMissPerBlock
<1>1. IInv => OneMissPerBlock
  BY DEF IInv
<1> QED
  BY Inductive, <1>1, PTL

\* The assert in MSHRQueue::squash: an MSHR of the squashing thread's own holds
\* no access of another thread.
THEOREM SquashesOnlyOwn == Spec => []SquashOnlyOwn
<1>1. IInv => SquashOnlyOwn
  BY DEF IInv, RegistersInv, RegisterInv, SquashOnlyOwn, Allocated
<1> QED
  BY Inductive, <1>1, PTL

\* The cache asks for the bus exactly while one of its queues has something to
\* send, so a grant never finds both empty.
THEOREM AsksWhenNeeded == Spec => []AsksForBus
<1>1. IInv => AsksForBus
  BY DEF IInv
<1> QED
  BY Inductive, <1>1, PTL

\* wb holds the writebacks of the fills that arrive while the cache is blocked, if
\* its reserve is as large as they can be many, MostFills; the code's reserve,
\* numMSHRs + 1000, is for up to 1001 MSHRs.
THEOREM WritebacksFitReserve ==
    ASSUME WbSpare >= MostFills
    PROVE  Spec => []WritebacksFit
<1>1. Spec => []DueFit
  BY InitDue, NextDue, Inductive, PTL DEF Spec
<1>2. IInv /\ DueFit => WritebacksFit
  <2> SUFFICES ASSUME IInv, DueFit PROVE WritebacksFit
    OBVIOUS
  <2>1. Cardinality(Allocated(mshr)) \in Nat /\ Cardinality(Twice(mshr)) \in Nat
    BY DueType
  <2>2. MostFills \in Nat /\ WbSpare \in Nat
    BY WbType, MissQueueAssumption DEF MostFills
  <2> QED
    BY <2>1, <2>2, WbType DEF DueFit, DueWritebacks, WritebacksFit
<1> QED
  BY <1>1, <1>2, Inductive, PTL
=============================================================================

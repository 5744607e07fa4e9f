----------------------------- MODULE IntakeProofs -----------------------------
(***************************************************************************)
(* The life of a script in the store, for any number of commands and       *)
(* scripts and any length of a day.                                        *)
(***************************************************************************)
EXTENDS IntakeProperties, SequenceTheorems, TLAPS

\* Past the pop the loop holds a command, and one with a script while it
\* stores it.
HoldsCommand ==
    /\ spc # "pop" => scmd \in Commands \X Bodies
    /\ spc \in {"set", "expire"} => HeldScript \in Scripts

\* The script of a command has at least as long to live as is left of the
\* command's day.
DayIsCovered ==
    \A c \in Commands :
        age[c] < TTL => /\ Script[c] \in Scripts
                        /\ store[Script[c]] >= TTL - age[c]

StoreInv == IntakeTypeOK /\ HoldsCommand /\ DayIsCovered /\ ScriptsExpire

\* Head, Tail and Append keep to the elements of a list.
LEMMA ListTypes ==
    ASSUME NEW S, NEW q \in Seq(S), NEW e \in S
    PROVE  /\ Append(q, e) \in Seq(S)
           /\ q # <<>> => Head(q) \in S /\ Tail(q) \in Seq(S)
  OBVIOUS

\* The initial states satisfy it.
LEMMA IntakeInitInv == IntakeInit => StoreInv
<1> SUFFICES ASSUME IntakeInit PROVE StoreInv
  OBVIOUS
<1>1. 0 \in Gone..Forever /\ TTL \in 0..TTL /\ 0 \in 0..MaxTicks
      /\ 0 \in 0..MaxFaults /\ Gone # Forever
  BY JumpscriptsAssumption DEF Gone, Forever
<1>2. JumpscriptsTypeOK
  BY <1>1 DEF IntakeInit, JumpscriptsInit, JumpscriptsTypeOK, Gone
<1>3. ProcessorTypeOK /\ answered \in [Commands -> Replies]
  BY DEF IntakeInit, ProcessorInit, ProcessorTypeOK, Replies
<1>4. HoldsCommand /\ DayIsCovered /\ ScriptsExpire
  BY <1>1, JumpscriptsAssumption
  DEF IntakeInit, JumpscriptsInit, HoldsCommand, DayIsCovered, ScriptsExpire
<1>5. QED BY <1>2, <1>3, <1>4 DEF StoreInv, IntakeTypeOK

\* The steps of the source on the store.
LEMMA SourceKeepsStore ==
    ASSUME StoreInv,
           \/ Pop \/ Logged \/ Intercept \/ SetScript \/ ExpireScript
           \/ Forward \/ StoreLost \/ AddFails \/ SourcePopLost \/ Tick
           \/ SourceCrash \/ (\E c \in Commands : PushCommand(c))
    PROVE  /\ JumpscriptsTypeOK' /\ HoldsCommand' /\ DayIsCovered'
           /\ ScriptsExpire'
<1> USE JumpscriptsAssumption
    DEF StoreInv, IntakeTypeOK, JumpscriptsTypeOK, HoldsCommand, DayIsCovered,
        ScriptsExpire, Held, HeldScript, SourceGoes, Fault, storeVars, Bodies
<1> DEFINE Kept == /\ JumpscriptsTypeOK' /\ HoldsCommand' /\ DayIsCovered'
                   /\ ScriptsExpire'
<1>1. ASSUME NEW c \in Commands, PushCommand(c) PROVE Kept
  BY <1>1, ListTypes DEF PushCommand
<1>2. ASSUME Pop PROVE Kept
  <2>1. Head(queue) \in Commands /\ queue' \in Seq(Commands)
    BY <1>2, ListTypes DEF Pop
  <2>2. QED BY <1>2, <2>1 DEF Pop, SentBody
<1>3. ASSUME Logged PROVE Kept
  BY <1>3 DEF Logged
<1>4. ASSUME Intercept PROVE Kept
  BY <1>4 DEF Intercept
<1>5. ASSUME SetScript PROVE Kept
  BY <1>5 DEF SetScript, Gone, Forever
<1>6. ASSUME ExpireScript PROVE Kept
  BY <1>6 DEF ExpireScript, Gone, Forever
<1>7. ASSUME Forward PROVE Kept
  BY <1>7 DEF Forward
<1>8. ASSUME StoreLost PROVE Kept
  BY <1>8 DEF StoreLost
<1>9. ASSUME AddFails PROVE Kept
  BY <1>9 DEF AddFails
<1>10. ASSUME SourcePopLost PROVE Kept
  BY <1>10, ListTypes DEF SourcePopLost
<1>11. ASSUME Tick PROVE Kept
  BY <1>11 DEF Tick, Gone, Forever, sourceVars
<1>12. ASSUME SourceCrash PROVE Kept
  BY <1>12 DEF SourceCrash
<1>13. QED
  BY <1>1, <1>2, <1>3, <1>4, <1>5, <1>6, <1>7, <1>8, <1>9, <1>10, <1>11,
     <1>12

\* The steps of the processor keep its types.
LEMMA ProcessorKeepsTypes ==
    ASSUME ProcessorTypeOK,
           \/ UNCHANGED processorVars
           \/ ProcessorCrash
           \/ \E l \in Loops : PopEntry(l) \/ Process(l) \/ EntryLost(l)
           \/ \E l \in Loops, e \in Entries : Log(l, e)
    PROVE  ProcessorTypeOK'
<1> USE DEF ProcessorTypeOK
<1>1. ASSUME NEW l \in Loops, NEW e \in Entries, Log(l, e)
      PROVE  ProcessorTypeOK'
  BY <1>1, ListTypes DEF Log
<1>2. ASSUME NEW l \in Loops, PopEntry(l) PROVE ProcessorTypeOK'
  BY <1>2, ListTypes DEF PopEntry
<1>3. ASSUME NEW l \in Loops, Process(l) PROVE ProcessorTypeOK'
  BY <1>3, ListTypes DEF Process
<1>4. ASSUME NEW l \in Loops, EntryLost(l) PROVE ProcessorTypeOK'
  BY <1>4, ListTypes DEF EntryLost
<1>5. ASSUME ProcessorCrash PROVE ProcessorTypeOK'
  BY <1>5 DEF ProcessorCrash
<1>6. CASE UNCHANGED processorVars
  BY <1>6 DEF processorVars
<1>7. QED BY <1>1, <1>2, <1>3, <1>4, <1>5, <1>6

\* Every step preserves it.
LEMMA NextIntake ==
    ASSUME StoreInv, [IntakeNext]_intakeVars PROVE StoreInv'
<1> USE DEF StoreInv, IntakeTypeOK
<1> DEFINE Kept == /\ JumpscriptsTypeOK' /\ HoldsCommand' /\ DayIsCovered'
                   /\ ScriptsExpire'
<1>1. ASSUME UNCHANGED jumpscriptVars PROVE Kept
  BY <1>1
  DEF jumpscriptVars, sourceVars, storeVars, JumpscriptsTypeOK, HoldsCommand,
      DayIsCovered, ScriptsExpire, HeldScript
<1>2. ASSUME NEW c \in Commands, Run(c) PROVE StoreInv'
  <2>1. answered' \in [Commands -> Replies]
    BY <1>2 DEF Run, script, Replies
  <2>2. <<c, answered'[c]>> \in Entries
    BY <2>1, IntakeAssumption
  <2>3. ProcessorTypeOK'
    BY <1>2, <2>2, ProcessorKeepsTypes DEF Run, Loops
  <2>4. QED BY <1>1, <1>2, <2>1, <2>3 DEF Run
<1>3. ASSUME LogPopped PROVE StoreInv'
  <2>1. scmd \in Entries
    BY <1>3, IntakeAssumption
    DEF LogPopped, Logged, SourceGoes, HoldsCommand
  <2>2. ProcessorTypeOK'
    BY <1>3, <2>1, ProcessorKeepsTypes DEF LogPopped, Loops
  <2>3. QED BY <1>3, <2>2, SourceKeepsStore DEF LogPopped
<1>4. ASSUME LogLost PROVE StoreInv'
  <2>1. Kept
    BY <1>4, JumpscriptsAssumption
    DEF LogLost, Fault, storeVars, JumpscriptsTypeOK, HoldsCommand,
        DayIsCovered, ScriptsExpire, HeldScript
  <2>2. QED BY <1>4, <2>1, ProcessorKeepsTypes DEF LogLost
<1>5. ASSUME Source \/ (Tick \/ \E c \in Commands : PushCommand(c))
             \/ (StoreLost \/ AddFails \/ SourcePopLost),
             UNCHANGED <<processorVars, answered>>
      PROVE  StoreInv'
  BY <1>5, SourceKeepsStore, ProcessorKeepsTypes DEF Source
<1>6. ASSUME NEW l \in Loops, Processing(l) PROVE StoreInv'
  BY <1>1, <1>6, ProcessorKeepsTypes DEF Processing
<1>7. ASSUME NEW l \in Loops, Fault, EntryLost(l),
             UNCHANGED <<pushed, sourceVars, storeVars, ticks, answered>>
      PROVE  StoreInv'
  <2>1. Kept
    BY <1>7, JumpscriptsAssumption
    DEF Fault, sourceVars, storeVars, JumpscriptsTypeOK, HoldsCommand,
        DayIsCovered, ScriptsExpire, HeldScript
  <2>2. QED BY <1>7, <2>1, ProcessorKeepsTypes
<1>8. ASSUME SourceCrash, ProcessorCrash, UNCHANGED answered PROVE StoreInv'
  BY <1>8, SourceKeepsStore, ProcessorKeepsTypes
<1>9. CASE UNCHANGED intakeVars
  BY <1>1, <1>9, ProcessorKeepsTypes DEF intakeVars
<1>10. QED
  BY <1>2, <1>3, <1>4, <1>5, <1>6, <1>7, <1>8, <1>9
  DEF IntakeNext, Source, Losses

\* It holds in every reachable state.
THEOREM IntakeInvariance == IntakeSpec => []StoreInv
<1>1. StoreInv /\ [IntakeNext]_intakeVars => StoreInv'
  BY NextIntake
<1>2. QED BY IntakeInitInv, <1>1, PTL DEF IntakeSpec

-----------------------------------------------------------------------------
\* What is logged is what was sent or what an agent answered, and no
\* extension is ever called with nothing
\* (commandprocessing/processor.go:59-103).
THEOREM IntakeTypeCorrect == IntakeSpec => []IntakeTypeOK
<1>1. StoreInv => IntakeTypeOK
  BY DEF StoreInv
<1>2. QED BY IntakeInvariance, <1>1, PTL

\* Whatever calls are lost or repeated, a hash on its way can be resolved for
\* a day after its script was stored (redisdata/jumpscriptstore.go:23-40).
THEOREM ScriptsLast == IntakeSpec => []ScriptOutlivesItsDay
<1>1. StoreInv => ScriptOutlivesItsDay
  BY DEF StoreInv, DayIsCovered, ScriptOutlivesItsDay
<1>2. QED BY IntakeInvariance, <1>1, PTL

\* A script without expiry is between its SET and its EXPIRE, or its last
\* EXPIRE failed (redisdata/jumpscriptstore.go:29-34).
THEOREM NoScriptForEver == IntakeSpec => []ScriptsExpire
<1>1. StoreInv => ScriptsExpire
  BY DEF StoreInv
<1>2. QED BY IntakeInvariance, <1>1, PTL

-----------------------------------------------------------------------------
(* What the processor gets. *)

IsIn(p, c) == \E i \in DOMAIN p : p[i] = c

Precedes(p, c, d) == \E i, j \in DOMAIN p : i < j /\ p[i] = c /\ p[j] = d

\* The commands of p, once each.
Once(p) == \A i, j \in DOMAIN p : p[i] = p[j] => i = j

\* Commands of p with the bodies they were sent with, in the order of p.
AsSent(p, W) ==
    \A i \in 1..Len(W) : IsIn(p, W[i][1]) /\ W[i][2] = SentBody(W[i][1])

Ordered(p, W) ==
    \A i, j \in 1..Len(W) : j < i => Precedes(p, W[j][1], W[i][1])

AheadOf(p, W, c) == \A i \in 1..Len(W) : Precedes(p, W[i][1], c)

\* One to be logged next, if there is one, with the queue behind it.
LogsNext(p, W, h, q) ==
    /\ IsIn(p, h[1]) /\ h[2] = SentBody(h[1])
    /\ AheadOf(p, W, h[1])
    /\ \A j \in DOMAIN q : Precedes(p, h[1], q[j])

QueuedNext(p, W, q) ==
    \A j \in DOMAIN q :
        /\ IsIn(p, q[j])
        /\ AheadOf(p, W, q[j])
        /\ \A i \in 1..(j - 1) : Precedes(p, q[i], q[j])

InOrder(p, W, logs, h, q) ==
    /\ Once(p) /\ AsSent(p, W) /\ Ordered(p, W)
    /\ logs => LogsNext(p, W, h, q)
    /\ QueuedNext(p, W, q)

\* The commands logged, the one to be logged and the ones queued are pushed
\* commands, as they were sent, one after the other in the order of pushed.
SentInOrder == InOrder(pushed, InLog("commands"), spc = "log", scmd, queue)

\* The results logged are those of agents that answered, one of each.
AnsweredOnce ==
    LET R == InLog("results") IN
    /\ \A i \in DOMAIN R : R[i][1] \in Commands /\ answered[R[i][1]] # "none"
    /\ \A i, j \in DOMAIN R : i # j => R[i] # R[j]

LogInv == StoreInv /\ SentInOrder /\ AnsweredOnce

\* What a step does to a list: it adds one at the end, or takes one out.
IsLonger(t, s, e) ==
    /\ Len(t) = Len(s) + 1
    /\ \A i \in 1..Len(s) : t[i] = s[i]
    /\ t[Len(s) + 1] = e

IsShorter(t, s) ==
    \E k \in 1..Len(s) :
        /\ Len(t) = Len(s) - 1
        /\ \A i \in 1..(Len(s) - 1) : t[i] = s[IF i < k THEN i ELSE i + 1]

\* Three lists one after the other.
LEMMA JoinedAt ==
    ASSUME NEW S, NEW p \in Seq(S), NEW m \in Seq(S), NEW q \in Seq(S)
    PROVE  /\ p \o m \o q \in Seq(S)
           /\ Len(p \o m \o q) = Len(p) + Len(m) + Len(q)
           /\ \A i \in 1..(Len(p) + Len(m) + Len(q)) :
                (p \o m \o q)[i] =
                    IF i <= Len(p) THEN p[i]
                    ELSE IF i <= Len(p) + Len(m) THEN m[i - Len(p)]
                    ELSE q[i - Len(p) - Len(m)]
  OBVIOUS

\* An entry is appended to the last.
LEMMA JoinedLonger ==
    ASSUME NEW S, NEW p \in Seq(S), NEW m \in Seq(S), NEW q \in Seq(S),
           NEW e \in S
    PROVE  IsLonger(p \o m \o Append(q, e), p \o m \o q, e)
<1> DEFINE s == p \o m \o q
           r == Append(q, e)
           t == p \o m \o r
<1>1. /\ r \in Seq(S) /\ Len(r) = Len(q) + 1
      /\ \A i \in 1..Len(q) : r[i] = q[i]
      /\ r[Len(q) + 1] = e
  OBVIOUS
<1>2. Len(p) \in Nat /\ Len(m) \in Nat /\ Len(q) \in Nat
  OBVIOUS
<1>3. /\ Len(s) = Len(p) + Len(m) + Len(q)
      /\ \A i \in 1..(Len(p) + Len(m) + Len(q)) :
           s[i] = IF i <= Len(p) THEN p[i]
                  ELSE IF i <= Len(p) + Len(m) THEN m[i - Len(p)]
                  ELSE q[i - Len(p) - Len(m)]
  BY JoinedAt
<1>4. /\ Len(t) = Len(p) + Len(m) + Len(q) + 1
      /\ \A i \in 1..(Len(p) + Len(m) + Len(q) + 1) :
           t[i] = IF i <= Len(p) THEN p[i]
                  ELSE IF i <= Len(p) + Len(m) THEN m[i - Len(p)]
                  ELSE r[i - Len(p) - Len(m)]
  BY <1>1, JoinedAt
<1> HIDE DEF s, t, r
<1>5. ASSUME NEW i \in 1..Len(s) PROVE t[i] = s[i]
  <2>1. i \in 1..(Len(p) + Len(m) + Len(q))
        /\ i \in 1..(Len(p) + Len(m) + Len(q) + 1)
    BY <1>2, <1>3
  <2>2. CASE i <= Len(p) + Len(m)
    BY <1>3, <1>4, <2>1, <2>2
  <2>3. CASE ~ (i <= Len(p) + Len(m))
    <3>1. i - Len(p) - Len(m) \in 1..Len(q) /\ ~ (i <= Len(p))
      BY <1>2, <2>1, <2>3
    <3>2. t[i] = r[i - Len(p) - Len(m)] /\ s[i] = q[i - Len(p) - Len(m)]
      BY <1>3, <1>4, <2>1, <2>3, <3>1
    <3>3. QED BY <1>1, <3>1, <3>2
  <2>4. QED BY <2>2, <2>3
<1>6. t[Len(s) + 1] = e
  <2>1. Len(s) + 1 - Len(p) - Len(m) = Len(q) + 1
    BY <1>2, <1>3
  <2>2. QED BY <1>1, <1>2, <1>3, <1>4, <2>1
<1>7. IsLonger(t, s, e)
  BY <1>2, <1>3, <1>4, <1>5, <1>6 DEF IsLonger
<1>8. QED BY <1>7 DEF s, t, r

\* An entry goes from the list to the hand.
LEMMA HeadInHand ==
    ASSUME NEW S, NEW p \in Seq(S), NEW q \in Seq(S), q # <<>>
    PROVE  p \o <<Head(q)>> \o Tail(q) = p \o <<>> \o q
<1>1. p \o <<>> = p
  BY ConcatEmptySeq
<1>2. /\ Head(q) \in S /\ Tail(q) \in Seq(S) /\ <<Head(q)>> \in Seq(S)
      /\ <<Head(q)>> \o Tail(q) = q
  OBVIOUS
<1>3. (p \o <<Head(q)>>) \o Tail(q) = p \o (<<Head(q)>> \o Tail(q))
  BY <1>2, ConcatAssociative
<1>4. QED BY <1>1, <1>2, <1>3

\* It goes from the hand to the processed ones.
LEMMA HandProcessed ==
    ASSUME NEW S, NEW p \in Seq(S), NEW q \in Seq(S), NEW e \in S
    PROVE  Append(p, e) \o <<>> \o q = p \o <<e>> \o q
  BY ConcatEmptySeq, AppendIsConcat, AppendProperties

\* It is taken out of the hand.
LEMMA HandShorter ==
    ASSUME NEW S, NEW p \in Seq(S), NEW q \in Seq(S), NEW e \in S
    PROVE  IsShorter(p \o <<>> \o q, p \o <<e>> \o q)
<1> DEFINE s == p \o <<e>> \o q
           t == p \o <<>> \o q
<1>1. Len(p) \in Nat /\ Len(q) \in Nat /\ <<e>> \in Seq(S) /\ <<>> \in Seq(S)
  OBVIOUS
<1>2. /\ Len(s) = Len(p) + 1 + Len(q)
      /\ \A i \in 1..(Len(p) + 1 + Len(q)) :
           i # Len(p) + 1 => s[i] = IF i <= Len(p) THEN p[i]
                                    ELSE q[i - Len(p) - 1]
  BY <1>1, JoinedAt
<1>3. /\ Len(t) = Len(p) + Len(q)
      /\ \A i \in 1..(Len(p) + Len(q)) :
           t[i] = IF i <= Len(p) THEN p[i] ELSE q[i - Len(p)]
  BY <1>1, JoinedAt
<1> HIDE DEF s, t
<1> DEFINE k == Len(p) + 1
<1>4. k \in 1..Len(s) /\ Len(t) = Len(s) - 1
  BY <1>1, <1>2, <1>3
<1>5. ASSUME NEW i \in 1..(Len(s) - 1)
      PROVE  t[i] = s[IF i < k THEN i ELSE i + 1]
  <2>1. CASE i < k
    BY <1>1, <1>2, <1>3, <2>1
  <2>2. CASE ~ (i < k)
    <3>1. i + 1 - Len(p) - 1 = i - Len(p)
      BY <1>1, <1>2
    <3>2. QED BY <1>1, <1>2, <1>3, <2>2, <3>1
  <2>3. QED BY <2>1, <2>2
<1>6. IsShorter(t, s)
  BY <1>4, <1>5 DEF IsShorter
<1>7. QED BY <1>6 DEF s, t

\* It is taken off the list.
LEMMA HeadShorter ==
    ASSUME NEW S, NEW p \in Seq(S), NEW q \in Seq(S), q # <<>>
    PROVE  IsShorter(p \o <<>> \o Tail(q), p \o <<>> \o q)
<1>1. Head(q) \in S /\ Tail(q) \in Seq(S)
  OBVIOUS
<1>2. IsShorter(p \o <<>> \o Tail(q), p \o <<Head(q)>> \o Tail(q))
  BY <1>1, HandShorter
<1>3. p \o <<Head(q)>> \o Tail(q) = p \o <<>> \o q
  BY HeadInHand
<1>4. QED BY <1>2, <1>3

\* The same for the entries of a loop.
LEMMA LogKeepsOrder ==
    ASSUME ProcessorTypeOK, NEW l \in Loops, NEW e \in Entries, Log(l, e)
    PROVE  /\ IsLonger(InLog(l)', InLog(l), e)
           /\ \A m \in Loops \ {l} : InLog(m)' = InLog(m)
<1>1. /\ processed' = processed /\ inHand' = inHand
      /\ logQueue'[l] = Append(logQueue[l], e)
      /\ \A m \in Loops \ {l} : logQueue'[m] = logQueue[m]
  BY DEF Log, ProcessorTypeOK
<1>2. /\ processed[l] \in Seq(Entries) /\ logQueue[l] \in Seq(Entries)
      /\ inHand[l] # NoEntry => inHand[l] \in Entries
  BY DEF ProcessorTypeOK
<1>3. CASE inHand[l] = NoEntry
  <2>1. /\ InLog(l) = processed[l] \o <<>> \o logQueue[l]
        /\ InLog(l)' = processed[l] \o <<>> \o Append(logQueue[l], e)
    BY <1>1, <1>3 DEF InLog
  <2>2. <<>> \in Seq(Entries)
    OBVIOUS
  <2>3. IsLonger(processed[l] \o <<>> \o Append(logQueue[l], e),
                 processed[l] \o <<>> \o logQueue[l], e)
    BY <1>2, <2>2, JoinedLonger
  <2>4. IsLonger(InLog(l)', InLog(l), e)
    BY <2>1, <2>3
  <2>5. QED BY <1>1, <2>4 DEF InLog
<1>4. CASE inHand[l] # NoEntry
  <2>1. /\ InLog(l) = processed[l] \o <<inHand[l]>> \o logQueue[l]
        /\ InLog(l)' = processed[l] \o <<inHand[l]>> \o Append(logQueue[l], e)
    BY <1>1, <1>4 DEF InLog
  <2>2. <<inHand[l]>> \in Seq(Entries)
    BY <1>2, <1>4
  <2>3. IsLonger(processed[l] \o <<inHand[l]>> \o Append(logQueue[l], e),
                 processed[l] \o <<inHand[l]>> \o logQueue[l], e)
    BY <1>2, <2>2, JoinedLonger
  <2>4. IsLonger(InLog(l)', InLog(l), e)
    BY <2>1, <2>3
  <2>5. QED BY <1>1, <2>4 DEF InLog
<1>5. QED BY <1>3, <1>4

\* The processor and the faults only take entries out.
SameOrShorter(l) == InLog(l)' = InLog(l) \/ IsShorter(InLog(l)', InLog(l))

\* Each step of the processor does one of the two, or nothing.
LEMMA ProcessorKeepsOrder ==
    ASSUME ProcessorTypeOK,
           \/ UNCHANGED processorVars
           \/ ProcessorCrash
           \/ \E l \in Loops : PopEntry(l) \/ Process(l) \/ EntryLost(l)
    PROVE  \A l \in Loops : SameOrShorter(l)
<1> SUFFICES ASSUME NEW l \in Loops PROVE SameOrShorter(l)
  OBVIOUS
<1> DEFINE p == processed[l]
           q == logQueue[l]
           e == inHand[l]
<1>1. /\ p \in Seq(Entries) /\ q \in Seq(Entries)
      /\ e # NoEntry => e \in Entries
      /\ q # <<>> => Head(q) \in Entries /\ Head(q) # NoEntry
  BY ProcessorAssumption, ListTypes DEF ProcessorTypeOK
<1>2. /\ e = NoEntry => InLog(l) = p \o <<>> \o q
      /\ e # NoEntry => InLog(l) = p \o <<e>> \o q
  BY DEF InLog
<1>3. CASE p' = p /\ q' = q /\ e' = e
  BY <1>3 DEF InLog, SameOrShorter
<1>4. CASE e # NoEntry /\ e' = NoEntry /\ q' = q /\ p' \in {p, Append(p, e)}
  <2>1. InLog(l)' = p' \o <<>> \o q
    BY <1>4 DEF InLog
  <2>2. Append(p, e) \o <<>> \o q = p \o <<e>> \o q
    BY <1>1, <1>4, HandProcessed
  <2>3. IsShorter(p \o <<>> \o q, p \o <<e>> \o q)
    BY <1>1, <1>4, HandShorter
  <2>4. QED BY <1>2, <1>4, <2>1, <2>2, <2>3 DEF SameOrShorter
<1>5. CASE /\ e = NoEntry /\ q # <<>> /\ p' = p /\ q' = Tail(q)
           /\ e' \in {NoEntry, Head(q)}
  <2>1. /\ e' = NoEntry => InLog(l)' = p \o <<>> \o Tail(q)
        /\ e' # NoEntry => InLog(l)' = p \o <<Head(q)>> \o Tail(q)
    BY <1>1, <1>5 DEF InLog
  <2>2. p \o <<Head(q)>> \o Tail(q) = p \o <<>> \o q
    BY <1>1, <1>5, HeadInHand
  <2>3. IsShorter(p \o <<>> \o Tail(q), p \o <<>> \o q)
    BY <1>1, <1>5, HeadShorter
  <2>4. QED BY <1>2, <1>5, <2>1, <2>2, <2>3 DEF SameOrShorter
<1>6. CASE UNCHANGED processorVars
  BY <1>3, <1>6 DEF processorVars
<1>7. CASE ProcessorCrash
  BY <1>3, <1>4, <1>7 DEF ProcessorCrash
<1>8. ASSUME NEW m \in Loops, PopEntry(m) \/ Process(m) \/ EntryLost(m)
      PROVE  SameOrShorter(l)
  <2>1. CASE m # l
    <3>1. p' = p /\ q' = q /\ e' = e
      BY <1>8, <2>1 DEF PopEntry, Process, EntryLost, ProcessorTypeOK
    <3>2. QED BY <1>3, <3>1
  <2>2. CASE m = l /\ PopEntry(l)
    BY <1>5, <2>2 DEF PopEntry, ProcessorTypeOK
  <2>3. CASE m = l /\ Process(l)
    BY <1>4, <2>3 DEF Process, ProcessorTypeOK
  <2>4. CASE m = l /\ EntryLost(l)
    BY <1>5, <2>4 DEF EntryLost, ProcessorTypeOK
  <2>5. QED BY <1>8, <2>1, <2>2, <2>3, <2>4
<1>9. QED BY <1>6, <1>7, <1>8

-----------------------------------------------------------------------------
(* The order of three lists. *)

\* Taking an entry out keeps it.
LEMMA ShorterInOrder ==
    ASSUME NEW p, NEW W \in Seq(Entries), NEW T \in Seq(Entries),
           IsShorter(T, W), NEW logs, NEW h, NEW q, InOrder(p, W, logs, h, q)
    PROVE  InOrder(p, T, logs, h, q)
<1>1. PICK k \in 1..Len(W) :
        /\ Len(T) = Len(W) - 1
        /\ \A i \in 1..(Len(W) - 1) : T[i] = W[IF i < k THEN i ELSE i + 1]
  BY DEF IsShorter
<1> DEFINE f(i) == IF i < k THEN i ELSE i + 1
<1>2. Len(W) \in Nat
  OBVIOUS
<1>3. \A i \in 1..Len(T) : f(i) \in 1..Len(W) /\ T[i] = W[f(i)]
  BY <1>1, <1>2
<1>4. \A i, j \in 1..Len(T) : j < i => f(j) < f(i)
  BY <1>1, <1>2
<1> HIDE DEF f
<1>5. /\ AsSent(p, W) => AsSent(p, T)
      /\ Ordered(p, W) => Ordered(p, T)
      /\ \A c : AheadOf(p, W, c) => AheadOf(p, T, c)
  BY <1>3, <1>4 DEF AsSent, Ordered, AheadOf
<1>6. QED BY <1>5 DEF InOrder, LogsNext, QueuedNext

\* So does popping the queue, whose head is what to log next.
LEMMA TailInOrder ==
    ASSUME NEW p, NEW W, NEW logs, NEW h, NEW q \in Seq(Commands), q # <<>>,
           InOrder(p, W, logs, h, q)
    PROVE  /\ InOrder(p, W, logs, h, Tail(q))
           /\ InOrder(p, W, TRUE, <<Head(q), SentBody(Head(q))>>, Tail(q))
<1> DEFINE r == Tail(q)
           g == <<Head(q), SentBody(Head(q))>>
<1> DEFINE s(j) == j + 1
<1>1. /\ \A j \in DOMAIN r :
           /\ s(j) \in DOMAIN q /\ r[j] = q[s(j)]
           /\ 1 \in 1..(s(j) - 1)
           /\ \A i \in 1..(j - 1) : s(i) \in 1..(s(j) - 1) /\ r[i] = q[s(i)]
      /\ 1 \in DOMAIN q /\ g[1] = q[1] /\ g[2] = SentBody(q[1])
  OBVIOUS
<1> HIDE DEF r, g, s
<1>2. QueuedNext(p, W, r)
  <2>1. ASSUME NEW j \in DOMAIN r
        PROVE  /\ IsIn(p, r[j]) /\ AheadOf(p, W, r[j])
               /\ \A i \in 1..(j - 1) : Precedes(p, r[i], r[j])
    <3>1. /\ IsIn(p, q[s(j)]) /\ AheadOf(p, W, q[s(j)])
          /\ \A i \in 1..(s(j) - 1) : Precedes(p, q[i], q[s(j)])
      BY <1>1 DEF InOrder, QueuedNext
    <3>2. QED BY <1>1, <3>1
  <2>2. QED BY <2>1 DEF QueuedNext
<1>3. LogsNext(p, W, h, q) => LogsNext(p, W, h, r)
  BY <1>1 DEF LogsNext
<1>4. LogsNext(p, W, g, r)
  BY <1>1 DEF InOrder, QueuedNext, LogsNext
<1>5. InOrder(p, W, logs, h, r) /\ InOrder(p, W, TRUE, g, r)
  BY <1>2, <1>3, <1>4 DEF InOrder
<1>6. QED BY <1>5 DEF r, g

\* A pushed command is behind all the others.
LEMMA PushInOrder ==
    ASSUME NEW p \in Seq(Commands), NEW W, NEW logs, NEW h,
           NEW q \in Seq(Commands), NEW c \in Commands, ~ IsIn(p, c),
           InOrder(p, W, logs, h, q)
    PROVE  InOrder(Append(p, c), W, logs, h, Append(q, c))
<1> DEFINE s == Append(p, c)
           r == Append(q, c)
<1>1. /\ DOMAIN p = 1..Len(p) /\ Len(p) \in Nat
      /\ DOMAIN s = 1..(Len(p) + 1) /\ s[Len(p) + 1] = c
      /\ \A i \in DOMAIN p : s[i] = p[i]
  OBVIOUS
<1>2. /\ DOMAIN q = 1..Len(q) /\ Len(q) \in Nat
      /\ DOMAIN r = 1..(Len(q) + 1) /\ r[Len(q) + 1] = c
      /\ \A i \in DOMAIN q : r[i] = q[i]
  OBVIOUS
<1> HIDE DEF s, r
<1>3. /\ \A d, e : Precedes(p, d, e) => Precedes(s, d, e)
      /\ \A d : IsIn(p, d) => IsIn(s, d) /\ Precedes(s, d, c)
      /\ IsIn(s, c)
  BY <1>1 DEF Precedes, IsIn
<1>4. Once(s)
  BY <1>1 DEF Once, IsIn, InOrder
<1>5. /\ AsSent(s, W) /\ Ordered(s, W) /\ AheadOf(s, W, c)
      /\ \A d : AheadOf(p, W, d) => AheadOf(s, W, d)
  BY <1>3 DEF InOrder, AsSent, Ordered, AheadOf
<1>6. QueuedNext(s, W, r)
  <2>1. ASSUME NEW j \in DOMAIN q
        PROVE  /\ IsIn(s, r[j]) /\ AheadOf(s, W, r[j]) /\ Precedes(s, r[j], c)
               /\ \A i \in 1..(j - 1) : Precedes(s, r[i], r[j])
    <3>1. r[j] = q[j] /\ \A i \in 1..(j - 1) : r[i] = q[i]
      BY <1>2
    <3>2. QED BY <1>3, <1>5, <3>1 DEF InOrder, QueuedNext
  <2>2. ASSUME NEW j \in DOMAIN r, j \notin DOMAIN q
        PROVE  r[j] = c /\ \A i \in 1..(j - 1) : i \in DOMAIN q
    BY <1>2, <2>2
  <2>3. QED BY <1>3, <1>5, <2>1, <2>2 DEF QueuedNext
<1>7. LogsNext(p, W, h, q) => LogsNext(s, W, h, r)
  <2>1. \A j \in DOMAIN r : j \notin DOMAIN q => r[j] = c
    BY <1>2
  <2>2. QED BY <1>2, <1>3, <1>5, <2>1 DEF LogsNext
<1>8. InOrder(s, W, logs, h, r)
  BY <1>4, <1>5, <1>6, <1>7 DEF InOrder
<1>9. QED BY <1>8 DEF s, r

\* Logging the next one.
LEMMA LogInOrder ==
    ASSUME NEW p, NEW W \in Seq(Entries), NEW T, NEW h, NEW g, NEW q,
           IsLonger(T, W, h), InOrder(p, W, TRUE, h, q)
    PROVE  InOrder(p, T, FALSE, g, q)
<1>1. /\ Len(W) \in Nat /\ Len(T) = Len(W) + 1
      /\ \A i \in 1..Len(W) : T[i] = W[i]
      /\ T[Len(W) + 1] = h
  BY DEF IsLonger
<1>2. \A i \in 1..Len(T) : i \in 1..Len(W) \/ i = Len(W) + 1
  BY <1>1
<1>3. AsSent(p, T)
  BY <1>1, <1>2 DEF InOrder, AsSent, LogsNext
<1>4. Ordered(p, T)
  <2>1. \A i, j \in 1..Len(T) : j < i => j \in 1..Len(W)
    BY <1>1
  <2>2. QED BY <1>1, <1>2, <2>1 DEF InOrder, Ordered, LogsNext, AheadOf
<1>5. QueuedNext(p, T, q)
  BY <1>1, <1>2 DEF InOrder, QueuedNext, LogsNext, AheadOf
<1>6. QED BY <1>3, <1>4, <1>5 DEF InOrder

-----------------------------------------------------------------------------
(* The steps. *)

\* The entries are lists before and after a step.
LEMMA LogsAreLists ==
    ASSUME ProcessorTypeOK, ProcessorTypeOK', NEW l \in Loops
    PROVE  InLog(l) \in Seq(Entries) /\ InLog(l)' \in Seq(Entries)
<1>1. InLog(l) \in Seq(Entries)
  BY JoinedAt DEF InLog, ProcessorTypeOK
<1>2. InLog(l)' \in Seq(Entries)
  BY JoinedAt DEF InLog, ProcessorTypeOK
<1>3. QED BY <1>1, <1>2

\* Steps that log and push nothing, and pop nothing to be logged.
LEMMA QuietKeepsSent ==
    ASSUME StoreInv, ProcessorTypeOK', SentInOrder,
           SameOrShorter("commands"),
           UNCHANGED pushed,
           spc' = "log" => spc = "log" /\ scmd' = scmd,
           queue' = queue \/ (queue # <<>> /\ queue' = Tail(queue))
    PROVE  SentInOrder'
<1> DEFINE W == InLog("commands")
<1>1. W \in Seq(Entries) /\ W' \in Seq(Entries)
  BY LogsAreLists DEF StoreInv, IntakeTypeOK, Loops
<1>2. InOrder(pushed, W', spc = "log", scmd, queue)
  BY <1>1, ShorterInOrder DEF SameOrShorter, SentInOrder
<1>3. queue \in Seq(Commands)
  BY DEF StoreInv, IntakeTypeOK, JumpscriptsTypeOK
<1>4. InOrder(pushed, W', spc = "log", scmd, queue')
  BY <1>2, <1>3, TailInOrder
<1>5. InOrder(pushed', W', spc' = "log", scmd', queue')
  BY <1>4 DEF InOrder
<1>6. QED BY <1>5 DEF SentInOrder

\* The steps of the source, and those of the processor.
LEMMA SourceKeepsSent ==
    ASSUME StoreInv, ProcessorTypeOK', SentInOrder,
           \/ UNCHANGED processorVars
           \/ ProcessorCrash
           \/ \E l \in Loops : PopEntry(l) \/ Process(l) \/ EntryLost(l),
           \/ Pop \/ Intercept \/ SetScript \/ ExpireScript \/ Forward
           \/ StoreLost \/ AddFails \/ SourcePopLost \/ Tick \/ SourceCrash
           \/ LogLost
           \/ UNCHANGED <<pushed, sourceVars>>
           \/ \E c \in Commands : PushCommand(c),
           Pop \/ (\E c \in Commands : PushCommand(c))
             => UNCHANGED processorVars
    PROVE  SentInOrder'
<1> DEFINE W == InLog("commands")
<1>1. SameOrShorter("commands")
  BY ProcessorKeepsOrder DEF StoreInv, IntakeTypeOK, Loops
<1>2. /\ queue \in Seq(Commands) /\ pushed \in Seq(Commands)
      /\ InOrder(pushed, W, spc = "log", scmd, queue)
  BY DEF StoreInv, IntakeTypeOK, JumpscriptsTypeOK, SentInOrder
<1>3. CASE Pop
  <2>1. W' = W
    BY <1>3 DEF processorVars, InLog
  <2>2. /\ queue # <<>> /\ queue' = Tail(queue) /\ pushed' = pushed
        /\ scmd' = <<Head(queue), SentBody(Head(queue))>>
        /\ (spc' = "log") = TRUE
    BY <1>3 DEF Pop, SourceGoes
  <2>3. InOrder(pushed, W, TRUE, scmd', queue')
    BY <1>2, <2>2, TailInOrder
  <2>4. InOrder(pushed', W', spc' = "log", scmd', queue')
    BY <2>1, <2>2, <2>3
  <2>5. QED BY <2>4 DEF SentInOrder
<1>4. ASSUME NEW c \in Commands, PushCommand(c) PROVE SentInOrder'
  <2>1. W' = W
    BY <1>4 DEF processorVars, InLog
  <2>2. /\ pushed' = Append(pushed, c) /\ queue' = Append(queue, c)
        /\ spc' = spc /\ scmd' = scmd /\ ~ IsIn(pushed, c)
    BY <1>4 DEF PushCommand, IsIn
  <2>3. InOrder(pushed', W, spc = "log", scmd, queue')
    BY <1>2, <2>2, PushInOrder
  <2>4. InOrder(pushed', W', spc' = "log", scmd', queue')
    BY <2>1, <2>2, <2>3
  <2>5. QED BY <2>4 DEF SentInOrder
<1>5. CASE \/ Intercept \/ SetScript \/ ExpireScript \/ Forward
           \/ StoreLost \/ AddFails \/ SourcePopLost \/ Tick \/ SourceCrash
           \/ LogLost
           \/ UNCHANGED <<pushed, sourceVars>>
  <2>1. /\ UNCHANGED pushed
        /\ spc' = "log" => spc = "log" /\ scmd' = scmd
        /\ queue' = queue \/ (queue # <<>> /\ queue' = Tail(queue))
    BY <1>5 DEF Intercept, SetScript, ExpireScript, Forward, StoreLost,
                AddFails, SourcePopLost, Tick, SourceCrash, LogLost,
                SourceGoes, sourceVars
  <2>2. QED BY <1>1, <2>1, QuietKeepsSent
<1>6. QED BY <1>3, <1>4, <1>5

\* Taking a result out, or adding one of a command that had none.
LEMMA ShorterAnswers ==
    ASSUME StoreInv, ProcessorTypeOK', AnsweredOnce, UNCHANGED answered,
           SameOrShorter("results")
    PROVE  AnsweredOnce'
<1> DEFINE W == InLog("results")
<1>1. W \in Seq(Entries) /\ W' \in Seq(Entries)
  BY LogsAreLists DEF StoreInv, IntakeTypeOK, Loops
<1>2. CASE W' = W
  BY <1>2 DEF AnsweredOnce
<1>3. CASE IsShorter(W', W)
  <2>1. PICK k \in 1..Len(W) :
          /\ Len(W') = Len(W) - 1
          /\ \A i \in 1..(Len(W) - 1) : W'[i] = W[IF i < k THEN i ELSE i + 1]
    BY <1>3 DEF IsShorter
  <2> DEFINE f(i) == IF i < k THEN i ELSE i + 1
  <2>2. /\ DOMAIN W = 1..Len(W) /\ DOMAIN W' = 1..Len(W') /\ Len(W) \in Nat
        /\ \A i \in 1..Len(W') : f(i) \in 1..Len(W) /\ W'[i] = W[f(i)]
        /\ \A i, j \in 1..Len(W') : i # j => f(i) # f(j)
    BY <1>1, <2>1
  <2> HIDE DEF f
  <2>3. /\ \A i \in DOMAIN W :
             W[i][1] \in Commands /\ answered[W[i][1]] # "none"
        /\ \A i, j \in DOMAIN W : i # j => W[i] # W[j]
    BY DEF AnsweredOnce
  <2> HIDE DEF W
  <2>4. /\ \A i \in DOMAIN W' :
             W'[i][1] \in Commands /\ answered[W'[i][1]] # "none"
        /\ \A i, j \in DOMAIN W' : i # j => W'[i] # W'[j]
    BY <2>2, <2>3
  <2>5. QED BY <2>4 DEF AnsweredOnce, W
<1>4. QED BY <1>2, <1>3 DEF SameOrShorter

\* An agent answers once: its result is a new one.
LEMMA RunKeepsAnswers ==
    ASSUME StoreInv, ProcessorTypeOK', AnsweredOnce,
           NEW c \in Commands, Run(c)
    PROVE  AnsweredOnce'
<1> DEFINE W == InLog("results")
           e == <<c, answered'[c]>>
<1>1. /\ answered[c] = "none"
      /\ answered'[c] \in {"200", "404"}
      /\ \A d \in Commands \ {c} : answered'[d] = answered[d]
      /\ Log("results", e)
  BY DEF Run, script, StoreInv, IntakeTypeOK
<1>2. e \in Entries
  BY <1>1, IntakeAssumption DEF Replies
<1>3. W \in Seq(Entries) /\ W' \in Seq(Entries)
  BY LogsAreLists DEF StoreInv, IntakeTypeOK, Loops
<1>4. IsLonger(W', W, e)
  BY <1>1, <1>2, LogKeepsOrder DEF StoreInv, IntakeTypeOK, Loops
<1>5. /\ DOMAIN W = 1..Len(W) /\ DOMAIN W' = 1..(Len(W) + 1)
      /\ \A i \in DOMAIN W : W'[i] = W[i]
      /\ W'[Len(W) + 1] = e
      /\ \A i \in DOMAIN W' : i \in DOMAIN W \/ i = Len(W) + 1
  BY <1>3, <1>4 DEF IsLonger
<1>6. \A i \in DOMAIN W :
        W[i][1] \in Commands \ {c} /\ answered[W[i][1]] # "none"
  BY <1>1 DEF AnsweredOnce
<1>7. e[1] = c /\ \A i \in DOMAIN W : W[i] # e
  BY <1>6
<1> HIDE DEF W, e
<1>8. \A i \in DOMAIN W' : W'[i][1] \in Commands /\ answered'[W'[i][1]] # "none"
  BY <1>1, <1>5, <1>6, <1>7
<1>9. \A i, j \in DOMAIN W' : i # j => W'[i] # W'[j]
  BY <1>5, <1>7 DEF AnsweredOnce, W
<1>10. QED BY <1>8, <1>9 DEF AnsweredOnce, W

\* The initial states satisfy it.
LEMMA LogInitInv == IntakeInit => LogInv
<1> SUFFICES ASSUME IntakeInit PROVE LogInv
  OBVIOUS
<1>1. \A l \in Loops : InLog(l) = <<>>
  BY DEF IntakeInit, ProcessorInit, InLog
<1>2. InLog("commands") = <<>> /\ InLog("results") = <<>>
  BY <1>1 DEF Loops
<1>3. SentInOrder
  BY <1>2 DEF IntakeInit, JumpscriptsInit, SentInOrder, InOrder, Once, AsSent,
              Ordered, QueuedNext
<1>4. AnsweredOnce
  BY <1>2 DEF AnsweredOnce
<1>5. QED BY <1>3, <1>4, IntakeInitInv DEF LogInv

\* Every step preserves it.
LEMMA NextLog ==
    ASSUME LogInv, [IntakeNext]_intakeVars PROVE LogInv'
<1> USE DEF LogInv
<1>1. StoreInv' /\ ProcessorTypeOK' /\ ProcessorTypeOK
  BY NextIntake DEF StoreInv, IntakeTypeOK
<1>2. ASSUME \/ UNCHANGED processorVars
             \/ ProcessorCrash
             \/ \E l \in Loops : PopEntry(l) \/ Process(l) \/ EntryLost(l),
             UNCHANGED answered
      PROVE  AnsweredOnce'
  BY <1>1, <1>2, ProcessorKeepsOrder, ShorterAnswers DEF Loops
<1>3. ASSUME NEW c \in Commands, Run(c) PROVE LogInv'
  <2>1. AnsweredOnce'
    BY <1>1, <1>3, RunKeepsAnswers
  <2>2. <<c, answered'[c]>> \in Entries
    BY <1>3, IntakeAssumption DEF Run, script, StoreInv, IntakeTypeOK, Replies
  <2>3. SameOrShorter("commands")
    BY <1>1, <1>3, <2>2, LogKeepsOrder DEF Run, SameOrShorter, Loops
  <2>4. SentInOrder'
    BY <1>1, <1>3, <2>3, QuietKeepsSent DEF Run, jumpscriptVars, sourceVars
  <2>5. QED BY <1>1, <2>1, <2>4
<1>4. CASE LogPopped
  <2>1. /\ Log("commands", scmd) /\ spc = "log" /\ spc' = "intercept"
        /\ UNCHANGED <<pushed, queue, scmd, answered>>
    BY <1>4 DEF LogPopped, Logged, SourceGoes
  <2>2. scmd \in Entries
    BY <2>1, IntakeAssumption DEF StoreInv, HoldsCommand
  <2>3. /\ IsLonger(InLog("commands")', InLog("commands"), scmd)
        /\ InLog("results")' = InLog("results")
    BY <1>1, <2>1, <2>2, LogKeepsOrder DEF Loops
  <2>4. InLog("commands") \in Seq(Entries)
    BY <1>1, LogsAreLists DEF Loops
  <2>5. InOrder(pushed, InLog("commands"), TRUE, scmd, queue)
    BY <2>1 DEF SentInOrder, InOrder
  <2>6. InOrder(pushed, InLog("commands")', FALSE, scmd, queue)
    BY <2>3, <2>4, <2>5, LogInOrder
  <2>7. InOrder(pushed', InLog("commands")', spc' = "log", scmd', queue')
    BY <2>1, <2>6 DEF InOrder
  <2>8. SentInOrder'
    BY <2>7 DEF SentInOrder
  <2>9. AnsweredOnce'
    BY <1>1, <2>1, <2>3, ShorterAnswers DEF SameOrShorter
  <2>10. QED BY <1>1, <2>8, <2>9
<1>5. CASE LogLost
  BY <1>1, <1>2, <1>5, SourceKeepsSent
  DEF LogLost, Pop, PushCommand, SourceGoes
<1>6. ASSUME Source \/ (Tick \/ \E c \in Commands : PushCommand(c))
             \/ (StoreLost \/ AddFails \/ SourcePopLost),
             UNCHANGED <<processorVars, answered>>
      PROVE  LogInv'
  BY <1>1, <1>2, <1>6, SourceKeepsSent DEF Source
<1>7. ASSUME NEW l \in Loops, PopEntry(l) \/ Process(l) \/ EntryLost(l),
             UNCHANGED <<pushed, sourceVars, answered>>
      PROVE  LogInv'
  BY <1>1, <1>2, <1>7, SourceKeepsSent DEF Pop, PushCommand, sourceVars
<1>8. ASSUME SourceCrash, ProcessorCrash, UNCHANGED answered PROVE LogInv'
  BY <1>1, <1>2, <1>8, SourceKeepsSent
  DEF SourceCrash, Pop, PushCommand, SourceGoes
<1>9. CASE UNCHANGED intakeVars
  BY <1>1, <1>2, <1>9, SourceKeepsSent DEF intakeVars, jumpscriptVars
<1>10. QED
  BY <1>3, <1>4, <1>5, <1>6, <1>7, <1>8, <1>9
  DEF IntakeNext, Source, Losses, Processing, jumpscriptVars

\* The extension gets the commands as they were sent, in the order they were
\* pushed, none twice, and no result twice, however long the lists and
\* whatever is lost (commandprocessing/processor.go:59-103).
THEOREM LoggedAsSent == IntakeSpec => []ProcessedAsSent
<1>1. LogInv => ProcessedAsSent
  <2> SUFFICES ASSUME LogInv PROVE ProcessedAsSent
    OBVIOUS
  <2> DEFINE W == InLog("commands")
  <2>1. W \in Seq(Entries)
    BY JoinedAt
    DEF LogInv, StoreInv, IntakeTypeOK, ProcessorTypeOK, InLog, Loops
  <2>2. DOMAIN W = 1..Len(W) /\ Len(W) \in Nat
    BY <2>1
  <2>3. AsSent(pushed, W) /\ Ordered(pushed, W)
    BY DEF LogInv, SentInOrder, InOrder
  <2>4. ASSUME NEW i \in DOMAIN W
        PROVE  /\ W[i][2] = SentBody(W[i][1])
               /\ \A j \in 1..(i - 1) : Before(W[j][1], W[i][1])
    <3>1. \A j \in 1..(i - 1) : j \in 1..Len(W) /\ j < i
      BY <2>2
    <3>2. QED BY <2>2, <2>3, <3>1 DEF AsSent, Ordered, Precedes, Before
  <2>5. QED BY <2>4 DEF LogInv, AnsweredOnce, ProcessedAsSent
<1>2. LogInv /\ [IntakeNext]_intakeVars => LogInv'
  BY NextLog
<1>3. QED BY LogInitInv, <1>1, <1>2, PTL DEF IntakeSpec
=============================================================================

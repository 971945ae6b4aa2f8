--------------------------- MODULE MeteringProofs ---------------------------
(***************************************************************************)
(* Theorems about Metering for every value of its constants: its price,    *)
(* its types, and the row locks, which with the types are inductive; and,  *)
(* from the types and locks, what the metering promises: the ledger        *)
(* explains each balance and accounts for each call, the statements        *)
(* implement CallAccount, and a reservation commits on what is true at its *)
(* commit.                                                                 *)
(***************************************************************************)
EXTENDS Metering, SequenceTheorems, TLAPS

-----------------------------------------------------------------------------
\* The price of a call

(* Rounding never undercharges, and overcharges by less than one credit:   *)
(* applyMultiplierBP promises the operator never to collect too little.    *)
THEOREM MultiplierRoundsUp ==
    ASSUME NEW cost \in Nat, NEW bp \in Nat
    PROVE  /\ applyMultiplierBP(cost, bp) \in Nat
           /\ 10000 * applyMultiplierBP(cost, bp) >= cost * bp
           /\ 10000 * applyMultiplierBP(cost, bp) < cost * bp + 10000
<1> DEFINE x == cost * bp
<1>1. x \in Nat
  OBVIOUS
<1> HIDE DEF x
<1>2. /\ (x + 9999) \div 10000 \in Nat
      /\ 10000 * ((x + 9999) \div 10000) >= x
      /\ 10000 * ((x + 9999) \div 10000) < x + 10000
  BY <1>1, Z3
<1> QED
  BY <1>2 DEF applyMultiplierBP, x

-----------------------------------------------------------------------------
\* Types

(* A process that is in the middle of something works for a known call. *)
JobOK == \A p \in Procs : pc[p] \notin {"idle", "done"} => job[p] \in CallIds
TypeInv == TypeOK /\ JobOK

(* The parts of TypeOK that a step can disturb. *)
TxRecords == [read : Int, cost : Nat, rate : Nat]
DbType ==
    /\ balance \in [Wallets -> Int]
    /\ ledger \in [Wallets -> Seq(Entries)]
    /\ usage \in [CallIds -> UsageRows]
AuthType ==
    /\ revoked \subseteq Tokens
    /\ enabled \subseteq Users
    /\ members \in [Wallets -> SUBSET Users]
    /\ tools \in [Tools -> ToolRows]
    /\ role \in [Users -> Roles]
    /\ rate \in [Roles -> Nat]
    /\ frozen \in Users \cup {NoUser}
ProcType ==
    /\ job \in [Procs -> CallIds \cup {NoCall}]
    /\ want \in [Procs -> Tools]
    /\ verdict \in [Procs -> Settled]
    /\ batch \in [Replicas -> SUBSET CallIds]
    /\ writes \in Nat /\ faults \in Nat
PhaseType == pc \in [Procs -> Phases] /\ JobOK
TxType == tx \in [Procs -> TxRecords]

LEMMA TypeParts ==
    /\ TypeInv <=> DbType /\ AuthType /\ ProcType /\ PhaseType /\ TxType
    /\ TypeInv' <=> DbType' /\ AuthType' /\ ProcType' /\ PhaseType' /\ TxType'
BY DEF TypeInv, TypeOK, DbType, AuthType, ProcType, PhaseType, TxType, TxRecords

LEMMA MultiplierType ==
    \A cost, bp \in Nat : applyMultiplierBP(cost, bp) \in Nat
BY MultiplierRoundsUp

(* The blank row is typed: there is a tool, since every process wants one. *)
LEMMA RowTyped ==
    NoRow \in UsageRows /\ NoRow.tool \in Tools
BY MeteringAssumption DEF NoRow, UsageRows, Statuses

LEMMA EntryTyped ==
    ASSUME NEW kind \in Kinds, NEW call \in CallIds \cup {NoCall},
           NEW delta \in Int, NEW after \in Int
    PROVE  [kind |-> kind, call |-> call, delta |-> delta, after |-> after] \in Entries
BY DEF Entries

(* What a job tells about its process: token, wallet and user. *)
LEMMA JobTyped ==
    ASSUME NEW p \in Procs, job[p] \in CallIds
    PROVE  Tok(p) \in Tokens /\ Wal(p) \in Wallets /\ Usr(p) \in Users
BY MeteringAssumption DEF Tok, Wal, Usr, CallIds

LEMMA GotoTyped ==
    ASSUME NEW p \in Procs, NEW phase \in Phases, TypeInv, Goto(p, phase)
    PROVE  /\ pc' \in [Procs -> Phases]
           /\ pc'[p] = phase
           /\ \A q \in Procs : q # p => pc'[q] = pc[q]
BY DEF TypeInv, TypeOK, Goto

LEMMA PostTyped ==
    ASSUME TypeInv, NEW w \in Wallets, NEW kind \in Kinds,
           NEW call \in CallIds \cup {NoCall}, NEW delta \in Int, NEW after \in Int,
           Post(w, kind, call, delta, after)
    PROVE  ledger' \in [Wallets -> Seq(Entries)]
<1> DEFINE e == [kind |-> kind, call |-> call, delta |-> delta, after |-> after]
<1>1. e \in Entries
  BY EntryTyped
<1> HIDE DEF e
<1>2. Append(ledger[w], e) \in Seq(Entries)
  BY <1>1 DEF TypeInv, TypeOK
<1>3. ledger' = [ledger EXCEPT ![w] = Append(@, e)]
  BY DEF Post, e
<1> QED
  BY <1>2, <1>3 DEF TypeInv, TypeOK

LEMMA TypeInit == Init => TypeInv
<1> SUFFICES ASSUME Init PROVE TypeInv
  OBVIOUS
<1>1. balance \in [Wallets -> Int] /\ batch \in [Replicas -> SUBSET CallIds]
  BY MeteringAssumption DEF Init
<1>2. ledger \in [Wallets -> Seq(Entries)]
  <2> SUFFICES ASSUME NEW w \in Wallets, Grant[w] # 0
               PROVE  [kind |-> "registration", call |-> NoCall,
                       delta |-> Grant[w], after |-> Grant[w]] \in Entries
    BY DEF Init
  <2> QED
    BY MeteringAssumption, EntryTyped DEF Kinds
<1>3. usage \in [CallIds -> UsageRows] /\ want \in [Procs -> Tools]
  BY RowTyped DEF Init
<1>4. members \in [Wallets -> SUBSET Users]
  BY MeteringAssumption DEF Init
<1>5. pc \in [Procs -> Phases] /\ JobOK
  BY DEF Init, Phases, JobOK
<1>6. verdict \in [Procs -> Settled] /\ tx \in [Procs -> [read : Int, cost : Nat, rate : Nat]]
  BY DEF Init, Settled, NoTx
<1> QED
  BY <1>1, <1>2, <1>3, <1>4, <1>5, <1>6, MeteringAssumption DEF Init, TypeInv, TypeOK

(* A phase change keeps the phases typed when the job is known. *)
LEMMA PhaseStep ==
    ASSUME TypeInv, NEW p \in Procs, NEW phase \in Phases, Goto(p, phase),
           job' = job, phase \in {"idle", "done"} \/ job[p] \in CallIds
    PROVE  PhaseType'
BY DEF TypeInv, TypeOK, JobOK, PhaseType, Goto

LEMMA TxReset ==
    ASSUME TxType, NEW p \in Procs, tx' = [tx EXCEPT ![p] = NoTx]
    PROVE  TxType'
BY DEF TxType, TxRecords, NoTx

(* A reservation's caller steps keep the types. *)
LEMMA TypeCaller ==
    ASSUME TypeInv, NEW p \in Callers, CallerStep(p)
    PROVE  TypeInv'
<1>0. p \in Procs /\ DbType /\ AuthType /\ ProcType /\ PhaseType /\ TxType
  BY TypeParts DEF Procs
<1>j. pc[p] \notin {"idle", "done"} => job[p] \in CallIds
  BY <1>0 DEF PhaseType, JobOK
<1>1. CASE AuthToken(p)
  <2>1. PICK r \in Requests :
          /\ job' = [job EXCEPT ![p] = r.call]
          /\ want' = [want EXCEPT ![p] = r.tool]
          /\ Goto(p, IF Authorized(r.call[1]) THEN "admit" ELSE "done")
    BY <1>1 DEF AuthToken
  <2>2. r.call \in CallIds /\ r.tool \in Tools
    BY MeteringAssumption
  <2>3. ProcType'
    BY <1>0, <1>1, <2>1, <2>2 DEF AuthToken, ProcType
  <2>4. PhaseType'
    BY <1>0, <2>1, <2>2 DEF PhaseType, ProcType, JobOK, Goto, Phases
  <2>5. DbType' /\ AuthType' /\ TxType'
    BY <1>0, <1>1 DEF AuthToken, db, auth, DbType, AuthType, TxType
  <2> QED
    BY <2>3, <2>4, <2>5, TypeParts
<1>2. CASE Admit(p)
  <2>1. PhaseType'
    BY <1>0, <1>2, <1>j, PhaseStep DEF Admit, Phases
  <2> QED
    BY <1>0, <1>2, <2>1, TypeParts DEF Admit, db, auth, DbType, AuthType, ProcType, TxType
<1>3. CASE RecordDenied(p)
  <2>1. PhaseType'
    BY <1>0, <1>3, PhaseStep DEF RecordDenied, Phases
  <2>2. job[p] \in CallIds
    BY <1>3, <1>j DEF RecordDenied
  <2>3. rate[role[Usr(p)]] \in Nat /\ want[p] \in Tools
    BY <1>0, <2>2, JobTyped DEF AuthType, ProcType
  <2>4. usage' \in [CallIds -> UsageRows]
    BY <1>0, <1>3, <2>2, <2>3, RowTyped DEF RecordDenied, DbType, UsageRows, Statuses
  <2> QED
    BY <1>0, <1>3, <2>1, <2>4, TypeParts DEF RecordDenied, auth, DbType, AuthType, ProcType, TxType
<1>4. CASE LockWallet(p)
  <2>1. PhaseType'
    BY <1>0, <1>4, <1>j, PhaseStep DEF LockWallet, Phases
  <2>2. balance[Wal(p)] \in Int
    BY <1>0, <1>4, <1>j, JobTyped DEF LockWallet, DbType
  <2>3. TxType'
    BY <1>0, <1>4, <2>2 DEF LockWallet, TxType, TxRecords, NoTx
  <2> QED
    BY <1>0, <1>4, <2>1, <2>3, TypeParts DEF LockWallet, db, auth, DbType, AuthType, ProcType
<1>5. CASE ReadTool(p)
  <2>1. PhaseType'
    BY <1>0, <1>5, <1>j, PhaseStep DEF ReadTool, Phases
  <2>2. tools[want[p]].cost \in Nat
    BY <1>0 DEF AuthType, ProcType, ToolRows
  <2>3. TxType'
    BY <1>0, <1>5, <2>2 DEF ReadTool, TxType, TxRecords, NoTx
  <2> QED
    BY <1>0, <1>5, <2>1, <2>3, TypeParts DEF ReadTool, db, auth, DbType, AuthType, ProcType
<1>6. CASE Authorize(p)
  <2> DEFINE bp == rate[role[Usr(p)]]
  <2>1. job[p] \in CallIds /\ bp \in Nat
    BY <1>0, <1>6, <1>j, JobTyped DEF Authorize, AuthType
  <2>2. applyMultiplierBP(tx[p].cost, bp) \in Nat
    BY <1>0, <2>1, MultiplierType DEF TxType, TxRecords
  <2>3. PhaseType'
    BY <1>0, <1>6, <2>1, PhaseStep DEF Authorize, Phases
  <2>4. TxType'
    <3>1. tx' = [tx EXCEPT ![p] =
                   IF pc'[p] = "insert"
                   THEN [tx[p] EXCEPT !.cost = applyMultiplierBP(tx[p].cost, bp), !.rate = bp]
                   ELSE NoTx]
      BY <1>0, <1>6 DEF Authorize, TxType
    <3>2. [tx[p] EXCEPT !.cost = applyMultiplierBP(tx[p].cost, bp), !.rate = bp] \in TxRecords
      BY <1>0, <2>1, <2>2 DEF TxType, TxRecords
    <3>3. NoTx \in TxRecords
      BY DEF NoTx, TxRecords
    <3> QED
      BY <1>0, <3>1, <3>2, <3>3 DEF TxType
  <2>5. ProcType'
    BY <1>0, <1>6 DEF Authorize, ProcType, Settled
  <2> QED
    BY <1>0, <1>6, <2>3, <2>4, <2>5, TypeParts DEF Authorize, db, auth, DbType, AuthType
<1>7. CASE Insert(p)
  <2>1. PhaseType'
    BY <1>0, <1>7, <1>j, PhaseStep DEF Insert, Phases
  <2>2. TxType'
    BY <1>0, <1>7, TxReset DEF Insert, TxType
  <2> QED
    BY <1>0, <1>7, <2>1, <2>2, TypeParts DEF Insert, db, auth, DbType, AuthType, ProcType
<1>8. CASE Recheck(p)
  <2>1. PhaseType'
    BY <1>0, <1>8, <1>j, PhaseStep DEF Recheck, Phases
  <2>2. TxType'
    BY <1>0, <1>8, TxReset DEF Recheck, TxType
  <2> QED
    BY <1>0, <1>8, <2>1, <2>2, TypeParts DEF Recheck, db, auth, DbType, AuthType, ProcType
<1>9. CASE CommitReservation(p)
  <2>1. job[p] \in CallIds /\ Wal(p) \in Wallets /\ want[p] \in Tools
    BY <1>0, <1>9, <1>j, JobTyped DEF CommitReservation, ProcType
  <2>2. tx[p] \in TxRecords
    BY <1>0 DEF TxType
  <2>3. PhaseType'
    BY <1>0, <1>9, <2>1, PhaseStep DEF CommitReservation, Phases
  <2>4. usage' \in [CallIds -> UsageRows]
    BY <1>0, <1>9, <2>1, <2>2, RowTyped
    DEF CommitReservation, DbType, UsageRows, Statuses, TxRecords
  <2>5. ledger' \in [Wallets -> Seq(Entries)]
    <3>1. CASE ~Covers(tx[p].read, tx[p].cost)
      BY <1>0, <1>9, <3>1 DEF CommitReservation, DbType
    <3>2. CASE Covers(tx[p].read, tx[p].cost)
      <4>1. Post(Wal(p), "reservation", job[p], 0 - tx[p].cost, tx[p].read - tx[p].cost)
        BY <1>9, <3>2 DEF CommitReservation
      <4>2. 0 - tx[p].cost \in Int /\ tx[p].read - tx[p].cost \in Int /\ "reservation" \in Kinds
        BY <2>2 DEF TxRecords, Kinds
      <4> QED
        BY <2>1, <4>1, <4>2, PostTyped
    <3> QED
      BY <3>1, <3>2
  <2>6. balance' \in [Wallets -> Int]
    BY <1>0, <1>9, <2>1, <2>2 DEF CommitReservation, DbType, TxRecords
  <2>7. TxType' /\ ProcType'
    BY <1>0, <1>9, TxReset DEF CommitReservation, ProcType, Settled
  <2> QED
    BY <1>0, <1>9, <2>3, <2>4, <2>5, <2>6, <2>7, TypeParts
    DEF CommitReservation, auth, DbType, AuthType
<1>10. CASE Execute(p)
  <2>1. PhaseType'
    BY <1>0, <1>10, <1>j, PhaseStep DEF Execute, Phases
  <2>2. ProcType'
    BY <1>0, <1>10 DEF Execute, ProcType, Settled
  <2> QED
    BY <1>0, <1>10, <2>1, <2>2, TypeParts DEF Execute, db, auth, DbType, AuthType, TxType
<1> QED
  BY <1>1, <1>2, <1>3, <1>4, <1>5, <1>6, <1>7, <1>8, <1>9, <1>10 DEF CallerStep

(* Settling a call, by its caller or by recovery, keeps the types. *)
LEMMA TypeFinish ==
    ASSUME TypeInv, NEW p \in Procs, FinishStep(p)
    PROVE  TypeInv'
<1>0. DbType /\ AuthType /\ ProcType /\ PhaseType /\ TxType
  BY TypeParts
<1>j. /\ pc[p] \in {"finish", "settle", "post", "close"}
      /\ job[p] \in CallIds /\ Wal(p) \in Wallets
      /\ usage[job[p]] \in UsageRows
      /\ balance[Wal(p)] \in Int /\ tx[p] \in TxRecords
  <2>1. pc[p] \in {"finish", "settle", "post", "close"}
    BY DEF FinishStep, LockCall, CreditWallet, PostCredit, CloseCall
  <2> QED
    BY <1>0, <2>1, JobTyped DEF PhaseType, JobOK, DbType, TxType
<1>1. CASE LockCall(p)
  <2>1. usage' \in [CallIds -> UsageRows]
    <3>1. [usage[job[p]] EXCEPT !.audited = TRUE] \in UsageRows
      BY <1>j DEF UsageRows
    <3>2. \/ usage' = usage
          \/ usage' = [usage EXCEPT ![job[p]] = [usage[job[p]] EXCEPT !.audited = TRUE]]
      BY <1>1 DEF LockCall
    <3> QED
      BY <1>0, <3>1, <3>2 DEF DbType
  <2>2. ProcType'
    BY <1>0, <1>1 DEF LockCall, ProcType
  <2>3. PhaseType'
    BY <1>0, <1>1, <1>j DEF LockCall, Rest, Goto, PhaseType, ProcType, JobOK, Phases
  <2> QED
    BY <1>0, <1>1, <2>1, <2>2, <2>3, TypeParts
    DEF LockCall, auth, DbType, AuthType, TxType
<1>2. CASE CreditWallet(p)
  <2>1. PhaseType'
    BY <1>0, <1>2, <1>j, PhaseStep DEF CreditWallet, Phases
  <2>2. TxType'
    <3>1. balance[Wal(p)] + usage[job[p]].requested \in Int
      BY <1>j DEF UsageRows
    <3> QED
      BY <1>0, <1>2, <3>1 DEF CreditWallet, TxType, TxRecords, NoTx
  <2> QED
    BY <1>0, <1>2, <2>1, <2>2, TypeParts DEF CreditWallet, db, auth, DbType, AuthType, ProcType
<1>3. CASE PostCredit(p)
  <2>1. PhaseType'
    BY <1>0, <1>3, <1>j, PhaseStep DEF PostCredit, Phases
  <2> QED
    BY <1>0, <1>3, <2>1, TypeParts DEF PostCredit, db, auth, DbType, AuthType, ProcType, TxType
<1>4. CASE CloseCall(p)
  <2>1. verdict[p] \in Settled
    BY <1>0 DEF ProcType
  <2>2. usage' \in [CallIds -> UsageRows]
    <3>1. [usage[job[p]] EXCEPT
             !.status = verdict[p],
             !.cost = IF verdict[p] = "ok" THEN usage[job[p]].requested ELSE 0,
             !.audited = @ \/ p \in Callers] \in UsageRows
      <4>1. (usage[job[p]].audited \/ p \in Callers) \in BOOLEAN
        OBVIOUS
      <4> QED
        BY <1>j, <2>1, <4>1 DEF UsageRows, Settled, Statuses
    <3> QED
      BY <1>0, <1>4, <3>1 DEF CloseCall, DbType
  <2>3. ledger' \in [Wallets -> Seq(Entries)]
    <3>1. CASE verdict[p] = "ok"
      BY <1>0, <1>4, <3>1 DEF CloseCall, DbType
    <3>2. CASE verdict[p] # "ok"
      <4> DEFINE kind == IF verdict[p] = "error" THEN "refund" ELSE "recovery"
      <4>1. Post(Wal(p), kind, job[p], usage[job[p]].requested, tx[p].read)
        BY <1>4, <3>2 DEF CloseCall
      <4>2. kind \in Kinds /\ usage[job[p]].requested \in Int /\ tx[p].read \in Int
        BY <1>j DEF Kinds, UsageRows, TxRecords
      <4> QED
        BY <1>j, <4>1, <4>2, PostTyped
    <3> QED
      BY <3>1, <3>2
  <2>4. balance' \in [Wallets -> Int]
    BY <1>0, <1>4, <1>j DEF CloseCall, DbType, UsageRows
  <2>5. TxType' /\ ProcType'
    BY <1>0, <1>4, TxReset DEF CloseCall, ProcType
  <2>6. PhaseType'
    BY <1>0, <1>4, <1>j DEF CloseCall, Rest, Goto, PhaseType, ProcType, JobOK, Phases
  <2> QED
    BY <1>0, <1>4, <2>2, <2>3, <2>4, <2>5, <2>6, TypeParts
    DEF CloseCall, auth, DbType, AuthType
<1> QED
  BY <1>1, <1>2, <1>3, <1>4 DEF FinishStep

(* Recovery, the passing of time and failures keep the types. *)
LEMMA TypeRecovery ==
    ASSUME TypeInv,
           \/ \E r \in Replicas : RecoveryStep(r)
           \/ \E c \in CallIds : Expire(c)
           \/ \E p \in Procs : Fail(p)
    PROVE  TypeInv'
<1>0. DbType /\ AuthType /\ ProcType /\ PhaseType /\ TxType
  BY TypeParts
<1>1. ASSUME NEW r \in Replicas, Scan(r) PROVE TypeInv'
  <2>1. ProcType'
    BY <1>0, <1>1 DEF Scan, ProcType
  <2> QED
    BY <1>0, <1>1, <2>1, TypeParts DEF Scan, db, auth, DbType, AuthType, PhaseType, JobOK, TxType
<1>2. ASSUME NEW r \in Replicas, Recover(r) PROVE TypeInv'
  <2>1. PICK c \in batch[r] : /\ job' = [job EXCEPT ![r] = c]
                              /\ batch' = [batch EXCEPT ![r] = @ \ {c}]
    BY <1>2 DEF Recover
  <2>2. c \in CallIds /\ r \in Procs
    BY <1>0 DEF ProcType, Procs
  <2>3. ProcType'
    BY <1>0, <1>2, <2>1, <2>2 DEF Recover, ProcType, Settled
  <2>4. PhaseType'
    BY <1>0, <1>2, <2>1, <2>2 DEF Recover, Goto, ProcType, PhaseType, JobOK, Phases
  <2> QED
    BY <1>0, <1>2, <2>3, <2>4, TypeParts DEF Recover, db, auth, DbType, AuthType, TxType
<1>3. ASSUME NEW c \in CallIds, Expire(c) PROVE TypeInv'
  <2>1. DbType'
    BY <1>0, <1>3 DEF Expire, DbType, UsageRows
  <2> QED
    BY <1>0, <1>3, <2>1, TypeParts DEF Expire, auth, AuthType, ProcType, PhaseType, JobOK, TxType
<1>4. ASSUME NEW p \in Procs, Fail(p) PROVE TypeInv'
  <2>1. ProcType'
    BY <1>0, <1>4 DEF Fail, ProcType, Procs
  <2>2. PhaseType'
    BY <1>0, <1>4 DEF Fail, Rest, Goto, ProcType, PhaseType, JobOK, Phases, Procs
  <2> QED
    BY <1>0, <1>4, <2>1, <2>2, TxReset, TypeParts DEF Fail, db, auth, DbType, AuthType
<1> QED
  BY <1>1, <1>2, <1>3, <1>4 DEF RecoveryStep

(* Account and admin writes keep the types. *)
LEMMA TypeAdmin ==
    ASSUME TypeInv, AdminStep \/ CommitUser
    PROVE  TypeInv'
<1>0. DbType /\ AuthType /\ ProcType /\ PhaseType /\ TxType
  BY TypeParts
<1>a. ASSUME AdminWrite PROVE ProcType' /\ PhaseType' /\ TxType'
  BY <1>0, <1>a DEF AdminWrite, ProcType, PhaseType, JobOK, TxType
<1>1. ASSUME NEW t \in Tokens, RevokeToken(t) PROVE TypeInv'
  BY <1>0, <1>1, <1>a, TypeParts DEF RevokeToken, AdminWrite, DbType, AuthType
<1>2. ASSUME NEW w \in Wallets, NEW u \in Users, RemoveMember(w, u) PROVE TypeInv'
  BY <1>0, <1>2, <1>a, TypeParts DEF RemoveMember, AdminWrite, DbType, AuthType
<1>3. ASSUME NEW u \in Users, LockUser(u) PROVE TypeInv'
  BY <1>0, <1>3, <1>a, TypeParts DEF LockUser, AdminWrite, DbType, AuthType
<1>4. ASSUME NEW t \in Tools, SaveTool(t) PROVE TypeInv'
  <2>1. tools' \in [Tools -> ToolRows]
    <3>1. /\ [tools[t] EXCEPT !.enabled = ~@] \in ToolRows
          /\ \A n \in Prices : [tools[t] EXCEPT !.cost = n] \in ToolRows
          /\ \A s \in SUBSET Roles : [tools[t] EXCEPT !.roles = s] \in ToolRows
      <4>1. tools[t] \in ToolRows /\ (~tools[t].enabled) \in BOOLEAN
        BY <1>0 DEF AuthType
      <4> QED
        BY <4>1, MeteringAssumption DEF ToolRows
    <3>2. \/ tools' = [tools EXCEPT ![t] = [tools[t] EXCEPT !.enabled = ~@]]
          \/ \E n \in Prices : tools' = [tools EXCEPT ![t] = [tools[t] EXCEPT !.cost = n]]
          \/ \E s \in SUBSET Roles :
                tools' = [tools EXCEPT ![t] = [tools[t] EXCEPT !.roles = s]]
      BY <1>4 DEF SaveTool
    <3> QED
      BY <1>0, <3>1, <3>2 DEF AuthType
  <2> QED
    BY <1>0, <1>4, <1>a, <2>1, TypeParts DEF SaveTool, AdminWrite, DbType, AuthType
<1>5. ASSUME NEW r \in Roles, UpdateBillingRole(r) PROVE TypeInv'
  <2>1. rate' \in [Roles -> Nat]
    BY <1>0, <1>5, MeteringAssumption DEF UpdateBillingRole, AuthType
  <2> QED
    BY <1>0, <1>5, <1>a, <2>1, TypeParts DEF UpdateBillingRole, AdminWrite, DbType, AuthType
<1>6. ASSUME NEW w \in Wallets, NEW d \in Adjustments, AdjustBalance(w, d) PROVE TypeInv'
  <2>1. d \in Int /\ balance[w] + d \in Int /\ "adjustment" \in Kinds
    BY <1>0, MeteringAssumption DEF DbType, Kinds
  <2>2. ledger' \in [Wallets -> Seq(Entries)]
    BY <1>6, <2>1, PostTyped DEF AdjustBalance
  <2>3. balance' \in [Wallets -> Int]
    BY <1>0, <1>6, <2>1 DEF AdjustBalance, DbType
  <2> QED
    BY <1>0, <1>6, <1>a, <2>2, <2>3, TypeParts DEF AdjustBalance, AdminWrite, auth, DbType, AuthType
<1>7. ASSUME CommitUser PROVE TypeInv'
  <2>1. AuthType'
    BY <1>0, <1>7 DEF CommitUser, AuthType
  <2> QED
    BY <1>0, <1>7, <2>1, TypeParts DEF CommitUser, db, DbType, ProcType, PhaseType, JobOK, TxType
<1> QED
  BY <1>1, <1>2, <1>3, <1>4, <1>5, <1>6, <1>7 DEF AdminStep

LEMMA TypeStep == TypeInv /\ [Next]_vars => TypeInv'
<1> SUFFICES ASSUME TypeInv, [Next]_vars PROVE TypeInv'
  OBVIOUS
<1>1. CASE UNCHANGED vars
  BY <1>1 DEF TypeInv, TypeOK, JobOK, vars
<1>2. CASE Quiet
  BY <1>1, <1>2 DEF Quiet
<1> QED
  BY <1>1, <1>2, TypeCaller, TypeFinish, TypeRecovery, TypeAdmin DEF Next

(* The type invariant of Metering: balances are whole numbers, prices and  *)
(* costs are never negative, every status and phase is one of the named,   *)
(* and whoever is in the middle of a call or a recovery works on a row     *)
(* that can exist.                                                         *)
THEOREM TypeCorrect == Spec => []TypeOK
<1>1. TypeInv => TypeOK
  BY DEF TypeInv
<1> QED
  BY <1>1, TypeInit, TypeStep, PTL DEF Spec

-----------------------------------------------------------------------------
\* Steps of one process

(* A step of p leaves the other processes where they are. *)
Frame(p) ==
    \A q \in Procs : q # p =>
        pc'[q] = pc[q] /\ job'[q] = job[q] /\ verdict'[q] = verdict[q] /\ tx'[q] = tx[q]

(* What a step of p may do to the rows that locks protect. *)
WalletsKept(p) ==
    \A w \in Wallets : balance'[w] # balance[w] => HoldsWallet(p, w) \/ WalletFree(w)
RowsKept(p) ==
    \A c \in CallIds :
        /\ usage'[c].requested # usage[c].requested => usage[c].status = "none"
        /\ usage'[c].status # usage[c].status =>
             \A q \in Procs : q # p => ~HoldsCall(q, c) /\ ~InsertedCall(q, c)

(* What p itself holds and knows after its step. *)
OwnLocks(p) ==
    /\ \A w \in Wallets : HoldsWallet(p, w)' => HoldsWallet(p, w) \/ WalletFree(w)
    /\ \A c \in CallIds : HoldsCall(p, c)' => HoldsCall(p, c) \/ CallFree(c)
OwnReads(p) ==
    /\ Reserving(p)' => tx'[p].read = balance'[Wal(p)']
    /\ Crediting(p)' => tx'[p].read = balance'[Wal(p)'] + usage'[job'[p]].requested
OwnRows(p) ==
    \A c \in CallIds :
        /\ HoldsCall(p, c)' => usage'[c].status = "pending"
        /\ InsertedCall(p, c)' => usage'[c].status = "none"

(* Whoever reserves or credits holds its wallet, and whoever credits holds *)
(* its call.                                                               *)
LEMMA WorkersHold ==
    ASSUME TypeInv, NEW p \in Procs, Reserving(p) \/ Crediting(p)
    PROVE  /\ job[p] \in CallIds /\ Wal(p) \in Wallets
           /\ HoldsWallet(p, Wal(p))
           /\ Crediting(p) => HoldsCall(p, job[p])
<1>1. pc[p] \notin {"idle", "done"}
  BY DEF Reserving, Crediting
<1> QED
  BY <1>1, JobTyped DEF TypeInv, JobOK, Reserving, Crediting, HoldsWallet, HoldsCall

LEMMA FrameKeepsLocks ==
    ASSUME TypeInv, LockDiscipline, NEW p \in Procs,
           Frame(p), WalletsKept(p), RowsKept(p), OwnLocks(p), OwnReads(p), OwnRows(p)
    PROVE  LockDiscipline'
<1>1. \A q \in Procs : q # p =>
        /\ \A w \in Wallets : HoldsWallet(q, w)' <=> HoldsWallet(q, w)
        /\ \A c \in CallIds : HoldsCall(q, c)' <=> HoldsCall(q, c)
        /\ \A c \in CallIds : InsertedCall(q, c)' <=> InsertedCall(q, c)
        /\ Reserving(q)' <=> Reserving(q)
        /\ Crediting(q)' <=> Crediting(q)
        /\ Wal(q)' = Wal(q)
  BY DEF Frame, HoldsWallet, HoldsCall, InsertedCall, Reserving, Crediting, Wal, Tok
<1>2. WalletExclusive'
  BY <1>1 DEF LockDiscipline, WalletExclusive, OwnLocks, WalletFree
<1>3. CallExclusive'
  BY <1>1 DEF LockDiscipline, CallExclusive, OwnLocks, CallFree
<1>4. RowsHeld'
  BY <1>1 DEF LockDiscipline, RowsHeld, RowsKept, OwnRows
<1>5. ReadsCurrent'
  <2> SUFFICES ASSUME NEW q \in Procs, q # p
               PROVE  /\ Reserving(q) => tx[q].read = balance'[Wal(q)]
                      /\ Crediting(q) => tx[q].read = balance'[Wal(q)] + usage'[job[q]].requested
    BY <1>1 DEF ReadsCurrent, OwnReads, Frame
  <2>1. Reserving(q) \/ Crediting(q) => balance'[Wal(q)] = balance[Wal(q)]
    BY WorkersHold DEF WalletsKept, WalletFree, LockDiscipline, WalletExclusive
  <2>2. Crediting(q) => usage'[job[q]].requested = usage[job[q]].requested
    <3> HAVE Crediting(q)
    <3>1. job[q] \in CallIds /\ HoldsCall(q, job[q])
      BY WorkersHold
    <3>2. usage[job[q]].status = "pending"
      BY <3>1 DEF LockDiscipline, RowsHeld
    <3> QED
      BY <3>1, <3>2 DEF RowsKept
  <2> QED
    BY <2>1, <2>2 DEF LockDiscipline, ReadsCurrent
<1> QED
  BY <1>2, <1>3, <1>4, <1>5 DEF LockDiscipline

-----------------------------------------------------------------------------
\* The locks are respected

LEMMA LocksInit == Init => LockDiscipline
BY DEF Init, LockDiscipline, WalletExclusive, CallExclusive, ReadsCurrent, RowsHeld,
       HoldsWallet, HoldsCall, InsertedCall, Reserving, Crediting

(* A step of p that moves only p is a frame for the others. *)
LEMMA FrameOf ==
    ASSUME TypeInv, NEW p \in Procs, NEW phase, Goto(p, phase),
           job' = job \/ \E j : job' = [job EXCEPT ![p] = j],
           verdict' = verdict \/ \E v : verdict' = [verdict EXCEPT ![p] = v],
           tx' = tx \/ \E t : tx' = [tx EXCEPT ![p] = t]
    PROVE  Frame(p) /\ pc'[p] = phase
BY DEF Frame, Goto, TypeInv, TypeOK

(* Steps that touch no protected row: only what p holds and has read. *)
LEMMA LocalStep ==
    ASSUME TypeInv, LockDiscipline, NEW p \in Procs, Frame(p),
           UNCHANGED <<balance, usage>>, OwnLocks(p), OwnReads(p), OwnRows(p)
    PROVE  LockDiscipline'
BY FrameKeepsLocks DEF WalletsKept, RowsKept

(* A step after which p is in no transaction. *)
LEMMA ReleasedStep ==
    ASSUME TypeInv, LockDiscipline, NEW p \in Procs, Frame(p),
           WalletsKept(p), RowsKept(p),
           pc'[p] \in {"idle", "admit", "refuse", "reserve", "execute", "finish", "done"}
    PROVE  LockDiscipline'
<1>1. OwnLocks(p) /\ OwnReads(p) /\ OwnRows(p)
  BY DEF OwnLocks, OwnReads, OwnRows, HoldsWallet, HoldsCall, InsertedCall, Reserving, Crediting
<1> QED
  BY <1>1, FrameKeepsLocks

LEMMA LocksCaller ==
    ASSUME TypeInv, LockDiscipline, NEW p \in Callers, CallerStep(p)
    PROVE  LockDiscipline'
<1>0. p \in Procs
  BY DEF Procs
<1>1. CASE AuthToken(p)
  <2>1. PICK r \in Requests :
          /\ job' = [job EXCEPT ![p] = r.call]
          /\ Goto(p, IF Authorized(r.call[1]) THEN "admit" ELSE "done")
    BY <1>1 DEF AuthToken
  <2>2. Frame(p) /\ pc'[p] \in {"admit", "done"}
    BY <1>0, <1>1, <2>1, FrameOf DEF AuthToken
  <2> QED
    BY <1>0, <1>1, <2>2, ReleasedStep DEF AuthToken, db, WalletsKept, RowsKept
<1>2. CASE Admit(p)
  <2>1. Frame(p) /\ pc'[p] \in {"reserve", "refuse"}
    BY <1>0, <1>2, FrameOf DEF Admit
  <2> QED
    BY <1>0, <1>2, <2>1, ReleasedStep DEF Admit, db, WalletsKept, RowsKept
<1>3. CASE RecordDenied(p)
  <2>1. Frame(p) /\ pc'[p] = "done"
    BY <1>0, <1>3, FrameOf DEF RecordDenied
  <2>2. job[p] \in CallIds
    BY <1>0, <1>3 DEF RecordDenied, TypeInv, JobOK
  <2>3. RowsKept(p)
    <3> SUFFICES ASSUME NEW c \in CallIds, usage'[c] # usage[c]
                 PROVE  /\ usage[c].status = "none"
                        /\ \A q \in Procs : ~HoldsCall(q, c) /\ ~InsertedCall(q, c)
      BY DEF RowsKept
    <3>1. c = job[p] /\ usage[c].status = "none"
      BY <1>3, <2>2 DEF RecordDenied, TypeInv, TypeOK
    <3> QED
      BY <1>3, <3>1 DEF RecordDenied, LockDiscipline, RowsHeld
  <2> QED
    BY <1>0, <1>3, <2>1, <2>3, ReleasedStep DEF RecordDenied, WalletsKept
<1>4. CASE LockWallet(p)
  <2>1. Frame(p) /\ pc'[p] = "price"
    BY <1>0, <1>4, FrameOf DEF LockWallet
  <2>2. Wal(p)' = Wal(p) /\ tx'[p].read = balance[Wal(p)]
    BY <1>0, <1>4 DEF LockWallet, Wal, Tok, NoTx, TypeInv, TypeOK
  <2>3. OwnLocks(p) /\ OwnReads(p) /\ OwnRows(p)
    BY <1>4, <2>1, <2>2 DEF LockWallet, OwnLocks, OwnReads, OwnRows, HoldsWallet, HoldsCall,
       InsertedCall, Reserving, Crediting, db
  <2> QED
    BY <1>0, <1>4, <2>1, <2>3, LocalStep DEF LockWallet, db
<1>5. CASE ReadTool(p)
  <2>1. Frame(p) /\ pc'[p] \in {"authorize", "refuse"}
    BY <1>0, <1>5, FrameOf DEF ReadTool
  <2>2. Wal(p)' = Wal(p) /\ (pc'[p] = "authorize" => tx'[p].read = tx[p].read)
    BY <1>0, <1>5, <2>1 DEF ReadTool, Goto, Wal, Tok, TypeInv, TypeOK
  <2>3. OwnLocks(p) /\ OwnReads(p) /\ OwnRows(p)
    BY <1>0, <1>5, <2>1, <2>2 DEF ReadTool, OwnLocks, OwnReads, OwnRows, HoldsWallet, HoldsCall,
       InsertedCall, Reserving, Crediting, db, LockDiscipline, ReadsCurrent
  <2> QED
    BY <1>0, <1>5, <2>1, <2>3, LocalStep DEF ReadTool, db
<1>6. CASE Authorize(p)
  <2>1. Frame(p) /\ pc'[p] \in {"done", "refuse", "insert", "finish", "execute"}
    BY <1>0, <1>6, FrameOf DEF Authorize
  <2>2. Wal(p)' = Wal(p) /\ (pc'[p] = "insert" => tx'[p].read = tx[p].read)
    BY <1>0, <1>6 DEF Authorize, Wal, Tok, TypeInv, TypeOK
  <2>3. OwnLocks(p) /\ OwnReads(p) /\ OwnRows(p)
    BY <1>0, <1>6, <2>1, <2>2 DEF Authorize, OwnLocks, OwnReads, OwnRows, HoldsWallet, HoldsCall,
       InsertedCall, Reserving, Crediting, db, LockDiscipline, ReadsCurrent
  <2> QED
    BY <1>0, <1>6, <2>1, <2>3, LocalStep DEF Authorize, db
<1>7. CASE Insert(p)
  <2>1. Frame(p) /\ pc'[p] \in {"recheck", "done"}
    BY <1>0, <1>7, FrameOf DEF Insert
  <2>2. /\ Wal(p)' = Wal(p) /\ job'[p] = job[p]
        /\ pc'[p] = "recheck" => tx'[p].read = tx[p].read /\ usage[job[p]].status = "none"
    BY <1>0, <1>7, <2>1 DEF Insert, Goto, Wal, Tok, TypeInv, TypeOK
  <2>3. OwnLocks(p) /\ OwnReads(p) /\ OwnRows(p)
    BY <1>0, <1>7, <2>1, <2>2 DEF Insert, OwnLocks, OwnReads, OwnRows, HoldsWallet, HoldsCall,
       InsertedCall, Reserving, Crediting, db, LockDiscipline, ReadsCurrent
  <2> QED
    BY <1>0, <1>7, <2>1, <2>3, LocalStep DEF Insert, db
<1>8. CASE Recheck(p)
  <2>1. Frame(p) /\ pc'[p] \in {"commit", "done"}
    BY <1>0, <1>8, FrameOf DEF Recheck
  <2>2. /\ Wal(p)' = Wal(p) /\ job'[p] = job[p]
        /\ pc'[p] = "commit" => tx'[p].read = tx[p].read
    BY <1>0, <1>8, <2>1 DEF Recheck, Goto, Wal, Tok, TypeInv, TypeOK
  <2>3. OwnLocks(p) /\ OwnReads(p) /\ OwnRows(p)
    BY <1>0, <1>8, <2>1, <2>2 DEF Recheck, OwnLocks, OwnReads, OwnRows, HoldsWallet, HoldsCall,
       InsertedCall, Reserving, Crediting, db, LockDiscipline, ReadsCurrent, RowsHeld
  <2> QED
    BY <1>0, <1>8, <2>1, <2>3, LocalStep DEF Recheck, db
<1>9. CASE CommitReservation(p)
  <2>1. Frame(p) /\ pc'[p] \in {"execute", "finish"}
    BY <1>0, <1>9, FrameOf DEF CommitReservation
  <2>2. job[p] \in CallIds /\ HoldsWallet(p, Wal(p)) /\ usage[job[p]].status = "none"
    BY <1>0, <1>9, WorkersHold
    DEF CommitReservation, Reserving, InsertedCall, LockDiscipline, RowsHeld
  <2>3. WalletsKept(p)
    BY <1>9, <2>2 DEF CommitReservation, WalletsKept, TypeInv, TypeOK
  <2>4. \A q \in Procs : q # p => ~InsertedCall(q, job[p])
    <3> SUFFICES ASSUME NEW q \in Procs, InsertedCall(q, job[p]) PROVE q = p
      OBVIOUS
    <3>1. HoldsWallet(q, Wal(p)) /\ Wal(p) \in Wallets
      BY <1>0, <2>2, JobTyped DEF InsertedCall, HoldsWallet, Wal, Tok
    <3> QED
      BY <1>0, <2>2, <3>1 DEF LockDiscipline, WalletExclusive
  <2>5. RowsKept(p)
    <3> SUFFICES ASSUME NEW c \in CallIds, usage'[c] # usage[c]
                 PROVE  /\ usage[c].status = "none"
                        /\ \A q \in Procs : q # p => ~HoldsCall(q, c) /\ ~InsertedCall(q, c)
      BY DEF RowsKept
    <3>1. c = job[p]
      BY <1>9, <2>2 DEF CommitReservation, TypeInv, TypeOK
    <3> QED
      BY <2>2, <2>4, <3>1 DEF LockDiscipline, RowsHeld
  <2> QED
    BY <1>0, <2>1, <2>3, <2>5, ReleasedStep
<1>10. CASE Execute(p)
  <2>1. Frame(p) /\ pc'[p] = "finish"
    BY <1>0, <1>10, FrameOf DEF Execute
  <2> QED
    BY <1>0, <1>10, <2>1, ReleasedStep DEF Execute, db, WalletsKept, RowsKept
<1> QED
  BY <1>1, <1>2, <1>3, <1>4, <1>5, <1>6, <1>7, <1>8, <1>9, <1>10 DEF CallerStep

LEMMA LocksFinish ==
    ASSUME TypeInv, LockDiscipline, NEW p \in Procs, FinishStep(p)
    PROVE  LockDiscipline'
<1>0. /\ job[p] \in CallIds /\ Wal(p) \in Wallets
      /\ usage[job[p]] \in UsageRows
  <2>1. pc[p] \notin {"idle", "done"}
    BY DEF FinishStep, LockCall, CreditWallet, PostCredit, CloseCall
  <2> QED
    BY <2>1, JobTyped DEF TypeInv, TypeOK, JobOK
<1>1. CASE LockCall(p)
  <2>1. CASE Open(usage[job[p]].status)
    <3>1. Frame(p) /\ pc'[p] \in {"close", "settle"} /\ (pc'[p] = "close" => verdict[p] = "ok")
      BY <1>1, <2>1, FrameOf DEF LockCall
    <3>2. UNCHANGED <<balance, usage, job, verdict>>
      BY <1>1, <2>1 DEF LockCall
    <3>3. OwnLocks(p) /\ OwnReads(p) /\ OwnRows(p)
      BY <1>1, <2>1, <3>1, <3>2 DEF LockCall, Open, OwnLocks, OwnReads, OwnRows, HoldsWallet,
         HoldsCall, InsertedCall, Reserving, Crediting
    <3> QED
      BY <3>1, <3>2, <3>3, LocalStep
  <2>2. CASE ~Open(usage[job[p]].status)
    <3>1. Frame(p) /\ pc'[p] \in {"idle", "done"}
      BY <1>1, <2>2, FrameOf DEF LockCall, Rest
    <3>2. \/ usage' = usage
          \/ usage' = [usage EXCEPT ![job[p]].audited = TRUE]
      BY <1>1, <2>2 DEF LockCall
    <3>3. usage \in [CallIds -> UsageRows]
      BY DEF TypeInv, TypeOK
    <3>4. \A c \in CallIds : /\ usage'[c].status = usage[c].status
                             /\ usage'[c].requested = usage[c].requested
      BY <1>0, <3>2, <3>3 DEF UsageRows
    <3>5. balance' = balance
      BY <1>1 DEF LockCall
    <3>6. WalletsKept(p) /\ RowsKept(p)
      BY <3>4, <3>5 DEF WalletsKept, RowsKept
    <3> QED
      BY <3>1, <3>6, ReleasedStep
  <2> QED
    BY <2>1, <2>2
<1>2. CASE CreditWallet(p)
  <2>1. Frame(p) /\ pc'[p] = "post"
    BY <1>2, FrameOf DEF CreditWallet
  <2>2. /\ Wal(p)' = Wal(p)
        /\ tx'[p].read = balance[Wal(p)] + usage[job[p]].requested
    BY <1>2 DEF CreditWallet, Wal, Tok, NoTx, TypeInv, TypeOK
  <2>3. OwnLocks(p) /\ OwnReads(p) /\ OwnRows(p)
    BY <1>2, <2>1, <2>2 DEF CreditWallet, OwnLocks, OwnReads, OwnRows, HoldsWallet, HoldsCall,
       InsertedCall, Reserving, Crediting, db, LockDiscipline, RowsHeld
  <2> QED
    BY <1>2, <2>1, <2>3, LocalStep DEF CreditWallet, db
<1>3. CASE PostCredit(p)
  <2>1. Frame(p) /\ pc'[p] = "close"
    BY <1>3, FrameOf DEF PostCredit
  <2>2. Wal(p)' = Wal(p)
    BY <1>3 DEF PostCredit, Wal, Tok
  <2>3. OwnLocks(p) /\ OwnReads(p) /\ OwnRows(p)
    BY <1>3, <2>1, <2>2 DEF PostCredit, OwnLocks, OwnReads, OwnRows, HoldsWallet, HoldsCall,
       InsertedCall, Reserving, Crediting, db, LockDiscipline, RowsHeld, ReadsCurrent
  <2> QED
    BY <1>3, <2>1, <2>3, LocalStep DEF PostCredit, db
<1>4. CASE CloseCall(p)
  <2>1. Frame(p) /\ pc'[p] \in {"idle", "done"}
    BY <1>4, FrameOf DEF CloseCall, Rest
  <2>2. HoldsCall(p, job[p]) /\ usage[job[p]].status = "pending"
    BY <1>0, <1>4 DEF CloseCall, HoldsCall, LockDiscipline, RowsHeld
  <2>3. WalletsKept(p)
    BY <1>0, <1>4 DEF CloseCall, WalletsKept, HoldsWallet, TypeInv, TypeOK
  <2>4. /\ \A c \in CallIds : c # job[p] => usage'[c] = usage[c]
        /\ usage'[job[p]].requested = usage[job[p]].requested
    BY <1>0, <1>4 DEF CloseCall, TypeInv, TypeOK, UsageRows
  <2>5. RowsKept(p)
    BY <1>0, <2>2, <2>4 DEF RowsKept, LockDiscipline, CallExclusive, RowsHeld
  <2> QED
    BY <2>1, <2>3, <2>5, ReleasedStep
<1> QED
  BY <1>1, <1>2, <1>3, <1>4 DEF FinishStep

LEMMA LocksRecovery ==
    ASSUME TypeInv, LockDiscipline,
           \/ \E r \in Replicas : RecoveryStep(r)
           \/ \E c \in CallIds : Expire(c)
           \/ \E p \in Procs : Fail(p)
    PROVE  LockDiscipline'
<1> USE DEF LockDiscipline, WalletExclusive, CallExclusive, ReadsCurrent, RowsHeld
<1>1. ASSUME NEW r \in Replicas, Scan(r) PROVE LockDiscipline'
  BY <1>1 DEF Scan, db, HoldsWallet, HoldsCall, InsertedCall, Reserving, Crediting, Wal, Tok
<1>2. ASSUME NEW r \in Replicas, Recover(r) PROVE LockDiscipline'
  <2>1. r \in Procs
    BY DEF Procs
  <2>2. Frame(r) /\ pc'[r] = "finish"
    BY <1>2, <2>1, FrameOf DEF Recover
  <2> QED
    BY <1>2, <2>1, <2>2, ReleasedStep DEF Recover, db, WalletsKept, RowsKept
<1>3. ASSUME NEW c \in CallIds, Expire(c) PROVE LockDiscipline'
  <2>1. \A d \in CallIds : /\ usage'[d].status = usage[d].status
                           /\ usage'[d].requested = usage[d].requested
    BY <1>3 DEF Expire, TypeInv, TypeOK, UsageRows
  <2>2. UNCHANGED <<balance, pc, job, verdict, tx>>
    BY <1>3 DEF Expire
  <2>3. \A p \in Procs : Crediting(p) => job[p] \in CallIds
    BY WorkersHold
  <2> QED
    BY <2>1, <2>2, <2>3 DEF HoldsWallet, HoldsCall, InsertedCall, Reserving, Crediting, Wal, Tok
<1>4. ASSUME NEW p \in Procs, Fail(p) PROVE LockDiscipline'
  <2>1. Frame(p) /\ pc'[p] \in {"idle", "done"}
    BY <1>4, FrameOf DEF Fail, Rest
  <2> QED
    BY <1>4, <2>1, ReleasedStep DEF Fail, db, WalletsKept, RowsKept
<1> QED
  BY <1>1, <1>2, <1>3, <1>4 DEF RecoveryStep

(* Account and admin writes move no process; one that changes a balance    *)
(* finds the wallet free.                                                  *)
LEMMA LocksAdmin ==
    ASSUME TypeInv, LockDiscipline, AdminStep \/ CommitUser
    PROVE  LockDiscipline'
<1>1. UNCHANGED <<usage, pc, job, verdict, tx>>
  BY DEF AdminStep, CommitUser, db, AdminWrite, RevokeToken, RemoveMember, LockUser, SaveTool,
         UpdateBillingRole, AdjustBalance
<1>2. \A w \in Wallets : balance'[w] # balance[w] => WalletFree(w)
  BY DEF AdminStep, CommitUser, db, AdminWrite, RevokeToken, RemoveMember, LockUser, SaveTool,
         UpdateBillingRole, AdjustBalance, TypeInv, TypeOK
<1>3. \A p \in Procs : Reserving(p) \/ Crediting(p) => balance'[Wal(p)] = balance[Wal(p)]
  BY <1>2, WorkersHold DEF WalletFree
<1> QED
  BY <1>1, <1>3 DEF LockDiscipline, WalletExclusive, CallExclusive, ReadsCurrent, RowsHeld,
     HoldsWallet, HoldsCall, InsertedCall, Reserving, Crediting, Wal, Tok

LEMMA LocksStep == TypeInv /\ LockDiscipline /\ [Next]_vars => LockDiscipline'
<1> SUFFICES ASSUME TypeInv, LockDiscipline, [Next]_vars PROVE LockDiscipline'
  OBVIOUS
<1>1. CASE UNCHANGED vars
  BY <1>1 DEF LockDiscipline, WalletExclusive, CallExclusive, ReadsCurrent, RowsHeld,
     HoldsWallet, HoldsCall, InsertedCall, Reserving, Crediting, Wal, Tok, vars
<1>2. CASE Quiet
  BY <1>1, <1>2 DEF Quiet
<1> QED
  BY <1>1, <1>2, LocksCaller, LocksFinish, LocksRecovery, LocksAdmin DEF Next

(* The row locks do their work in every behaviour: wallets and usage rows  *)
(* have one holder, and what a transaction read under its locks is still   *)
(* so when it commits.                                                     *)
THEOREM LocksRespected == Spec => []LockDiscipline
<1>1. Init => TypeInv /\ LockDiscipline
  BY TypeInit, LocksInit
<1>2. TypeInv /\ LockDiscipline /\ [Next]_vars => (TypeInv /\ LockDiscipline)'
  BY TypeStep, LocksStep
<1> QED
  BY <1>1, <1>2, PTL DEF Spec
-----------------------------------------------------------------------------
\* Posting an entry

MoneyInv == TypeInv /\ LockDiscipline

(* A step that posts delta to w for a call: the balance of w moves by      *)
(* delta, stays a natural number, and the entry records where it ends.     *)
Posts(w, kind, call, delta) ==
    /\ balance' = [balance EXCEPT ![w] = @ + delta]
    /\ balance[w] + delta >= 0
    /\ Post(w, kind, call, delta, balance[w] + delta)

Moneyless == UNCHANGED <<balance, ledger>>

LEMMA FundedPosts ==
    ASSUME MoneyInv, NEW p \in Callers, CommitReservation(p), Covers(tx[p].read, tx[p].cost)
    PROVE  Posts(Wal(p), "reservation", job[p], 0 - tx[p].cost)
<1>1. p \in Procs /\ Reserving(p) /\ Wal(p) \in Wallets
  BY WorkersHold DEF MoneyInv, Procs, CommitReservation, Reserving
<1>2. tx[p].read = balance[Wal(p)]
  BY <1>1 DEF MoneyInv, LockDiscipline, ReadsCurrent
<1>3. balance[Wal(p)] \in Int /\ tx[p].cost \in Nat
  BY <1>1 DEF MoneyInv, TypeInv, TypeOK
<1>4. /\ balance' = [balance EXCEPT ![Wal(p)] = @ - tx[p].cost]
      /\ Post(Wal(p), "reservation", job[p], 0 - tx[p].cost, tx[p].read - tx[p].cost)
  BY DEF CommitReservation
<1>5. balance[Wal(p)] - tx[p].cost = balance[Wal(p)] + (0 - tx[p].cost)
  BY <1>3
<1>6. balance[Wal(p)] + (0 - tx[p].cost) >= 0
  BY <1>2, <1>3 DEF Covers
<1> QED
  BY <1>2, <1>4, <1>5, <1>6 DEF Posts

LEMMA CreditPosts ==
    ASSUME MoneyInv, LedgerChain, NEW p \in Procs, CloseCall(p), verdict[p] # "ok"
    PROVE  Posts(Wal(p), IF verdict[p] = "error" THEN "refund" ELSE "recovery",
                 job[p], usage[job[p]].requested)
<1>1. Crediting(p) /\ Wal(p) \in Wallets /\ job[p] \in CallIds
  BY WorkersHold DEF MoneyInv, CloseCall, Crediting
<1>2. tx[p].read = balance[Wal(p)] + usage[job[p]].requested
  BY <1>1 DEF MoneyInv, LockDiscipline, ReadsCurrent
<1>3. balance[Wal(p)] \in Int /\ usage[job[p]].requested \in Nat
  BY <1>1 DEF MoneyInv, TypeInv, TypeOK, UsageRows
<1>4. balance[Wal(p)] >= 0
  BY <1>1 DEF LedgerChain
<1> QED
  BY <1>2, <1>3, <1>4 DEF CloseCall, Posts

(* Every other step leaves balances and ledger alone. *)
LEMMA OnlyThreePost ==
    ASSUME MoneyInv, LedgerChain, [Next]_vars
    PROVE  \/ Moneyless
           \/ \E p \in Callers : CommitReservation(p) /\ Covers(tx[p].read, tx[p].cost)
           \/ \E p \in Procs : CloseCall(p) /\ verdict[p] # "ok"
           \/ \E w \in Wallets, d \in Adjustments : AdjustBalance(w, d)
<1>1. ASSUME NEW p \in Callers, CallerStep(p), ~CommitReservation(p) PROVE Moneyless
  BY <1>1 DEF Moneyless, CallerStep, AuthToken, Admit, RecordDenied, LockWallet, ReadTool, Authorize,
     Insert, Recheck, Execute, db
<1>2. ASSUME NEW p \in Callers, CommitReservation(p), ~Covers(tx[p].read, tx[p].cost)
      PROVE  Moneyless
  BY <1>2 DEF Moneyless, CommitReservation
<1>3. ASSUME NEW p \in Procs, FinishStep(p), ~(CloseCall(p) /\ verdict[p] # "ok")
      PROVE  Moneyless
  BY <1>3 DEF Moneyless, FinishStep, LockCall, CreditWallet, PostCredit, CloseCall, db
<1>4. ASSUME \/ \E r \in Replicas : RecoveryStep(r)
             \/ \E c \in CallIds : Expire(c)
             \/ \E p \in Procs : Fail(p)
             \/ CommitUser
             \/ Quiet
             \/ UNCHANGED vars
      PROVE  Moneyless
  BY <1>4 DEF Moneyless, RecoveryStep, Scan, Recover, Expire, Fail, CommitUser, Quiet, db, vars
<1>5. ASSUME AdminStep, ~\E w \in Wallets, d \in Adjustments : AdjustBalance(w, d)
      PROVE  Moneyless
  BY <1>5 DEF Moneyless, AdminStep, RevokeToken, RemoveMember, LockUser, SaveTool, UpdateBillingRole
<1> QED
  BY <1>1, <1>2, <1>3, <1>4, <1>5 DEF Next

LEMMA AdjustPosts ==
    ASSUME TypeInv, NEW w \in Wallets, NEW d \in Adjustments, AdjustBalance(w, d)
    PROVE  Posts(w, "adjustment", NoCall, d)
BY DEF AdjustBalance, Posts

-----------------------------------------------------------------------------
\* The chain of a wallet

ChainOf(w) ==
    /\ balance[w] = Latest(ledger[w])
    /\ balance[w] >= 0
    /\ \A i \in 1..Len(ledger[w]) :
         /\ ledger[w][i].after = Before(ledger[w], i) + ledger[w][i].delta
         /\ ledger[w][i].after >= 0

LEMMA ChainInit == Init => LedgerChain
<1> SUFFICES ASSUME Init, NEW w \in Wallets PROVE ChainOf(w)
  BY DEF LedgerChain, ChainOf
<1>1. balance[w] = Grant[w] /\ Grant[w] \in Nat
  BY MeteringAssumption DEF Init
<1>2. CASE Grant[w] = 0
  <2>1. ledger[w] = <<>>
    BY <1>2 DEF Init
  <2> QED
    BY <1>1, <1>2, <2>1 DEF ChainOf, Latest
<1>3. CASE Grant[w] # 0
  <2> DEFINE e == [kind |-> "registration", call |-> NoCall,
                   delta |-> Grant[w], after |-> Grant[w]]
  <2>1. ledger[w] = <<e>> /\ e.delta = Grant[w] /\ e.after = Grant[w]
    BY <1>3 DEF Init
  <2> HIDE DEF e
  <2>2. Len(ledger[w]) = 1 /\ ledger[w][1] = e /\ ledger[w] # <<>>
    BY <2>1
  <2> QED
    BY <1>1, <2>1, <2>2 DEF ChainOf, Latest, Before
<1> QED
  BY <1>2, <1>3

LEMMA ChainPost ==
    ASSUME MoneyInv, LedgerChain, NEW w \in Wallets, NEW kind \in Kinds,
           NEW call \in CallIds \cup {NoCall}, NEW delta \in Int,
           Posts(w, kind, call, delta)
    PROVE  LedgerChain'
<1> DEFINE s == ledger[w]
           b == balance[w] + delta
           e == [kind |-> kind, call |-> call, delta |-> delta, after |-> b]
<1>1. b \in Int /\ b >= 0 /\ balance[w] \in Int
  BY DEF MoneyInv, TypeInv, TypeOK, Posts
<1>2. e \in Entries /\ e.delta = delta /\ e.after = b
  BY <1>1, EntryTyped
<1>3. balance' = [balance EXCEPT ![w] = b] /\ ledger' = [ledger EXCEPT ![w] = Append(s, e)]
  BY DEF Posts, Post
<1>4. s \in Seq(Entries) /\ balance[w] = Latest(s)
  BY DEF MoneyInv, TypeInv, TypeOK, LedgerChain
<1> HIDE DEF b, e
<1>5. balance'[w] = b /\ ledger'[w] = Append(s, e)
  BY <1>3 DEF MoneyInv, TypeInv, TypeOK
<1>6. \A v \in Wallets : v # w => balance'[v] = balance[v] /\ ledger'[v] = ledger[v]
  BY <1>3 DEF MoneyInv, TypeInv, TypeOK
<1>7. /\ Len(Append(s, e)) = Len(s) + 1 /\ Len(s) \in Nat
      /\ Append(s, e)[Len(s) + 1] = e
      /\ \A i \in 1..Len(s) : Append(s, e)[i] = s[i]
      /\ Append(s, e) # <<>>
      /\ s = <<>> <=> Len(s) = 0
  <2>1. \A i \in 1..Len(s) : Append(s, e)[i] = s[i]
    BY <1>2, <1>4, AppendProperties
  <2>2. /\ Len(Append(s, e)) = Len(s) + 1 /\ Append(s, e)[Len(s) + 1] = e
        /\ Append(s, e) # <<>>
    BY <1>2, <1>4, AppendProperties
  <2>3. Len(s) \in Nat /\ (s = <<>> <=> Len(s) = 0)
    BY <1>4, EmptySeq, LenProperties
  <2> QED
    BY <2>1, <2>2, <2>3
<1>8. Latest(Append(s, e)) = b
  BY <1>2, <1>7 DEF Latest
<1>9. Before(Append(s, e), Len(s) + 1) = balance[w]
  BY <1>4, <1>7 DEF Before, Latest
<1>10. \A i \in 1..Len(s) : Before(Append(s, e), i) = Before(s, i)
  BY <1>7 DEF Before
<1>11. \A i \in 1..Len(s) + 1 :
        /\ Append(s, e)[i].after = Before(Append(s, e), i) + Append(s, e)[i].delta
        /\ Append(s, e)[i].after >= 0
  <2> TAKE i \in 1..Len(s) + 1
  <2>1. CASE i = Len(s) + 1
    BY <1>1, <1>2, <1>7, <1>9, <2>1 DEF b
  <2>2. CASE i # Len(s) + 1
    <3>1. i \in 1..Len(s)
      BY <1>7, <2>2
    <3> QED
      BY <3>1, <1>7, <1>10 DEF LedgerChain
  <2> QED
    BY <2>1, <2>2
<1>12. ChainOf(w)'
  BY <1>1, <1>5, <1>7, <1>8, <1>11 DEF ChainOf
<1>13. \A v \in Wallets : v # w => ChainOf(v)'
  BY <1>6 DEF LedgerChain, ChainOf
<1> QED
  BY <1>12, <1>13 DEF LedgerChain, ChainOf

LEMMA PostersTyped ==
    ASSUME MoneyInv, NEW p \in Procs, pc[p] \in {"commit", "close"}
    PROVE  /\ Wal(p) \in Wallets /\ job[p] \in CallIds
           /\ tx[p].cost \in Nat /\ usage[job[p]].requested \in Nat
BY JobTyped DEF MoneyInv, TypeInv, TypeOK, JobOK, UsageRows

LEMMA ChainStep == MoneyInv /\ LedgerChain /\ [Next]_vars => LedgerChain'
<1> SUFFICES ASSUME MoneyInv, LedgerChain, [Next]_vars PROVE LedgerChain'
  OBVIOUS
<1>1. CASE Moneyless
  BY <1>1 DEF Moneyless, LedgerChain
<1>2. ASSUME NEW p \in Callers, CommitReservation(p), Covers(tx[p].read, tx[p].cost)
      PROVE  LedgerChain'
  <2>1. p \in Procs /\ pc[p] = "commit"
    BY <1>2 DEF Procs, CommitReservation
  <2>2. Wal(p) \in Wallets /\ job[p] \in CallIds /\ 0 - tx[p].cost \in Int
    BY <2>1, PostersTyped
  <2> QED
    BY <1>2, <2>2, FundedPosts, ChainPost DEF Kinds
<1>3. ASSUME NEW p \in Procs, CloseCall(p), verdict[p] # "ok" PROVE LedgerChain'
  <2>1. Wal(p) \in Wallets /\ job[p] \in CallIds /\ usage[job[p]].requested \in Int
    BY <1>3, PostersTyped DEF CloseCall
  <2> QED
    BY <1>3, <2>1, CreditPosts, ChainPost DEF Kinds
<1>4. ASSUME NEW w \in Wallets, NEW d \in Adjustments, AdjustBalance(w, d)
      PROVE  LedgerChain'
  <2>1. d \in Int
    BY MeteringAssumption
  <2>2. Posts(w, "adjustment", NoCall, d)
    BY <1>4, AdjustPosts DEF MoneyInv
  <2> QED
    BY <2>1, <2>2, ChainPost DEF Kinds
<1> QED
  BY <1>1, <1>2, <1>3, <1>4, OnlyThreePost

(* In every behaviour the ledger of a wallet explains its balance, row by  *)
(* row, and neither is ever negative: no interleaving of reservations,     *)
(* settlements, recovery and adjustments overdraws a wallet or loses an    *)
(* update of it.                                                           *)
THEOREM LedgerSound == Spec => []LedgerChain
<1>1. Init => MoneyInv /\ LedgerChain
  BY TypeInit, LocksInit, ChainInit DEF MoneyInv
<1>2. MoneyInv /\ LedgerChain /\ [Next]_vars => (MoneyInv /\ LedgerChain)'
  BY TypeStep, LocksStep, ChainStep DEF MoneyInv
<1> QED
  BY <1>1, <1>2, PTL DEF Spec

-----------------------------------------------------------------------------
\* What a step does to calls and money

WalletOf(c) == TokenWallet[c[1]]
SameRow(c) ==
    /\ usage'[c].status = usage[c].status
    /\ usage'[c].requested = usage[c].requested
    /\ usage'[c].cost = usage[c].cost
OnlyRow(c) == \A d \in CallIds : d # c => SameRow(d)

Untouched == Moneyless /\ \A c \in CallIds : SameRow(c)
Refused(c) ==
    /\ usage[c].status = "none" /\ usage'[c].status = "denied" /\ usage'[c].cost = 0
    /\ OnlyRow(c) /\ Moneyless
Held(c, n) ==
    /\ usage[c].status = "none"
    /\ usage'[c].status = "pending" /\ usage'[c].requested = n /\ usage'[c].cost = 0
    /\ n \in Nat /\ balance[WalletOf(c)] >= n
    /\ OnlyRow(c) /\ Posts(WalletOf(c), "reservation", c, 0 - n)
Charged(c) ==
    /\ usage[c].status = "pending"
    /\ usage'[c].status = "ok" /\ usage'[c].requested = usage[c].requested
    /\ usage'[c].cost = usage[c].requested
    /\ OnlyRow(c) /\ Moneyless
Released(c, status) ==
    /\ usage[c].status = "pending" /\ status \in {"error", "recovered"}
    /\ usage'[c].status = status /\ usage'[c].requested = usage[c].requested
    /\ usage'[c].cost = 0
    /\ OnlyRow(c)
    /\ Posts(WalletOf(c), IF status = "error" THEN "refund" ELSE "recovery", c,
             usage[c].requested)
Adjusted(w, d) ==
    /\ Posts(w, "adjustment", NoCall, d) /\ \A c \in CallIds : SameRow(c)

CallStep ==
    \/ Untouched
    \/ \E c \in CallIds : Refused(c) \/ Charged(c)
    \/ \E c \in CallIds, n \in Nat : Held(c, n)
    \/ \E c \in CallIds, s \in {"error", "recovered"} : Released(c, s)
    \/ \E w \in Wallets, d \in Adjustments : Adjusted(w, d)

LEMMA ReservationStep ==
    ASSUME MoneyInv, NEW p \in Callers, CommitReservation(p)
    PROVE  CallStep
<1> DEFINE c == job[p]  n == tx[p].cost
<1>1. p \in Procs /\ InsertedCall(p, c) /\ pc[p] = "commit"
  BY DEF CommitReservation, InsertedCall, Procs
<1>2. c \in CallIds /\ n \in Nat /\ Wal(p) \in Wallets
  BY <1>1, PostersTyped
<1>3. usage[c].status = "none"
  BY <1>1, <1>2 DEF MoneyInv, LockDiscipline, RowsHeld
<1>4. /\ usage' = [usage EXCEPT ![c] =
             [NoRow EXCEPT !.status = IF Covers(tx[p].read, n) THEN "pending" ELSE "denied",
                           !.tool = want[p], !.requested = n, !.rate = tx[p].rate]]
      /\ usage \in [CallIds -> UsageRows]
  BY DEF CommitReservation, MoneyInv, TypeInv, TypeOK
<1>5. /\ usage'[c].status = IF Covers(tx[p].read, n) THEN "pending" ELSE "denied"
      /\ usage'[c].requested = n /\ usage'[c].cost = 0
      /\ OnlyRow(c)
  BY <1>2, <1>4 DEF NoRow, OnlyRow, SameRow
<1>6. CASE Covers(tx[p].read, n)
  <2>1. Posts(Wal(p), "reservation", c, 0 - n)
    BY <1>6, FundedPosts
  <2>2. balance[Wal(p)] >= n
    <3>1. balance[Wal(p)] \in Int /\ balance[Wal(p)] + (0 - n) >= 0
      BY <1>2, <2>1 DEF Posts, MoneyInv, TypeInv, TypeOK
    <3> QED
      BY <1>2, <3>1
  <2>3. WalletOf(c) = Wal(p)
    BY DEF WalletOf, Wal, Tok
  <2> HIDE DEF c, n
  <2>4. Held(c, n)
    BY <1>2, <1>3, <1>5, <1>6, <2>1, <2>2, <2>3 DEF Held
  <2> QED
    BY <1>2, <2>4 DEF CallStep
<1>7. CASE ~Covers(tx[p].read, n)
  <2>1. Moneyless
    BY <1>7 DEF CommitReservation, Moneyless
  <2> HIDE DEF c, n
  <2>2. Refused(c)
    BY <1>3, <1>5, <1>7, <2>1 DEF Refused
  <2> QED
    BY <1>2, <2>2 DEF CallStep
<1> QED
  BY <1>6, <1>7

LEMMA SettlementStep ==
    ASSUME MoneyInv, LedgerChain, NEW p \in Procs, CloseCall(p)
    PROVE  CallStep
<1> DEFINE c == job[p]  v == verdict[p]
<1>1. pc[p] = "close" /\ HoldsCall(p, c)
  BY DEF CloseCall, HoldsCall
<1>2. c \in CallIds /\ v \in Settled /\ usage[c].requested \in Nat
  BY <1>1, PostersTyped DEF MoneyInv, TypeInv, TypeOK
<1>3. usage[c].status = "pending"
  BY <1>1, <1>2 DEF MoneyInv, LockDiscipline, RowsHeld
<1>4. usage[c] \in UsageRows /\ usage \in [CallIds -> UsageRows]
  BY <1>2 DEF MoneyInv, TypeInv, TypeOK
<1>5. /\ usage'[c].status = v
      /\ usage'[c].requested = usage[c].requested
      /\ usage'[c].cost = IF v = "ok" THEN usage[c].requested ELSE 0
      /\ OnlyRow(c)
  BY <1>2, <1>4 DEF CloseCall, OnlyRow, SameRow, UsageRows
<1>6. CASE v = "ok"
  <2>1. Moneyless
    BY <1>6 DEF CloseCall, Moneyless
  <2> HIDE DEF c, v
  <2>2. Charged(c)
    BY <1>3, <1>5, <1>6, <2>1 DEF Charged
  <2> QED
    BY <1>2, <2>2 DEF CallStep
<1>7. CASE v # "ok"
  <2>1. Posts(Wal(p), IF v = "error" THEN "refund" ELSE "recovery", c, usage[c].requested)
    BY <1>7, CreditPosts
  <2>2. WalletOf(c) = Wal(p) /\ v \in {"error", "recovered"}
    BY <1>2, <1>7 DEF WalletOf, Wal, Tok, Settled
  <2> HIDE DEF c, v
  <2>3. Released(c, v)
    BY <1>3, <1>5, <1>7, <2>1, <2>2 DEF Released
  <2> QED
    BY <1>2, <2>2, <2>3 DEF CallStep
<1> QED
  BY <1>6, <1>7

(* Whatever a process, recovery or an account does to calls and balances   *)
(* is one of six things.                                                   *)
LEMMA CallSteps == MoneyInv /\ LedgerChain /\ [Next]_vars => CallStep
<1> SUFFICES ASSUME MoneyInv, LedgerChain, [Next]_vars PROVE CallStep
  OBVIOUS
<1>0. usage \in [CallIds -> UsageRows]
  BY DEF MoneyInv, TypeInv, TypeOK
<1>1. ASSUME Moneyless, usage' = usage PROVE CallStep
  BY <1>1 DEF CallStep, Untouched, SameRow
<1>2. ASSUME NEW p \in Callers, RecordDenied(p) PROVE CallStep
  <2>1. job[p] \in CallIds
    BY <1>2 DEF RecordDenied, MoneyInv, TypeInv, JobOK, Procs
  <2>2. CASE usage' = usage
    BY <1>1, <1>2, <2>2 DEF RecordDenied, Moneyless
  <2>3. CASE usage' # usage
    <3>1. Refused(job[p])
      BY <1>0, <1>2, <2>1, <2>3
      DEF RecordDenied, Refused, NoRow, OnlyRow, SameRow, Moneyless
    <3> QED
      BY <2>1, <3>1 DEF CallStep
  <2> QED
    BY <2>2, <2>3
<1>3. ASSUME NEW p \in Callers, CallerStep(p), ~RecordDenied(p), ~CommitReservation(p)
      PROVE  CallStep
  BY <1>1, <1>3 DEF CallerStep, AuthToken, Admit, LockWallet, ReadTool, Authorize, Insert,
     Recheck, Execute, db, Moneyless
<1>4. ASSUME NEW p \in Procs, LockCall(p) PROVE CallStep
  <2>1. \A c \in CallIds : SameRow(c)
    BY <1>0, <1>4 DEF LockCall, SameRow, UsageRows
  <2> QED
    BY <1>4, <2>1 DEF CallStep, Untouched, LockCall, Moneyless
<1>5. ASSUME NEW p \in Procs, CreditWallet(p) \/ PostCredit(p) PROVE CallStep
  BY <1>1, <1>5 DEF CreditWallet, PostCredit, db, Moneyless
<1>6. ASSUME NEW c \in CallIds, Expire(c) PROVE CallStep
  <2>1. \A d \in CallIds : SameRow(d)
    BY <1>0, <1>6 DEF Expire, SameRow, UsageRows
  <2> QED
    BY <1>6, <2>1 DEF CallStep, Untouched, Expire, Moneyless
<1>7. ASSUME \/ \E r \in Replicas : RecoveryStep(r)
             \/ \E p \in Procs : Fail(p)
             \/ CommitUser \/ Quiet \/ UNCHANGED vars
      PROVE  CallStep
  BY <1>1, <1>7 DEF RecoveryStep, Scan, Recover, Fail, CommitUser, Quiet, db, vars, Moneyless
<1>8. ASSUME NEW w \in Wallets, NEW d \in Adjustments, AdjustBalance(w, d) PROVE CallStep
  <2>1. Posts(w, "adjustment", NoCall, d) /\ usage' = usage
    BY <1>8, AdjustPosts DEF MoneyInv, AdjustBalance, AdminWrite
  <2> QED
    BY <2>1 DEF CallStep, Adjusted, SameRow
<1>9. ASSUME AdminStep, ~\E w \in Wallets, d \in Adjustments : AdjustBalance(w, d)
      PROVE  CallStep
  BY <1>1, <1>9 DEF AdminStep, RevokeToken, RemoveMember, LockUser, SaveTool,
     UpdateBillingRole, AdminWrite, Moneyless
<1> QED
  BY <1>2, <1>3, <1>4, <1>5, <1>6, <1>7, <1>8, <1>9, ReservationStep, SettlementStep
  DEF Next, FinishStep

-----------------------------------------------------------------------------
\* Every call is in the ledger as its row says

(* What a row demands of the entries of its call. *)
Demands(c, kind, owed, delta) ==
    IF owed THEN PostedOnce(c, kind, delta) ELSE Rows(c, kind) = {}
Accounted(c) ==
    /\ Demands(c, "reservation", usage[c].status \notin {"none", "denied"},
               0 - usage[c].requested)
    /\ Demands(c, "refund", usage[c].status = "error", usage[c].requested)
    /\ Demands(c, "recovery", usage[c].status = "recovered", usage[c].requested)
    /\ usage[c].cost = IF usage[c].status = "ok" THEN usage[c].requested ELSE 0
AllAccounted == \A c \in CallIds : Accounted(c)

LEMMA AccountedIsAccounted == TypeOK => (CallsAccounted <=> AllAccounted)
BY DEF CallsAccounted, AllAccounted, Accounted, Demands

LEMMA CallTyped ==
    ASSUME NEW c \in CallIds
    PROVE  WalletOf(c) \in Wallets /\ c # NoCall
<1>1. PICK t \in Tokens, k \in Keys : c = <<t, k>>
  BY DEF CallIds
<1>2. Len(c) = 2 /\ Len(<<>>) = 0
  BY <1>1
<1> QED
  BY <1>1, <1>2, MeteringAssumption DEF WalletOf, NoCall

(* The entries of a call stay, except that a posting adds its own.         *)
LEMMA RowsAfterPost ==
    ASSUME MoneyInv, NEW w \in Wallets, NEW kind \in Kinds,
           NEW call \in CallIds \cup {NoCall}, NEW delta \in Int,
           Posts(w, kind, call, delta), call # NoCall => w = WalletOf(call),
           NEW c \in CallIds, NEW k
    PROVE  LET n == Len(ledger[w]) + 1 IN
           /\ c = call /\ k = kind => /\ Rows(c, k)' = Rows(c, k) \cup {n}
                                      /\ ledger'[w][n].delta = delta
           /\ c # call \/ k # kind => Rows(c, k)' = Rows(c, k)
           /\ \A i \in Rows(c, k) : ledger'[WalletOf(c)][i] = ledger[WalletOf(c)][i]
           /\ Rows(c, k) \subseteq 1..Len(ledger[WalletOf(c)])
           /\ Rows(c, k)' \subseteq 1..Len(ledger'[WalletOf(c)])
<1> DEFINE s == ledger[w]
           e == [kind |-> kind, call |-> call, delta |-> delta, after |-> balance[w] + delta]
           v == WalletOf(c)
<1>1. v \in Wallets /\ c # NoCall
  BY CallTyped
<1>2. /\ e \in Entries /\ e.kind = kind /\ e.call = call /\ e.delta = delta
      /\ s \in Seq(Entries)
  <2>1. balance[w] + delta \in Int /\ s \in Seq(Entries)
    BY DEF MoneyInv, TypeInv, TypeOK
  <2> QED
    BY <2>1, EntryTyped
<1>3. ledger' = [ledger EXCEPT ![w] = Append(s, e)]
  BY DEF Posts, Post
<1> HIDE DEF e
<1>4. ledger'[w] = Append(s, e) /\ (v # w => ledger'[v] = ledger[v])
  BY <1>1, <1>3 DEF MoneyInv, TypeInv, TypeOK
<1>5. /\ Len(Append(s, e)) = Len(s) + 1 /\ Len(s) \in Nat
      /\ Append(s, e)[Len(s) + 1] = e
      /\ \A i \in 1..Len(s) : Append(s, e)[i] = s[i]
  <2>1. /\ Len(Append(s, e)) = Len(s) + 1 /\ Append(s, e)[Len(s) + 1] = e
        /\ \A i \in 1..Len(s) : Append(s, e)[i] = s[i]
    BY <1>2, AppendProperties
  <2> QED
    BY <1>2, <2>1, LenProperties
<1>6. /\ Rows(c, k) = {i \in 1..Len(ledger[v]) : ledger[v][i].call = c /\ ledger[v][i].kind = k}
      /\ Rows(c, k)' =
           {i \in 1..Len(ledger'[v]) : ledger'[v][i].call = c /\ ledger'[v][i].kind = k}
  BY DEF Rows, WalletOf
<1>7. CASE v # w
  BY <1>1, <1>4, <1>6, <1>7
<1>8. CASE v = w
  <2>1. Rows(c, k)' =
          {i \in 1..Len(s) + 1 : Append(s, e)[i].call = c /\ Append(s, e)[i].kind = k}
    BY <1>4, <1>5, <1>6, <1>8
  <2>2. 1..Len(s) + 1 = (1..Len(s)) \cup {Len(s) + 1}
    BY <1>5
  <2>3. Rows(c, k)' = Rows(c, k) \cup
          {i \in {Len(s) + 1} : Append(s, e)[i].call = c /\ Append(s, e)[i].kind = k}
    BY <1>5, <1>6, <1>8, <2>1, <2>2
  <2>4. c = call /\ k = kind => Rows(c, k)' = Rows(c, k) \cup {Len(s) + 1}
    BY <1>2, <1>5, <2>3
  <2>5. c # call \/ k # kind => Rows(c, k)' = Rows(c, k)
    BY <1>2, <1>5, <2>3
  <2>6. \A i \in Rows(c, k) : ledger'[v][i] = ledger[v][i]
    BY <1>4, <1>5, <1>6, <1>8
  <2>7. ledger'[w][Len(s) + 1].delta = delta
    BY <1>2, <1>4, <1>5
  <2> QED
    BY <1>6, <2>4, <2>5, <2>6, <2>7
<1> QED
  BY <1>7, <1>8

(* A demand outlives a posting that is not about it, and a posting meets   *)
(* the demand that it is about.                                            *)
LEMMA DemandKept ==
    ASSUME MoneyInv, NEW w \in Wallets, NEW kind \in Kinds,
           NEW call \in CallIds \cup {NoCall}, NEW delta \in Int,
           Posts(w, kind, call, delta), call # NoCall => w = WalletOf(call),
           NEW c \in CallIds, NEW k, c # call \/ k # kind,
           NEW owed \in BOOLEAN, NEW d, Demands(c, k, owed, d)
    PROVE  IF owed THEN PostedOnce(c, k, d)' ELSE Rows(c, k)' = {}
<1>1. /\ Rows(c, k)' = Rows(c, k)
      /\ \A i \in Rows(c, k) : ledger'[WalletOf(c)][i] = ledger[WalletOf(c)][i]
      /\ Rows(c, k)' \subseteq 1..Len(ledger'[WalletOf(c)])
  BY RowsAfterPost
<1> QED
  BY <1>1 DEF Demands, PostedOnce, WalletOf

LEMMA DemandMet ==
    ASSUME MoneyInv, NEW kind \in Kinds, NEW c \in CallIds, NEW delta \in Int,
           Posts(WalletOf(c), kind, c, delta), Rows(c, kind) = {}
    PROVE  PostedOnce(c, kind, delta)'
<1> DEFINE n == Len(ledger[WalletOf(c)]) + 1
<1>1. WalletOf(c) \in Wallets /\ c # NoCall
  BY CallTyped
<1>2. Rows(c, kind)' = {n} /\ ledger'[WalletOf(c)][n].delta = delta
      /\ Rows(c, kind)' \subseteq 1..Len(ledger'[WalletOf(c)])
  BY <1>1, RowsAfterPost
<1> QED
  BY <1>2 DEF PostedOnce, WalletOf

LEMMA AccountedStep == MoneyInv /\ AllAccounted /\ CallStep => AllAccounted'
<1> SUFFICES ASSUME MoneyInv, AllAccounted, CallStep, NEW c \in CallIds PROVE Accounted(c)'
  BY DEF AllAccounted
<1>0. Accounted(c) /\ usage[c] \in UsageRows
  BY DEF AllAccounted, MoneyInv, TypeInv, TypeOK
<1>1. ASSUME Moneyless PROVE \A k, d : /\ Rows(c, k)' = Rows(c, k)
                                       /\ PostedOnce(c, k, d)' <=> PostedOnce(c, k, d)
  BY <1>1 DEF Moneyless, Rows, PostedOnce
<1>2. ASSUME Moneyless, SameRow(c) PROVE Accounted(c)'
  BY <1>0, <1>1, <1>2 DEF Accounted, Demands, SameRow
<1>3. ASSUME SameRow(c),
             NEW w \in Wallets, NEW kind \in Kinds, NEW call \in CallIds \cup {NoCall},
             NEW delta \in Int, Posts(w, kind, call, delta),
             call # NoCall => w = WalletOf(call), c # call
      PROVE  Accounted(c)'
  <2>1. \A k : \A owed \in BOOLEAN : \A d :
          Demands(c, k, owed, d) => IF owed THEN PostedOnce(c, k, d)' ELSE Rows(c, k)' = {}
    BY <1>3, DemandKept
  <2> QED
    BY <1>0, <1>3, <2>1 DEF Accounted, Demands, SameRow
<1>4. CASE Untouched
  BY <1>2, <1>4 DEF Untouched
<1>5. ASSUME NEW b \in CallIds, Refused(b) \/ Charged(b) PROVE Accounted(c)'
  <2>1. CASE c # b
    BY <1>2, <1>5, <2>1 DEF Refused, Charged, OnlyRow
  <2>2. CASE c = b
    BY <1>0, <1>1, <1>5, <2>2 DEF Refused, Charged, Accounted, Demands
  <2> QED
    BY <2>1, <2>2
<1>6. ASSUME NEW b \in CallIds, NEW n \in Nat, Held(b, n) PROVE Accounted(c)'
  <2>1. /\ WalletOf(b) \in Wallets /\ b # NoCall /\ 0 - n \in Int /\ "reservation" \in Kinds
        /\ Posts(WalletOf(b), "reservation", b, 0 - n)
    BY <1>6, CallTyped DEF Held, Kinds
  <2>2. CASE c # b
    BY <1>3, <1>6, <2>1, <2>2 DEF Held, OnlyRow
  <2>3. CASE c = b
    <3>1. PostedOnce(c, "reservation", 0 - n)'
      <4>1. Rows(c, "reservation") = {}
        BY <1>0, <1>6, <2>3 DEF Held, Accounted, Demands
      <4> QED
        BY <2>1, <2>3, <4>1, DemandMet
    <3>2. Rows(c, "refund")' = Rows(c, "refund") /\ Rows(c, "recovery")' = Rows(c, "recovery")
      BY <2>1, RowsAfterPost
    <3> QED
      BY <1>0, <1>6, <2>3, <3>1, <3>2 DEF Held, Accounted, Demands
  <2> QED
    BY <2>2, <2>3
<1>7. ASSUME NEW b \in CallIds, NEW s \in {"error", "recovered"}, Released(b, s)
      PROVE  Accounted(c)'
  <2> DEFINE kind == IF s = "error" THEN "refund" ELSE "recovery"
  <2>0. PICK n \in Nat : n = usage[b].requested
    BY DEF MoneyInv, TypeInv, TypeOK, UsageRows
  <2>1. /\ WalletOf(b) \in Wallets /\ b # NoCall /\ n \in Int /\ kind \in Kinds
        /\ Posts(WalletOf(b), kind, b, n)
    BY <1>7, <2>0, CallTyped DEF Released, Kinds
  <2>2. CASE c # b
    BY <1>3, <1>7, <2>1, <2>2 DEF Released, OnlyRow
  <2>3. CASE c = b
    <3>1. PostedOnce(c, kind, n)'
      <4>1. Rows(c, kind) = {}
        BY <1>0, <1>7, <2>3 DEF Released, Accounted, Demands
      <4> HIDE DEF kind
      <4> QED
        BY <2>1, <2>3, <4>1, DemandMet
    <3>2. \A k : k # kind => Rows(c, k)' = Rows(c, k)
      <4> HIDE DEF kind
      <4> QED
        BY <2>1, RowsAfterPost
    <3>3. PostedOnce(c, "reservation", 0 - n)'
      <4>1. Demands(c, "reservation", TRUE, 0 - n)
        BY <1>0, <1>7, <2>0, <2>3 DEF Released, Accounted
      <4>2. "reservation" # kind
        OBVIOUS
      <4> HIDE DEF kind
      <4> QED
        BY <2>1, <4>1, <4>2, DemandKept
    <3> QED
      BY <1>0, <1>7, <2>0, <2>3, <3>1, <3>2, <3>3 DEF Released, Accounted, Demands
  <2> QED
    BY <2>2, <2>3
<1>8. ASSUME NEW w \in Wallets, NEW d \in Adjustments, Adjusted(w, d) PROVE Accounted(c)'
  <2>1. d \in Int /\ "adjustment" \in Kinds /\ c # NoCall
    BY MeteringAssumption, CallTyped DEF Kinds
  <2> QED
    BY <1>3, <1>8, <2>1 DEF Adjusted
<1> QED
  BY <1>4, <1>5, <1>6, <1>7, <1>8 DEF CallStep

LEMMA AccountedInit == Init => AllAccounted
<1> SUFFICES ASSUME Init, NEW c \in CallIds PROVE Accounted(c)
  BY DEF AllAccounted
<1>1. usage[c].status = "none" /\ usage[c].cost = 0
  BY DEF Init, NoRow
<1>2. \A k \in {"reservation", "refund", "recovery"} : Rows(c, k) = {}
  <2> DEFINE w == TokenWallet[c[1]]
             e == [kind |-> "registration", call |-> NoCall,
                   delta |-> Grant[w], after |-> Grant[w]]
  <2>1. w \in Wallets /\ c # NoCall
    BY CallTyped DEF WalletOf
  <2>2. ledger[w] = <<>> \/ ledger[w] = <<e>>
    BY <2>1 DEF Init
  <2>3. e.call = NoCall
    OBVIOUS
  <2> HIDE DEF e, w
  <2>4. \A i \in 1..Len(ledger[w]) : ledger[w][i].call = NoCall
    BY <2>2, <2>3
  <2> QED
    BY <2>1, <2>4 DEF Rows, w
<1> QED
  BY <1>1, <1>2 DEF Accounted, Demands

(* Every call is in the ledger exactly as its row says, in every           *)
(* behaviour: one reservation if it was ever funded, one refund or one     *)
(* recovery if it was not charged, never both, although callers, replicas  *)
(* and retries race to settle it and any of them may fail at any step.     *)
THEOREM CallsSound == Spec => []CallsAccounted
<1> DEFINE Inv == MoneyInv /\ LedgerChain /\ AllAccounted
<1>1. Init => Inv
  BY TypeInit, LocksInit, ChainInit, AccountedInit DEF MoneyInv
<1>2. Inv /\ [Next]_vars => Inv'
  BY TypeStep, LocksStep, ChainStep, CallSteps, AccountedStep DEF MoneyInv
<1>3. Inv => CallsAccounted
  BY AccountedIsAccounted DEF MoneyInv, TypeInv
<1> QED
  BY <1>1, <1>2, <1>3, PTL DEF Spec

-----------------------------------------------------------------------------
\* The statements implement the account of CallAccount

LEMMA AccountStarts == Init => Account!AccountInit
BY DEF Init, Account!AccountInit, AbstractPhase, AbstractAmount, Abstract, NoRow

(* What the account shows of a call depends on its row only. *)
LEMMA SameRowSameCall ==
    ASSUME NEW c \in CallIds, SameRow(c)
    PROVE  AbstractPhase'[c] = AbstractPhase[c] /\ AbstractAmount'[c] = AbstractAmount[c]
BY DEF SameRow, AbstractPhase, AbstractAmount, Abstract

LEMMA OneCallMoves ==
    ASSUME NEW c \in CallIds, OnlyRow(c)
    PROVE  /\ AbstractPhase' = [AbstractPhase EXCEPT ![c] = Abstract(usage[c])']
           /\ AbstractAmount' = [AbstractAmount EXCEPT ![c] =
                IF usage'[c].status \in {"none", "denied"} THEN 0 ELSE usage'[c].requested]
<1>1. \A d \in CallIds : d # c => /\ AbstractPhase'[d] = AbstractPhase[d]
                                  /\ AbstractAmount'[d] = AbstractAmount[d]
  BY SameRowSameCall DEF OnlyRow
<1> QED
  BY <1>1 DEF AbstractPhase, AbstractAmount

LEMMA NoCallMoves ==
    ASSUME \A c \in CallIds : SameRow(c)
    PROVE  AbstractPhase' = AbstractPhase /\ AbstractAmount' = AbstractAmount
<1>1. \A d \in CallIds : /\ AbstractPhase'[d] = AbstractPhase[d]
                         /\ AbstractAmount'[d] = AbstractAmount[d]
  BY SameRowSameCall
<1> QED
  BY <1>1 DEF AbstractPhase, AbstractAmount

LEMMA AccountSteps ==
    MoneyInv /\ LedgerChain /\ CallStep => [Account!AccountNext]_(Account!accountVars)
<1> SUFFICES ASSUME MoneyInv, LedgerChain, CallStep
             PROVE  Account!AccountNext \/ UNCHANGED Account!accountVars
  OBVIOUS
<1>0. /\ balance \in [Wallets -> Int]
      /\ \A c \in CallIds : usage[c].requested \in Nat /\ CallWallet[c] = WalletOf(c)
  BY DEF MoneyInv, TypeInv, TypeOK, UsageRows, CallWallet, WalletOf
<1>1. CASE Untouched
  BY <1>1, NoCallMoves DEF Untouched, Moneyless, Account!accountVars
<1>2. ASSUME NEW c \in CallIds, Refused(c) PROVE Account!Refuse(c)
  <2>1. Abstract(usage[c])' = "refused" /\ AbstractPhase[c] = "new" /\ AbstractAmount[c] = 0
    BY <1>2 DEF Refused, Abstract, AbstractPhase, AbstractAmount
  <2>2. AbstractPhase' = [AbstractPhase EXCEPT ![c] = "refused"] /\ AbstractAmount' = AbstractAmount
    BY <1>2, <2>1, OneCallMoves DEF Refused, AbstractAmount
  <2> QED
    BY <1>2, <2>1, <2>2 DEF Refused, Moneyless, Account!Refuse
<1>3. ASSUME NEW c \in CallIds, Charged(c) PROVE Account!Charge(c)
  <2>1. /\ Abstract(usage[c])' = "charged" /\ AbstractPhase[c] = "held"
        /\ AbstractAmount[c] = usage'[c].requested
    BY <1>3 DEF Charged, Abstract, AbstractPhase, AbstractAmount
  <2>2. AbstractPhase' = [AbstractPhase EXCEPT ![c] = "charged"] /\ AbstractAmount' = AbstractAmount
    BY <1>3, <2>1, OneCallMoves DEF Charged, AbstractAmount
  <2> QED
    BY <1>3, <2>1, <2>2 DEF Charged, Moneyless, Account!Charge
<1>4. ASSUME NEW c \in CallIds, NEW n \in Nat, Held(c, n)
      PROVE  Account!Hold(c, n) /\ n \in 0..balance[CallWallet[c]]
  <2>1. Abstract(usage[c])' = "held" /\ AbstractPhase[c] = "new"
    BY <1>4 DEF Held, Abstract, AbstractPhase
  <2>2. /\ AbstractPhase' = [AbstractPhase EXCEPT ![c] = "held"]
        /\ AbstractAmount' = [AbstractAmount EXCEPT ![c] = n]
    BY <1>4, <2>1, OneCallMoves DEF Held
  <2>3. WalletOf(c) \in Wallets /\ balance[WalletOf(c)] \in Int
    BY <1>0, CallTyped
  <2>4. balance' = [balance EXCEPT ![CallWallet[c]] = @ - n]
    <3>1. balance[WalletOf(c)] + (0 - n) = balance[WalletOf(c)] - n
      BY <2>3
    <3> QED
      BY <1>0, <1>4, <3>1 DEF Held, Posts
  <2> QED
    BY <1>0, <1>4, <2>1, <2>2, <2>3, <2>4 DEF Held, Account!Hold
<1>5. ASSUME NEW c \in CallIds, NEW s \in {"error", "recovered"}, Released(c, s)
      PROVE  Account!Release(c)
  <2>1. /\ Abstract(usage[c])' = "released" /\ AbstractPhase[c] = "held"
        /\ AbstractAmount[c] = usage[c].requested /\ usage'[c].requested = usage[c].requested
    BY <1>5 DEF Released, Abstract, AbstractPhase, AbstractAmount
  <2>2. AbstractPhase' = [AbstractPhase EXCEPT ![c] = "released"] /\ AbstractAmount' = AbstractAmount
    BY <1>5, <2>1, OneCallMoves DEF Released, AbstractAmount
  <2> QED
    BY <1>0, <1>5, <2>1, <2>2 DEF Released, Posts, Account!Release
<1>6. ASSUME NEW w \in Wallets, NEW d \in Adjustments, Adjusted(w, d) PROVE Account!Adjust(w)
  <2>1. balance'[w] = balance[w] + d /\ balance[w] + d >= 0
        /\ balance' = [balance EXCEPT ![w] = balance'[w]]
    BY <1>0, <1>6 DEF Adjusted, Posts
  <2> QED
    BY <1>6, <2>1, NoCallMoves DEF Adjusted, Account!Adjust
<1> QED
  BY <1>1, <1>2, <1>3, <1>4, <1>5, <1>6 DEF CallStep, Account!AccountNext

(* Behind its statements, locks, processes and faults the metering is the  *)
(* account of CallAccount: a price is held at most once, only when the     *)
(* wallet covers it, and is then charged or released once; everything else *)
(* the code does is invisible to the account.                              *)
THEOREM AccountImplemented == Spec => RefinesAccount
<1> DEFINE Inv == MoneyInv /\ LedgerChain
<1>1. Init => Inv /\ Account!AccountInit
  BY TypeInit, LocksInit, ChainInit, AccountStarts DEF MoneyInv
<1>2. Inv /\ [Next]_vars => Inv' /\ [Account!AccountNext]_(Account!accountVars)
  BY TypeStep, LocksStep, ChainStep, CallSteps, AccountSteps DEF MoneyInv
<1> QED
  BY <1>1, <1>2, PTL DEF Spec, RefinesAccount, Account!AccountSpec

-----------------------------------------------------------------------------
\* A reservation commits on what is true at its commit

(* What the FOR SHARE lock on the tool and the KEY SHARE lock on the user  *)
(* hold still for a process between its reads and its commit.              *)
Priced(p) ==
    /\ pc[p] \in {"authorize", "insert", "recheck", "commit"} => tools[want[p]].enabled
    /\ pc[p] = "authorize" => tx[p].cost = tools[want[p]].cost
    /\ pc[p] \in {"insert", "recheck", "commit"} =>
         tx[p].cost = applyMultiplierBP(tools[want[p]].cost, tx[p].rate)
Vouched(p) ==
    /\ pc[p] \in {"recheck", "commit"} => frozen # Usr(p)
    /\ pc[p] = "commit" => Usr(p) \in enabled
TermsHeld == \A p \in Procs : Priced(p) /\ Vouched(p)

LEMMA TermsInit == Init => TermsHeld
BY DEF Init, TermsHeld, Priced, Vouched

(* Steps of calls and recovery leave the accounts and tools alone, so only *)
(* the process that moves has to be looked at.                             *)
LEMMA TermsOfOthers ==
    ASSUME TypeInv, TermsHeld, NEW p \in Procs, UNCHANGED auth,
           \A q \in Procs : q # p => /\ pc'[q] = pc[q] /\ want'[q] = want[q]
                                     /\ job'[q] = job[q] /\ tx'[q] = tx[q],
           Priced(p)' /\ Vouched(p)'
    PROVE  TermsHeld'
BY DEF TermsHeld, Priced, Vouched, auth, Usr, Tok

LEMMA TermsMove ==
    ASSUME TypeInv, TermsHeld, NEW p \in Procs,
           (p \in Callers /\ CallerStep(p)) \/ FinishStep(p)
              \/ (p \in Replicas /\ RecoveryStep(p)) \/ Fail(p)
    PROVE  TermsHeld'
<1>0. /\ pc \in [Procs -> Phases] /\ tx \in [Procs -> TxRecords] /\ want \in [Procs -> Tools]
      /\ job \in [Procs -> CallIds \cup {NoCall}] /\ Priced(p) /\ Vouched(p)
  BY DEF TypeInv, TypeOK, TxRecords, TermsHeld
<1>1. /\ UNCHANGED auth
      /\ \A q \in Procs : q # p => /\ pc'[q] = pc[q] /\ want'[q] = want[q]
                                   /\ job'[q] = job[q] /\ tx'[q] = tx[q]
  BY <1>0 DEF CallerStep, AuthToken, Admit, RecordDenied, LockWallet, ReadTool, Authorize, Insert,
     Recheck, CommitReservation, Execute, FinishStep, LockCall, CreditWallet, PostCredit,
     CloseCall, RecoveryStep, Scan, Recover, Fail, Rest, Goto, auth
<1> SUFFICES Priced(p)' /\ Vouched(p)'
  BY <1>1, TermsOfOthers
<1>2. ASSUME pc'[p] \notin {"authorize", "insert", "recheck", "commit"}
      PROVE  Priced(p)' /\ Vouched(p)'
  BY <1>2 DEF Priced, Vouched
<1>3. CASE p \in Callers /\ ReadTool(p)
  BY <1>0, <1>2, <1>3 DEF ReadTool, Goto, Priced, Vouched, auth, TxRecords
<1>4. CASE p \in Callers /\ Authorize(p)
  <2>1. CASE pc'[p] = "insert"
    <3>1. /\ tx'[p] = [tx[p] EXCEPT !.cost = applyMultiplierBP(tx[p].cost, rate[role[Usr(p)]]),
                                    !.rate = rate[role[Usr(p)]]]
          /\ UNCHANGED <<want, tools, job>>
      BY <1>0, <1>4, <2>1 DEF Authorize, auth
    <3>2. /\ tx'[p].cost = applyMultiplierBP(tx[p].cost, rate[role[Usr(p)]])
          /\ tx'[p].rate = rate[role[Usr(p)]]
      BY <1>0, <3>1 DEF TxRecords
    <3>3. pc[p] = "authorize"
      BY <1>4 DEF Authorize
    <3> QED
      BY <1>0, <2>1, <3>1, <3>2, <3>3 DEF Priced, Vouched
  <2>2. CASE pc'[p] # "insert"
    BY <1>0, <1>2, <1>4, <2>2 DEF Authorize, Goto
  <2> QED
    BY <2>1, <2>2
<1>5. CASE p \in Callers /\ Insert(p)
  BY <1>0, <1>2, <1>5 DEF Insert, Goto, Priced, Vouched, Usr, Tok, auth
<1>6. CASE p \in Callers /\ Recheck(p)
  BY <1>0, <1>2, <1>6 DEF Recheck, RecheckPasses, Authorized, Goto, Priced, Vouched, Usr, Tok, auth
<1>7. CASE p \in Callers /\ CallerStep(p) /\ ~ReadTool(p) /\ ~Authorize(p) /\ ~Insert(p)
             /\ ~Recheck(p)
  BY <1>0, <1>2, <1>7 DEF CallerStep, AuthToken, Admit, RecordDenied, LockWallet,
     CommitReservation, Execute, Goto
<1>8. CASE FinishStep(p) \/ (p \in Replicas /\ RecoveryStep(p)) \/ Fail(p)
  BY <1>0, <1>2, <1>8 DEF FinishStep, LockCall, CreditWallet, PostCredit, CloseCall,
     RecoveryStep, Scan, Recover, Fail, Rest, Goto
<1> QED
  BY <1>3, <1>4, <1>5, <1>6, <1>7, <1>8

(* An admin who changes a tool or a user waits for whoever relies on it.   *)
LEMMA TermsAdmin ==
    ASSUME TypeInv, TermsHeld, AdminStep \/ CommitUser
    PROVE  TermsHeld'
<1>0. UNCHANGED <<pc, job, want, tx>>
  BY DEF AdminStep, CommitUser, AdminWrite, RevokeToken, RemoveMember, LockUser, SaveTool,
     UpdateBillingRole, AdjustBalance
<1> SUFFICES ASSUME NEW p \in Procs PROVE Priced(p)' /\ Vouched(p)'
  BY DEF TermsHeld
<1>1. Priced(p) /\ Vouched(p)
  BY DEF TermsHeld
<1>2. ASSUME NEW t \in Tools, SaveTool(t) PROVE Priced(p)' /\ Vouched(p)'
  <2>1. pc[p] \in {"authorize", "insert", "recheck", "commit"} => tools'[want[p]] = tools[want[p]]
    BY <1>2 DEF SaveTool, ToolFree, HoldsTool, TypeInv, TypeOK
  <2>2. UNCHANGED <<enabled, frozen>>
    BY <1>2 DEF SaveTool
  <2> QED
    BY <1>0, <1>1, <2>1, <2>2 DEF Priced, Vouched, Usr, Tok
<1>3. ASSUME NEW u \in Users, LockUser(u) PROVE Priced(p)' /\ Vouched(p)'
  BY <1>0, <1>1, <1>3 DEF LockUser, UserUnused, HoldsUser, Priced, Vouched, Usr, Tok
<1>4. CASE CommitUser
  <2>1. UNCHANGED tools /\ frozen' = NoUser
    BY <1>4 DEF CommitUser
  <2>2. \A u : u # frozen => (u \in enabled' <=> u \in enabled)
    BY <1>4 DEF CommitUser
  <2>3. pc[p] \in {"recheck", "commit"} => Usr(p) # NoUser
    BY MeteringAssumption, JobTyped DEF TypeInv, JobOK
  <2> QED
    BY <1>0, <1>1, <2>1, <2>2, <2>3 DEF Priced, Vouched, Usr, Tok
<1>5. CASE \/ \E t \in Tokens : RevokeToken(t)
           \/ \E w \in Wallets, u \in Users : RemoveMember(w, u)
           \/ \E r \in Roles : UpdateBillingRole(r)
           \/ \E w \in Wallets, d \in Adjustments : AdjustBalance(w, d)
  <2>1. UNCHANGED <<tools, enabled, frozen>>
    BY <1>5 DEF RevokeToken, RemoveMember, UpdateBillingRole, AdjustBalance, auth
  <2> QED
    BY <1>0, <1>1, <2>1 DEF Priced, Vouched, Usr, Tok
<1> QED
  BY <1>2, <1>3, <1>4, <1>5 DEF AdminStep

LEMMA TermsStep == TypeInv /\ TermsHeld /\ [Next]_vars => TermsHeld'
<1> SUFFICES ASSUME TypeInv, TermsHeld, [Next]_vars PROVE TermsHeld'
  OBVIOUS
<1>1. CASE UNCHANGED vars \/ Quiet
  BY <1>1 DEF Quiet, vars, TermsHeld, Priced, Vouched, Usr, Tok
<1>2. CASE \E c \in CallIds : Expire(c)
  BY <1>2 DEF Expire, auth, TermsHeld, Priced, Vouched, Usr, Tok
<1> QED
  BY <1>1, <1>2, TermsMove, TermsAdmin DEF Next, Procs

(* No reservation commits for a user who is disabled, on a tool that is    *)
(* disabled, or at a price that is no longer the tool's, although its      *)
(* transaction read all three statements earlier.                          *)
THEOREM ReservedOnTerms == Spec => ReservedAtCommit
<1> DEFINE Inv == MoneyInv /\ LedgerChain /\ TermsHeld
           Terms == \A c \in CallIds :
             usage[c].status = "none" /\ usage'[c].status = "pending" =>
               LET t == tools[usage'[c].tool]
               IN  /\ TokenUser[c[1]] \in enabled
                   /\ t.enabled
                   /\ usage'[c].requested = applyMultiplierBP(t.cost, usage'[c].rate)
<1>1. Init => Inv
  BY TypeInit, LocksInit, ChainInit, TermsInit DEF MoneyInv
<1>2. Inv /\ [Next]_vars => Inv'
  BY TypeStep, LocksStep, ChainStep, TermsStep DEF MoneyInv
<1>3. Inv /\ [Next]_vars => [Terms]_vars
  <2> SUFFICES ASSUME Inv, Next, NEW c \in CallIds,
                      usage[c].status = "none", usage'[c].status = "pending"
               PROVE  LET t == tools[usage'[c].tool]
                      IN  /\ TokenUser[c[1]] \in enabled
                          /\ t.enabled
                          /\ usage'[c].requested = applyMultiplierBP(t.cost, usage'[c].rate)
    OBVIOUS
  <2>0. usage \in [CallIds -> UsageRows]
    BY DEF MoneyInv, TypeInv, TypeOK
  <2>1. PICK p \in Callers : CommitReservation(p)
    <3>1. usage' # usage
      OBVIOUS
    <3>2. ASSUME NEW p \in Callers, CallerStep(p) PROVE CommitReservation(p)
      <4>1. CASE RecordDenied(p)
        BY <2>0, <3>1, <4>1 DEF RecordDenied, NoRow
      <4> QED
        BY <3>1, <3>2, <4>1 DEF CallerStep, AuthToken, Admit, LockWallet, ReadTool, Authorize,
           Insert, Recheck, Execute, db
    <3>3. ASSUME NEW p \in Procs, FinishStep(p) PROVE FALSE
      <4>1. LockCall(p) \/ CloseCall(p)
        BY <3>1, <3>3 DEF FinishStep, CreditWallet, PostCredit, db
      <4>2. job[p] \in CallIds
        BY <4>1 DEF LockCall, CloseCall, MoneyInv, TypeInv, JobOK
      <4>3. CASE LockCall(p)
        BY <2>0, <4>3 DEF LockCall, UsageRows
      <4>4. CASE CloseCall(p)
        <5>1. usage'[job[p]].status \in Settled
          BY <2>0, <4>2, <4>4 DEF CloseCall, UsageRows, MoneyInv, TypeInv, TypeOK
        <5> QED
          BY <2>0, <4>2, <4>4, <5>1 DEF CloseCall, Settled
      <4> QED
        BY <4>1, <4>3, <4>4
    <3>4. ~\E d \in CallIds : Expire(d)
      BY <2>0 DEF Expire, UsageRows
    <3>5. ASSUME \/ \E r \in Replicas : RecoveryStep(r)
                 \/ \E p \in Procs : Fail(p)
                 \/ CommitUser \/ AdminStep \/ Quiet
          PROVE  FALSE
      BY <3>1, <3>5 DEF RecoveryStep, Scan, Recover, Fail, CommitUser, AdminStep, Quiet, db, vars,
         AdminWrite, RevokeToken, RemoveMember, LockUser, SaveTool, UpdateBillingRole, AdjustBalance
    <3> QED
      BY <3>2, <3>3, <3>4, <3>5 DEF Next
  <2>2. p \in Procs /\ pc[p] = "commit" /\ Priced(p) /\ Vouched(p)
    BY <2>1 DEF CommitReservation, Procs, TermsHeld
  <2>3. c = job[p]
    BY <2>0, <2>1 DEF CommitReservation
  <2>4. /\ usage'[c].tool = want[p] /\ usage'[c].requested = tx[p].cost
        /\ usage'[c].rate = tx[p].rate
    BY <2>0, <2>1, <2>3 DEF CommitReservation, NoRow
  <2> QED
    BY <2>2, <2>3, <2>4 DEF Priced, Vouched, Usr, Tok
<1> QED
  BY <1>1, <1>2, <1>3, PTL DEF Spec, ReservedAtCommit

-----------------------------------------------------------------------------
\* Nothing runs for free

(* With fresh keys no two callers share a call, a row that exists is some  *)
(* caller's, a caller that has not committed has none, and recovery works  *)
(* on overdue rows only.                                                   *)
CallersApart ==
    \A p, q \in Callers : job[p] # NoCall /\ job[p] = job[q] => p = q
IdleFree == \A p \in Callers : pc[p] = "idle" => job[p] = NoCall
RowsOwned ==
    \A c \in CallIds : usage[c].status # "none" => \E q \in Callers : job[q] = c
NoRowYet ==
    \A p \in Callers :
        pc[p] \in {"admit", "reserve", "price", "authorize", "insert", "recheck", "commit"} =>
            usage[job[p]].status = "none"
OverdueRows == \A c \in CallIds : usage[c].overdue => usage[c].status # "none"
RecoversOverdue ==
    \A r \in Replicas :
        /\ pc[r] # "idle" => /\ pc[r] # "done" /\ verdict[r] = "recovered"
                             /\ usage[job[r]].overdue
        /\ \A c \in batch[r] : usage[c].overdue
ExecutionInv ==
    /\ CallersApart /\ IdleFree /\ RowsOwned /\ NoRowYet /\ OverdueRows /\ RecoversOverdue
    /\ NoFreeExecution

LEMMA ExecutionInit == Init => ExecutionInv
BY DEF Init, ExecutionInv, CallersApart, IdleFree, RowsOwned, NoRowYet, OverdueRows,
       RecoversOverdue, NoFreeExecution, NoRow, Procs

(* What a step may do to the rows of calls.                                *)
Aged ==
    \A c \in CallIds :
        /\ usage[c].overdue => usage'[c].overdue
        /\ usage'[c].overdue => usage'[c].status # "none"
        /\ usage'[c].status = "none" <=> usage[c].status = "none"
        /\ usage[c].status = "recovered" => usage'[c].status = "recovered"

LEMMA AgedBySettling ==
    ASSUME MoneyInv, OverdueRows, \/ \E p \in Procs : FinishStep(p)
                                  \/ \E c \in CallIds : Expire(c)
                                  \/ UNCHANGED usage
    PROVE  Aged
<1>0. usage \in [CallIds -> UsageRows]
  BY DEF MoneyInv, TypeInv, TypeOK
<1>1. ASSUME NEW p \in Procs, LockCall(p) PROVE Aged
  BY <1>0, <1>1 DEF LockCall, Aged, OverdueRows, UsageRows
<1>2. ASSUME NEW p \in Procs, CloseCall(p) PROVE Aged
  <2>1. /\ job[p] \in CallIds /\ usage[job[p]].status = "pending"
        /\ verdict[p] \in Settled
    <3>1. pc[p] = "close" /\ HoldsCall(p, job[p])
      BY <1>2 DEF CloseCall, HoldsCall
    <3> QED
      BY <3>1, PostersTyped DEF MoneyInv, LockDiscipline, RowsHeld, TypeInv, TypeOK
  <2>2. /\ usage'[job[p]].status = verdict[p]
        /\ usage'[job[p]].overdue = usage[job[p]].overdue
        /\ \A c \in CallIds : c # job[p] => usage'[c] = usage[c]
    BY <1>0, <1>2, <2>1 DEF CloseCall, UsageRows
  <2> QED
    BY <2>1, <2>2 DEF Aged, OverdueRows, Settled
<1>3. ASSUME NEW c \in CallIds, Expire(c) PROVE Aged
  BY <1>0, <1>3 DEF Expire, Aged, OverdueRows, UsageRows
<1> QED
  BY <1>1, <1>2, <1>3 DEF FinishStep, CreditWallet, PostCredit, db, Aged, OverdueRows

(* A caller before its commit.                                             *)
LEMMA ExecutionByCaller ==
    ASSUME MoneyInv, ExecutionInv, KeysFresh, NEW p \in Callers, CallerStep(p)
    PROVE  ExecutionInv'
<1>0. /\ p \in Procs /\ pc \in [Procs -> Phases] /\ usage \in [CallIds -> UsageRows]
      /\ job \in [Procs -> CallIds \cup {NoCall}] /\ verdict \in [Procs -> Settled]
      /\ Callers \cap Replicas = {} /\ Callers \subseteq Procs /\ Replicas \subseteq Procs
      /\ JobOK
  BY MeteringAssumption DEF MoneyInv, TypeInv, TypeOK, Procs
<1>1. \A q \in Procs : q # p => pc'[q] = pc[q] /\ job'[q] = job[q] /\ verdict'[q] = verdict[q]
  BY <1>0 DEF CallerStep, AuthToken, Admit, RecordDenied, LockWallet, ReadTool, Authorize, Insert,
     Recheck, CommitReservation, Execute, Goto
<1>2. batch' = batch
  BY DEF CallerStep, AuthToken, Admit, RecordDenied, LockWallet, ReadTool, Authorize, Insert,
     Recheck, CommitReservation, Execute
<1> USE DEF ExecutionInv, CallersApart, IdleFree, RowsOwned, NoRowYet, OverdueRows,
     RecoversOverdue, NoFreeExecution
<1>3. CASE AuthToken(p)
  <2>1. PICK r \in Requests : /\ \A q \in Callers : job[q] # r.call
                              /\ job' = [job EXCEPT ![p] = r.call]
                              /\ pc'[p] \in {"admit", "done"}
    <3>1. PICK r \in Requests : /\ KeysFresh => \A q \in Callers : job[q] # r.call
                                /\ job' = [job EXCEPT ![p] = r.call]
                                /\ Goto(p, IF Authorized(r.call[1]) THEN "admit" ELSE "done")
      BY <1>3 DEF AuthToken
    <3>2. pc'[p] \in {"admit", "done"}
      BY <1>0, <3>1 DEF Goto
    <3> QED
      BY <3>1, <3>2
  <2>2. r.call \in CallIds /\ usage' = usage /\ job[p] = NoCall
    BY <1>3, MeteringAssumption DEF AuthToken, db
  <2>3. usage[r.call].status = "none"
    BY <2>1, <2>2
  <2>4. \A c \in CallIds : c # NoCall
    BY CallTyped
  <2>5. RowsOwned'
    BY <1>0, <1>1, <2>1, <2>2, <2>4
  <2> QED
    BY <1>0, <1>1, <1>2, <2>1, <2>2, <2>3, <2>5
<1>4. CASE RecordDenied(p) \/ CommitReservation(p)
  <2>1. /\ job[p] \in CallIds /\ job' = job
        /\ \A c \in CallIds : c # job[p] => usage'[c] = usage[c]
    BY <1>0, <1>4 DEF RecordDenied, CommitReservation, JobOK
  <2>2. /\ usage'[job[p]].status # "none"
        /\ \/ usage'[job[p]] = usage[job[p]]
           \/ ~usage'[job[p]].overdue /\ usage[job[p]].status = "none"
        /\ \/ pc'[p] \in {"done", "finish"}
           \/ pc'[p] = "execute" /\ usage'[job[p]].status = "pending"
    <3>1. CASE RecordDenied(p)
      BY <1>0, <2>1, <3>1 DEF RecordDenied, NoRow, Goto
    <3>2. CASE CommitReservation(p)
      <4>1. /\ usage'[job[p]].status =
                 IF Covers(tx[p].read, tx[p].cost) THEN "pending" ELSE "denied"
            /\ ~usage'[job[p]].overdue /\ usage[job[p]].status = "none"
        BY <1>0, <2>1, <3>2 DEF CommitReservation, NoRow
      <4>2. pc'[p] = IF Covers(tx[p].read, tx[p].cost) THEN "execute" ELSE "finish"
        BY <1>0, <3>2 DEF CommitReservation, Goto
      <4> QED
        BY <4>1, <4>2
    <3> QED
      BY <1>4, <3>1, <3>2
  <2>4. \A q \in Callers : q # p => job[q] # job[p]
    BY <2>1, CallTyped
  <2>5. \A r \in Replicas : pc[r] # "idle" => job[r] \in CallIds /\ usage[job[r]].status # "none"
    <3> SUFFICES ASSUME NEW r \in Replicas, pc[r] # "idle"
                 PROVE  job[r] \in CallIds /\ usage[job[r]].status # "none"
      OBVIOUS
    <3>1. job[r] \in CallIds /\ usage[job[r]].overdue
      BY <1>0 DEF JobOK
    <3> QED
      BY <3>1
  <2> QED
    <3>1. CallersApart' /\ IdleFree'
      BY <1>0, <1>1, <2>1, <2>2
    <3>2. RowsOwned' /\ OverdueRows'
      BY <2>1, <2>2
    <3>3. NoRowYet' /\ NoFreeExecution'
      BY <1>0, <1>1, <2>1, <2>2, <2>4 DEF JobOK
    <3>4. RecoversOverdue'
      <4>1. \A c \in CallIds : usage[c].overdue => usage'[c].overdue
        BY <2>1, <2>2
      <4>2. \A r \in Replicas : pc'[r] = pc[r] /\ job'[r] = job[r] /\ verdict'[r] = verdict[r]
        BY <1>0, <1>1
      <4>3. \A r \in Replicas : batch[r] \subseteq CallIds
        BY DEF MoneyInv, TypeInv, TypeOK
      <4> QED
        BY <1>2, <2>5, <4>1, <4>2, <4>3
    <3> QED
      BY <3>1, <3>2, <3>3, <3>4
<1>5. CASE Authorize(p)
  <2>1. job[p] \in CallIds /\ usage[job[p]].status = "none" /\ job' = job /\ usage' = usage
    BY <1>0, <1>5 DEF Authorize, JobOK, db
  <2>2. pc'[p] \in {"done", "refuse", "insert"}
    BY <1>0, <1>5, <2>1 DEF Authorize, Goto
  <2> QED
    BY <1>0, <1>1, <1>2, <2>1, <2>2
<1>6. CASE \/ Admit(p) \/ LockWallet(p) \/ ReadTool(p) \/ Insert(p) \/ Recheck(p) \/ Execute(p)
  <2>1. job' = job /\ usage' = usage
    BY <1>6 DEF Admit, LockWallet, ReadTool, Insert, Recheck, Execute, db
  <2>2. \/ pc'[p] \in {"done", "refuse", "finish"}
        \/ /\ pc'[p] \in {"reserve", "price", "authorize", "recheck", "commit"}
           /\ usage[job[p]].status = "none"
    BY <1>0, <1>6 DEF Admit, LockWallet, ReadTool, Insert, Recheck, Execute, Goto
  <2> QED
    BY <1>0, <1>1, <1>2, <2>1, <2>2
<1> QED
  BY <1>3, <1>4, <1>5, <1>6 DEF CallerStep

(* Settling, recovery, time, failures, accounts and admins: rows only age, *)
(* and no caller starts or executes anything.                              *)
LEMMA ExecutionByOthers ==
    ASSUME MoneyInv, ExecutionInv,
           \/ \E p \in Procs : FinishStep(p) \/ Fail(p)
           \/ \E r \in Replicas : RecoveryStep(r)
           \/ \E c \in CallIds : Expire(c)
           \/ AdminStep \/ CommitUser \/ Quiet \/ UNCHANGED vars
    PROVE  ExecutionInv'
<1>0. /\ pc \in [Procs -> Phases] /\ usage \in [CallIds -> UsageRows]
      /\ job \in [Procs -> CallIds \cup {NoCall}] /\ verdict \in [Procs -> Settled]
      /\ batch \in [Replicas -> SUBSET CallIds]
      /\ Callers \cap Replicas = {} /\ Callers \subseteq Procs /\ Replicas \subseteq Procs
      /\ JobOK
  BY MeteringAssumption DEF MoneyInv, TypeInv, TypeOK, Procs
<1>1. Aged
  <2>1. ASSUME \/ \E p \in Procs : Fail(p)
               \/ \E r \in Replicas : RecoveryStep(r)
               \/ AdminStep \/ CommitUser \/ Quiet \/ UNCHANGED vars
        PROVE  UNCHANGED usage
    BY <2>1 DEF Fail, RecoveryStep, Scan, Recover, AdminStep, CommitUser, Quiet, vars, db,
       AdminWrite, RevokeToken, RemoveMember, LockUser, SaveTool, UpdateBillingRole, AdjustBalance
  <2> QED
    BY <2>1, AgedBySettling DEF ExecutionInv
<1>2. \A p \in Callers :
        /\ job'[p] = job[p]
        /\ pc'[p] = pc[p] \/ (pc[p] # "idle" /\ pc'[p] \in {"settle", "post", "close", "done"})
  <2>1. ASSUME NEW q \in Procs, FinishStep(q), NEW p \in Callers
        PROVE  /\ job'[p] = job[p]
               /\ \/ pc'[p] = pc[p]
                  \/ pc[p] # "idle" /\ pc'[p] \in {"settle", "post", "close", "done"}
    BY <1>0, <2>1 DEF FinishStep, LockCall, CreditWallet, PostCredit, CloseCall, Rest, Goto
  <2>2. ASSUME NEW q \in Procs, Fail(q), NEW p \in Callers
        PROVE  job'[p] = job[p] /\ (pc'[p] = pc[p] \/ (pc[p] # "idle" /\ pc'[p] = "done"))
    BY <1>0, <2>2 DEF Fail, Rest, Goto
  <2>3. ASSUME NEW r \in Replicas, RecoveryStep(r), NEW p \in Callers
        PROVE  job'[p] = job[p] /\ pc'[p] = pc[p]
    BY <1>0, <2>3 DEF RecoveryStep, Scan, Recover, Goto
  <2>4. ASSUME \/ \E c \in CallIds : Expire(c)
               \/ AdminStep \/ CommitUser \/ Quiet \/ UNCHANGED vars
        PROVE  UNCHANGED <<pc, job>>
    BY <2>4 DEF Expire, AdminStep, CommitUser, Quiet, vars, AdminWrite, RevokeToken,
       RemoveMember, LockUser, SaveTool, UpdateBillingRole, AdjustBalance
  <2> QED
    BY <2>1, <2>2, <2>3, <2>4
<1>3. \A r \in Replicas :
        /\ pc'[r] # "idle" => /\ pc'[r] # "done" /\ verdict'[r] = "recovered"
                              /\ job'[r] \in CallIds /\ usage[job'[r]].overdue
        /\ \A c \in batch'[r] : c \in CallIds /\ usage[c].overdue
  <2> SUFFICES ASSUME NEW r \in Replicas
               PROVE  /\ pc'[r] # "idle" => /\ pc'[r] # "done" /\ verdict'[r] = "recovered"
                                            /\ job'[r] \in CallIds /\ usage[job'[r]].overdue
                      /\ \A c \in batch'[r] : c \in CallIds /\ usage[c].overdue
    OBVIOUS
  <2>0. /\ pc[r] # "idle" => /\ pc[r] # "done" /\ verdict[r] = "recovered"
                             /\ job[r] \in CallIds /\ usage[job[r]].overdue
        /\ \A c \in batch[r] : c \in CallIds /\ usage[c].overdue
    BY <1>0 DEF ExecutionInv, RecoversOverdue, JobOK
  <2>1. ASSUME NEW q \in Procs, FinishStep(q)
        PROVE  /\ verdict'[r] = verdict[r] /\ batch' = batch
               /\ \/ pc'[r] = pc[r] /\ job'[r] = job[r]
                  \/ pc'[r] = "idle"
                  \/ /\ pc[r] # "idle" /\ job'[r] = job[r]
                     /\ pc'[r] \in {"settle", "post", "close"}
    <3>1. CASE LockCall(q)
      BY <1>0, <3>1 DEF LockCall, Rest, Goto
    <3>2. CASE CreditWallet(q) \/ PostCredit(q)
      BY <1>0, <3>2 DEF CreditWallet, PostCredit, Goto
    <3>3. CASE CloseCall(q)
      BY <1>0, <3>3 DEF CloseCall, Rest, Goto
    <3> QED
      BY <2>1, <3>1, <3>2, <3>3 DEF FinishStep
  <2>2. ASSUME NEW q \in Procs, Fail(q)
        PROVE  /\ verdict' = verdict /\ batch'[r] \subseteq batch[r]
               /\ \/ pc'[r] = pc[r] /\ job'[r] = job[r]
                  \/ pc'[r] = "idle"
    BY <1>0, <2>2 DEF Fail, Rest, Goto
  <2>3. ASSUME NEW s \in Replicas, Scan(s)
        PROVE  /\ UNCHANGED <<pc, job, verdict>>
               /\ \A c \in batch'[r] : c \in CallIds /\ (c \in batch[r] \/ usage[c].overdue)
    BY <1>0, <2>3 DEF Scan, Recoverable
  <2>4. ASSUME NEW s \in Replicas, Recover(s)
        PROVE  /\ batch'[r] \subseteq batch[r]
               /\ \/ pc'[r] = pc[r] /\ job'[r] = job[r] /\ verdict'[r] = verdict[r]
                  \/ pc'[r] = "finish" /\ verdict'[r] = "recovered" /\ job'[r] \in batch[r]
    <3>1. PICK c \in batch[s] : /\ job' = [job EXCEPT ![s] = c]
                                /\ batch' = [batch EXCEPT ![s] = @ \ {c}]
      BY <2>4 DEF Recover
    <3> QED
      BY <1>0, <2>4, <3>1 DEF Recover, Goto
  <2>5. ASSUME \/ \E c \in CallIds : Expire(c)
               \/ AdminStep \/ CommitUser \/ Quiet \/ UNCHANGED vars
        PROVE  UNCHANGED <<pc, job, verdict, batch>>
    BY <2>5 DEF Expire, AdminStep, CommitUser, Quiet, vars, AdminWrite, RevokeToken,
       RemoveMember, LockUser, SaveTool, UpdateBillingRole, AdjustBalance
  <2>6. CASE \E q \in Procs : FinishStep(q)
    BY <2>0, <2>1, <2>6
  <2>7. CASE \E q \in Procs : Fail(q)
    BY <2>0, <2>2, <2>7
  <2>8. CASE \E s \in Replicas : RecoveryStep(s)
    BY <2>0, <2>3, <2>4, <2>8 DEF RecoveryStep
  <2> QED
    BY <2>0, <2>5, <2>6, <2>7, <2>8
<1>4. CallersApart' /\ IdleFree' /\ RowsOwned'
  BY <1>1, <1>2 DEF ExecutionInv, CallersApart, IdleFree, RowsOwned, Aged
<1>5. NoRowYet'
  BY <1>0, <1>1, <1>2 DEF ExecutionInv, NoRowYet, Aged, JobOK
<1>6. OverdueRows' /\ RecoversOverdue'
  BY <1>1, <1>3 DEF OverdueRows, RecoversOverdue, Aged
<1>7. NoFreeExecution'
  <2> SUFFICES ASSUME NEW p \in Callers, pc'[p] = "execute"
               PROVE  \/ usage'[job[p]].status = "pending"
                      \/ usage'[job[p]].status = "recovered" /\ usage'[job[p]].overdue
    BY <1>2 DEF NoFreeExecution
  <2>1. pc[p] = "execute" /\ job[p] \in CallIds
    BY <1>0, <1>2 DEF JobOK
  <2>2. CASE usage[job[p]].status = "recovered" /\ usage[job[p]].overdue
    BY <1>1, <2>1, <2>2 DEF Aged
  <2>3. CASE usage[job[p]].status = "pending"
    <3>1. ASSUME usage'[job[p]].status # "pending"
          PROVE  \E q \in Procs : CloseCall(q) /\ job[q] = job[p]
      <4>1. usage'[job[p]].status # usage[job[p]].status
        BY <2>3, <3>1
      <4>2. ASSUME NEW q \in Procs, LockCall(q) PROVE FALSE
        BY <1>0, <2>1, <4>1, <4>2 DEF LockCall, UsageRows
      <4>3. ASSUME NEW c \in CallIds, Expire(c) PROVE FALSE
        BY <1>0, <2>1, <4>1, <4>3 DEF Expire, UsageRows
      <4>4. ASSUME \/ \E q \in Procs : CreditWallet(q) \/ PostCredit(q) \/ Fail(q)
                   \/ \E r \in Replicas : RecoveryStep(r)
                   \/ AdminStep \/ CommitUser \/ Quiet \/ UNCHANGED vars
            PROVE  FALSE
        BY <4>1, <4>4 DEF CreditWallet, PostCredit, Fail, RecoveryStep, Scan, Recover, AdminStep,
           CommitUser, Quiet, vars, db, AdminWrite, RevokeToken, RemoveMember, LockUser, SaveTool,
           UpdateBillingRole, AdjustBalance
      <4>5. PICK q \in Procs : CloseCall(q)
        BY <4>2, <4>3, <4>4 DEF FinishStep
      <4>6. job[q] = job[p]
        BY <1>0, <2>1, <4>1, <4>5 DEF CloseCall
      <4> QED
        BY <4>5, <4>6
    <3>2. CASE usage'[job[p]].status = "pending"
      BY <3>2
    <3>3. CASE usage'[job[p]].status # "pending"
      <4>1. PICK q \in Procs : CloseCall(q) /\ job[q] = job[p]
        BY <3>1, <3>3
      <4>2. q \notin Callers
        <5>1. pc[q] = "close"
          BY <4>1 DEF CloseCall
        <5>2. job[p] # NoCall
          BY <2>1, CallTyped
        <5> QED
          BY <2>1, <4>1, <5>1, <5>2 DEF ExecutionInv, CallersApart
      <4>3. q \in Replicas /\ verdict[q] = "recovered" /\ usage[job[p]].overdue
        BY <4>1, <4>2 DEF Procs, ExecutionInv, RecoversOverdue, CloseCall
      <4>4. usage'[job[p]].status = "recovered"
        BY <1>0, <2>1, <4>1, <4>3 DEF CloseCall, UsageRows
      <4> QED
        BY <1>1, <2>1, <4>3, <4>4 DEF Aged
    <3> QED
      BY <3>2, <3>3
  <2> QED
    BY <2>1, <2>2, <2>3 DEF ExecutionInv, NoFreeExecution
<1> QED
  BY <1>4, <1>5, <1>6, <1>7 DEF ExecutionInv

(* Where callers draw fresh request keys, as the gateway does, a tool runs *)
(* only while its price is held, or after recovery returned a reservation  *)
(* that had become overdue: for any number of callers and replicas.        *)
THEOREM NothingRunsFree == KeysFresh => (Spec => []NoFreeExecution)
<1> SUFFICES ASSUME KeysFresh PROVE Spec => []NoFreeExecution
  OBVIOUS
<1> DEFINE Inv == MoneyInv /\ LedgerChain /\ ExecutionInv
<1>1. Init => Inv
  BY TypeInit, LocksInit, ChainInit, ExecutionInit DEF MoneyInv
<1>2. Inv /\ [Next]_vars => Inv'
  <2>1. MoneyInv /\ ExecutionInv /\ [Next]_vars => ExecutionInv'
    BY ExecutionByCaller, ExecutionByOthers DEF Next
  <2> QED
    BY <2>1, TypeStep, LocksStep, ChainStep DEF MoneyInv
<1>3. Inv => NoFreeExecution
  BY DEF ExecutionInv
<1> QED
  BY <1>1, <1>2, <1>3, PTL DEF Spec
=============================================================================

--------------------------- MODULE ThreeChainProofs ---------------------------
(***************************************************************************)
(* Theorems about ThreeChain: type correctness, the order in which the     *)
(* script takes effect, and that it implements CrossDomainAuth.            *)
(***************************************************************************)
EXTENDS ThreeChain, TLAPS

USE DEF RegisterA, RegisterB, IssueA, IssueB, RootA, RootB, RelayA, RelayB,
        ReadAll, Record, Confirm, End, Sides, Root, Roots, TxSteps

IInv == TypeOK /\ ScriptInv

LEMMA FactsType == Facts \subseteq Conditions
  BY DEF Facts

LEMMA InitInv == Init => IInv
  BY ChainsAssumption, FactsType
  DEF Init, IInv, TypeOK, ScriptInv, PrefixApplied, Checkpoints, CertRecords,
      Checking, Conditions, Reads

\* The contract calls keep the types of the contracts' state.
ContractTypes ==
    /\ ca \in [Sides -> [operator : Accounts \cup {None}, active : BOOLEAN]]
    /\ cp \in [Sides -> Checkpoints]
    /\ cert \in [Sides -> CertRecords]
    /\ root \in [Sides -> Roots]
    /\ result \in [source : Sides \cup {None}, hash : Hashes \cup {None},
                   checkpoint : Roots, accepted : BOOLEAN]

LEMMA RegisterCAType ==
  ASSUME ContractTypes, NEW c \in Sides, NEW o \in Accounts, RegisterCA(c, o)
  PROVE  ContractTypes'
  BY DEF ContractTypes, RegisterCA, sideVars

LEMMA SetCAStatusType ==
  ASSUME ContractTypes, NEW c \in Sides, NEW o \in Accounts, NEW b \in BOOLEAN,
         SetCAStatus(c, o, b)
  PROVE  ContractTypes'
  BY DEF ContractTypes, SetCAStatus, sideVars

LEMMA SubmitCheckpointType ==
  ASSUME ContractTypes, NEW s \in Sides, NEW c \in Sides, NEW o \in Accounts,
         NEW r \in Roots, SubmitCheckpoint(s, c, o, r)
  PROVE  ContractTypes'
  BY DEF ContractTypes, SubmitCheckpoint, sideVars, Checkpoints

LEMMA IssueCertificateType ==
  ASSUME ContractTypes, NEW s \in Sides, NEW h \in Hashes,
         NEW w \in {"early", "open", "over"}, IssueCertificate(s, h, w)
  PROVE  ContractTypes'
  BY DEF ContractTypes, IssueCertificate, mainVars, CertRecords

LEMMA RevokeCertificateType ==
  ASSUME ContractTypes, NEW s \in Sides, RevokeCertificate(s)
  PROVE  ContractTypes'
  BY DEF ContractTypes, RevokeCertificate, mainVars, CertRecords

LEMMA UpdateStateRootType ==
  ASSUME ContractTypes, NEW s \in Sides, NEW r \in Roots, UpdateStateRoot(s, r)
  PROVE  ContractTypes'
  BY DEF ContractTypes, UpdateStateRoot, mainVars

LEMMA RecordType ==
  ASSUME ContractTypes, NEW s \in Sides, NEW h \in Hashes, NEW r \in Roots,
         NEW b \in BOOLEAN, RecordCrossDomainAuthentication(s, h, r, b)
  PROVE  ContractTypes'
  BY DEF ContractTypes, RecordCrossDomainAuthentication, mainVars

LEMMA ClockPassesType ==
  ASSUME ContractTypes, NEW s \in Sides, ClockPasses(s)
  PROVE  ContractTypes'
  BY DEF ContractTypes, ClockPasses, mainVars, CertRecords

\* What the script keeps, and what the history keeps.
ScriptTypes ==
    /\ pc \in RegisterA..End
    /\ st \in {"run", "wait", "done", "failed"}
    /\ pool \in TxSteps \cup {0}
    /\ receipt \in {"ok", "reverted"}
    /\ got = [r \in Reads |-> got[r]]
    /\ got["cert"] \in Hashes \cup {None}
    /\ got["valid"] \in BOOLEAN \cup {None}
    /\ got["checkpoint"] \in Checkpoints \cup {None}
    /\ got["ca"] \in BOOLEAN \cup {None}
    /\ calls \in 0..MaxCalls
    /\ applied \subseteq TxSteps

LEMMA TypeParts ==
    TypeOK <=> ContractTypes /\ ScriptTypes /\ seen \subseteq Conditions
  BY DEF TypeOK, ContractTypes, ScriptTypes

LEMMA TypePartsNext ==
    ContractTypes' /\ ScriptTypes' /\ seen' \subseteq Conditions => TypeOK'
  BY DEF TypeOK, ContractTypes, ScriptTypes, Conditions

LEMMA SeenType ==
  ASSUME seen \subseteq Conditions, Observe
  PROVE  seen' \subseteq Conditions
  BY DEF Observe, Facts, Conditions

\* A transaction of the script.
LEMMA ExecuteType ==
  ASSUME IInv, pool # 0, Execute(pool)
  PROVE  ContractTypes'
<1>. USE TypeParts, ChainsAssumption DEF IInv
<1>a. Me \in Accounts /\ Own \in Hashes /\ "A" \in Sides /\ "B" \in Sides
      /\ Root("A") \in Roots /\ Root("B") \in Roots /\ ContractTypes
      /\ "open" \in {"early", "open", "over"} /\ TRUE \in BOOLEAN
  OBVIOUS
<1>1. CASE RegisterCA("A", Me) \/ RegisterCA("B", Me)
  BY <1>1, <1>a, RegisterCAType
<1>2. CASE IssueCertificate("A", Own, "open") \/ IssueCertificate("B", Own, "open")
  BY <1>2, <1>a, IssueCertificateType
<1>3. CASE UpdateStateRoot("A", Root("A")) \/ UpdateStateRoot("B", Root("B"))
  BY <1>3, <1>a, UpdateStateRootType
<1>4. CASE SubmitCheckpoint("A", "A", Me, Root("A"))
           \/ SubmitCheckpoint("B", "B", Me, Root("B"))
  BY <1>4, <1>a, SubmitCheckpointType
<1>5. CASE /\ pool = Record
           /\ RecordCrossDomainAuthentication("A", Own, got["checkpoint"].root, TRUE)
  <2>1. got["checkpoint"].root \in Roots
    BY <1>5 DEF ScriptInv, Accepted
  <2>. QED
    BY <1>5, <2>1, <1>a, RecordType
<1>. QED
  BY <1>1, <1>2, <1>3, <1>4, <1>5 DEF Execute

\* A call of another account.
LEMMA OthersType ==
  ASSUME IInv, Others
  PROVE  ContractTypes'
<1>1. ContractTypes
  BY TypeParts DEF IInv
<1>. QED
  BY <1>1, RegisterCAType, SetCAStatusType, SubmitCheckpointType,
     IssueCertificateType, RevokeCertificateType, UpdateStateRootType,
     RecordType, ClockPassesType DEF Others

\* The contracts' state is the same unless a call changes it.
LEMMA SameContracts ==
  ASSUME ContractTypes, UNCHANGED <<mainVars, sideVars>>
  PROVE  ContractTypes' /\ Facts' = Facts
  BY DEF ContractTypes, mainVars, sideVars, Facts, VerifyCertificate, Conditions

LEMMA AnswerType ==
  ASSUME ContractTypes, ScriptTypes, NEW r \in Reads, Read(r)
  PROVE  ScriptTypes'
<1>1. /\ cert["A"].hash \in Hashes \cup {None}
      /\ VerifyCertificate("A", Own) \in BOOLEAN
      /\ cp["A"] \in Checkpoints
      /\ ca["A"].active \in BOOLEAN
  BY DEF ContractTypes, VerifyCertificate, CertRecords
<1>. QED
  BY <1>1 DEF Read, Answer, ScriptTypes, Reads

-------------------------------------------------------------------------------
(* Every action keeps the invariant.                                       *)

LEMMA SendTxInv == ASSUME IInv, SendTx, Observe PROVE IInv'
<1>1. TypeOK'
  BY SameContracts, SeenType, TypeParts, TypePartsNext
  DEF SendTx, IInv, ScriptTypes
<1>2. ScriptInv'
  BY DEF SendTx, Observe, IInv, ScriptInv, PrefixApplied, Checking, Accepted
<1>. QED
  BY <1>1, <1>2 DEF IInv

LEMMA ReceiptInv == ASSUME IInv, Receipt, Observe PROVE IInv'
<1>1. TypeOK'
  BY SameContracts, SeenType, TypeParts, TypePartsNext
  DEF Receipt, IInv, ScriptTypes, ScriptInv
<1>2. PrefixApplied'
  BY DEF Receipt, IInv, TypeOK, ScriptInv, PrefixApplied
<1>3. pc' > ReadAll => Accepted' /\ (Conditions \subseteq seen)'
  BY DEF Receipt, IInv, TypeOK, ScriptInv, Accepted, Observe, Checking, Conditions
<1>4. Checking' => /\ (Facts \subseteq seen)'
                   /\ pc = RelayB \/ pc = ReadAll
  BY DEF Receipt, IInv, TypeOK, Observe, Checking
<1>5. Checking' => got' = [r \in Reads |-> None]
  BY <1>4 DEF Receipt, IInv, TypeOK, ScriptInv, Checking
<1>6. pc' < ReadAll => got' = [r \in Reads |-> None] /\ seen' = {}
  BY DEF Receipt, IInv, TypeOK, ScriptInv, Observe, Checking
<1>7. pool' = 0 /\ st' \in {"run", "failed"}
  BY DEF Receipt
<1>8. Checking' => /\ got'["valid"] # TRUE /\ got'["ca"] # TRUE
                   /\ got'["checkpoint"] # [ca |-> "A", root |-> Root("A")]
  <2>0. None # TRUE
    BY ChainsAssumption, Zenon
  <2>1. None # [ca |-> "A", root |-> Root("A")]
    BY ChainsAssumption
  <2>2. Checking' => got'["valid"] = None /\ got'["ca"] = None
                     /\ got'["checkpoint"] = None
    BY <1>5 DEF Reads
  <2>. QED
    BY <2>0, <2>1, <2>2
<1>. QED
  BY <1>1, <1>2, <1>3, <1>4, <1>6, <1>7, <1>8 DEF IInv, ScriptInv

LEMMA TimeoutInv ==
  ASSUME IInv, Timeout \/ CallFails, Observe
  PROVE  IInv'
<1>1. TypeOK'
  BY SameContracts, SeenType, TypeParts, TypePartsNext
  DEF Timeout, CallFails, IInv, ScriptTypes
<1>. QED
  BY <1>1 DEF Timeout, CallFails, Observe, IInv, ScriptInv, PrefixApplied,
              Checking, Accepted

LEMMA ReadInv == ASSUME IInv, NEW r \in Reads, Read(r), Observe PROVE IInv'
<1>1. TypeOK'
  BY SameContracts, SeenType, TypeParts, TypePartsNext, AnswerType DEF Read, IInv
<1>2. Facts' = Facts /\ Facts \subseteq seen /\ seen' = seen /\ Checking /\ Checking'
  BY SameContracts, TypeParts DEF Read, IInv, ScriptInv, Checking, Observe
<1>3. /\ VerifyCertificate("A", Own) => "certificate" \in seen
      /\ ca["A"].active => "authority" \in seen
      /\ cp["A"] = [ca |-> "A", root |-> Root("A")] => "checkpoint" \in seen
  BY <1>2 DEF Facts, Conditions
<1>4. /\ got'["valid"] = TRUE => "certificate" \in seen'
      /\ got'["ca"] = TRUE => "authority" \in seen'
      /\ got'["checkpoint"] = [ca |-> "A", root |-> Root("A")] =>
            "checkpoint" \in seen'
  <2>1. CASE r = "cert"
    BY <2>1, <1>2 DEF Read, IInv, TypeOK, ScriptInv, Reads
  <2>2. CASE r = "valid"
    BY <2>2, <1>2, <1>3 DEF Read, Answer, IInv, TypeOK, ScriptInv, Reads
  <2>3. CASE r = "checkpoint"
    BY <2>3, <1>2, <1>3 DEF Read, Answer, IInv, TypeOK, ScriptInv, Reads
  <2>4. CASE r = "ca"
    BY <2>4, <1>2, <1>3 DEF Read, Answer, IInv, TypeOK, ScriptInv, Reads
  <2>. QED
    BY <2>1, <2>2, <2>3, <2>4 DEF Reads
<1>. QED
  BY <1>1, <1>2, <1>4 DEF Read, IInv, ScriptInv, PrefixApplied, Checking

LEMMA VerifyInv == ASSUME IInv, Verify, Observe PROVE IInv'
<1>1. TypeOK'
  BY SameContracts, SeenType, TypeParts, TypePartsNext DEF Verify, IInv, ScriptTypes, Checking
<1>2. seen' = seen
  BY DEF Verify, Observe, Checking
<1>3. Accepted => Conditions \subseteq seen
  <2>1. SUFFICES ASSUME Accepted PROVE Conditions \subseteq seen
    OBVIOUS
  <2>2. got["checkpoint"] = [ca |-> "A", root |-> Root("A")]
    BY <2>1, ChainsAssumption DEF Verify, Accepted, IInv, TypeOK, Checkpoints, Reads
  <2>. QED
    BY <2>1, <2>2 DEF Verify, Accepted, IInv, ScriptInv, Conditions
<1>4. PrefixApplied'
  BY DEF Verify, Checking, IInv, TypeOK, ScriptInv, PrefixApplied
<1>. QED
  BY <1>1, <1>2, <1>3, <1>4 DEF Verify, IInv, ScriptInv, Checking, Accepted

LEMMA ConfirmInv == ASSUME IInv, ConfirmStored, Observe PROVE IInv'
<1>1. TypeOK'
  BY SameContracts, SeenType, TypeParts, TypePartsNext DEF ConfirmStored, IInv, ScriptTypes
<1>2. PrefixApplied'
  BY DEF ConfirmStored, IInv, TypeOK, ScriptInv, PrefixApplied
<1>. QED
  BY <1>1, <1>2 DEF ConfirmStored, Observe, IInv, ScriptInv, Checking, Accepted

LEMMA MinedInv == ASSUME IInv, Mined \/ Reverted, Observe PROVE IInv'
<1>1. TypeOK'
  <2>1. ContractTypes'
    BY SameContracts, ExecuteType, TypeParts DEF Mined, Reverted, IInv
  <2>. QED
    BY <2>1, SeenType, TypeParts, TypePartsNext DEF Mined, Reverted, IInv, ScriptTypes
<1>2. PrefixApplied'
  BY DEF Mined, Reverted, IInv, TypeOK, ScriptInv, PrefixApplied
<1>. QED
  BY <1>1, <1>2
  DEF Mined, Reverted, Observe, IInv, ScriptInv, Checking, Accepted

LEMMA OthersInv == ASSUME IInv, Others, Observe PROVE IInv'
<1>1. UNCHANGED scriptVars /\ calls' \in 0..MaxCalls
  BY ChainsAssumption DEF Others, IInv, TypeOK
<1>2. TypeOK'
  BY <1>1, OthersType, SeenType, TypeParts, TypePartsNext DEF IInv, ScriptTypes, scriptVars
<1>. QED
  BY <1>1, <1>2 DEF scriptVars, Observe, IInv, ScriptInv, PrefixApplied,
                    Checking, Accepted

LEMMA StepInv == IInv /\ [Next]_vars => IInv'
<1>1. SUFFICES ASSUME IInv, [Next]_vars PROVE IInv'
  OBVIOUS
<1>2. CASE Next
  BY <1>1, <1>2, SendTxInv, ReceiptInv, TimeoutInv, ReadInv, VerifyInv,
     ConfirmInv, MinedInv, OthersInv DEF Next, Script
<1>3. CASE UNCHANGED vars
  BY <1>1, <1>3 DEF vars, mainVars, sideVars, scriptVars, IInv, TypeOK,
     ScriptInv, PrefixApplied, Checking, Accepted, Facts, VerifyCertificate
<1>. QED
  BY <1>1, <1>2, <1>3

\* The inductive invariant of the three-chain deployment.
THEOREM Invariance == Spec => []IInv
  BY InitInv, StepInv, PTL DEF Spec

\* Type correctness of the two contracts and the script.
THEOREM TypeCorrect == Spec => []TypeOK
  BY Invariance, PTL DEF IInv

\* The chains hold a prefix of what the script does, for any number of
\* interfering calls, late blocks and failures.
THEOREM PrefixHolds == Spec => []PrefixApplied
<1>1. IInv => PrefixApplied
  BY DEF IInv, ScriptInv
<1>. QED
  BY <1>1, Invariance, PTL

-------------------------------------------------------------------------------
(* The refinement.                                                         *)

LEMMA InitRefines == Init => Auth!Init
  BY FactsType DEF Init, Auth!Init, Decision

LEMMA Unobserved ==
  ASSUME Observe, ~Checking'
  PROVE  seen' = seen
  BY DEF Observe

\* A step that moves neither the program counter nor the status changes the
\* conditions or nothing.
LEMMA ChangeRefines ==
  ASSUME IInv, UNCHANGED <<pc, st>>, Observe, (Record \in applied)' = (Record \in applied)
  PROVE  Auth!Change
<1>1. Facts' \in SUBSET Conditions
  BY DEF Facts, Conditions
<1>2. Decision' = Decision
  BY DEF Decision
<1>3. (Decision = "checking") <=> Checking'
  BY DEF Decision, Checking, IInv, TypeOK, ScriptInv
<1>4. seen' = IF Decision = "checking" THEN seen \cup Facts' ELSE seen
  BY <1>3 DEF Observe
<1>. QED
  BY <1>1, <1>2, <1>4 DEF Auth!Change

LEMMA StepRefines == IInv /\ [Next]_vars => [Auth!Next]_Auth!vars
<1>1. SUFFICES ASSUME IInv, [Next]_vars PROVE [Auth!Next]_Auth!vars
  OBVIOUS
<1>. USE DEF Auth!Next
<1>2. CASE Next /\ SendTx
  <2>1. Facts' = Facts /\ seen' = seen /\ Decision' = Decision /\ applied' = applied
    BY <1>1, <1>2, SameContracts, TypeParts
    DEF Next, SendTx, Observe, Checking, Decision, IInv
  <2>. QED
    BY <2>1 DEF Auth!vars
<1>3. CASE Next /\ Receipt
  <2>1. Facts' = Facts /\ applied' = applied
    BY <1>1, <1>3, SameContracts, TypeParts DEF Receipt, IInv
  <2>2. CASE pc = RelayB /\ pc' = ReadAll
    <3>1. Decision = "none" /\ Decision' = "checking" /\ seen' = Facts
      BY <1>1, <1>3, <2>1, <2>2
      DEF Next, Receipt, Observe, Checking, Decision, IInv, ScriptInv
    <3>. QED
      BY <3>1, <2>1 DEF Auth!Start
  <2>3. CASE st' = "failed" /\ pc < ReadAll
    <3>1. Decision = "none" /\ Decision' = "refused" /\ seen' = seen
      BY <1>1, <1>3, <2>3
      DEF Next, Receipt, Observe, Checking, Decision, IInv, TypeOK
    <3>. QED
      BY <3>1, <2>1 DEF Auth!Refuse
  <2>4. CASE ~(pc = RelayB /\ pc' = ReadAll) /\ ~(st' = "failed" /\ pc < ReadAll)
    <3>1. pc \in TxSteps
      BY <1>1, <1>3 DEF Receipt, IInv, ScriptInv
    <3>2. Decision' = Decision /\ seen' = seen
      BY <1>1, <1>3, <2>4, <3>1
      DEF Next, Receipt, Observe, Checking, Decision, IInv, TypeOK
    <3>. QED
      BY <3>2, <2>1 DEF Auth!vars
  <2>. QED
    BY <2>2, <2>3, <2>4
<1>4. CASE Next /\ (Timeout \/ CallFails)
  <2>1. Facts' = Facts /\ applied' = applied /\ seen' = seen
    BY <1>1, <1>4, SameContracts, TypeParts
    DEF Next, Timeout, CallFails, IInv, Observe, Checking
  <2>2. CASE pc > ReadAll
    BY <1>4, <2>1, <2>2 DEF Timeout, CallFails, Decision, Auth!vars
  <2>3. CASE ~(pc > ReadAll)
    BY <1>1, <1>4, <2>1, <2>3
    DEF Timeout, CallFails, Decision, Auth!Refuse, IInv, TypeOK
  <2>. QED
    BY <2>2, <2>3
<1>5. CASE Next /\ \E r \in Reads : Read(r)
  BY <1>1, <1>5, ChangeRefines DEF Next, Read
<1>6. CASE Next /\ Verify
  <2>1. Facts' = Facts /\ applied' = applied /\ seen' = seen
    BY <1>1, <1>6, SameContracts, TypeParts
    DEF Next, Verify, IInv, Observe, Checking
  <2>2. CASE Accepted
    <3>1. IInv'
      BY <1>1, StepInv
    <3>2. Conditions \subseteq seen
      BY <1>6, <2>1, <2>2, <3>1 DEF Verify, IInv, ScriptInv
    <3>3. Decision = "checking" /\ Decision' = "accepted"
      BY <1>6, <2>2 DEF Verify, Checking, Decision
    <3>. QED
      BY <2>1, <3>2, <3>3 DEF Auth!Accept
  <2>3. CASE ~Accepted
    BY <1>6, <2>1, <2>3 DEF Verify, Checking, Decision, Auth!Refuse
  <2>. QED
    BY <2>2, <2>3
<1>7. CASE Next /\ ConfirmStored
  <2>1. Facts' = Facts /\ applied' = applied /\ seen' = seen
    BY <1>1, <1>7, SameContracts, TypeParts
    DEF Next, ConfirmStored, IInv, Observe, Checking
  <2>. QED
    BY <1>7, <2>1 DEF ConfirmStored, Decision, Auth!vars
<1>8. CASE Next /\ Mined
  <2>1. CASE pool = Record
    <3>1. Facts' = Facts
      BY <1>8, <2>1 DEF Mined, Execute, RecordCrossDomainAuthentication,
         mainVars, Facts, VerifyCertificate, Conditions
    <3>2. pc = Record /\ Decision = "accepted" /\ Decision' = "accepted"
          /\ seen' = seen /\ Record \in applied'
      BY <1>1, <1>8, <2>1
      DEF Next, Mined, Observe, Checking, Decision, IInv, ScriptInv
    <3>. QED
      BY <3>1, <3>2 DEF Auth!Record
  <2>2. CASE pool # Record
    BY <1>1, <1>8, <2>2, ChangeRefines DEF Next, Mined
  <2>. QED
    BY <2>1, <2>2
<1>9. CASE Next /\ (Reverted \/ Others)
  BY <1>1, <1>9, ChangeRefines DEF Next, Reverted, Others, scriptVars
<1>10. CASE UNCHANGED vars
  BY <1>10 DEF vars, mainVars, sideVars, scriptVars, Auth!vars, Decision, Facts,
     VerifyCertificate
<1>. QED
  BY <1>1, <1>2, <1>3, <1>4, <1>5, <1>6, <1>7, <1>8, <1>9, <1>10 DEF Next, Script

\* The script with its reads on two chains and its record on a third
\* implements the abstract cross-domain authentication.
THEOREM Refinement == Spec => Authenticates
  BY InitRefines, StepRefines, Invariance, PTL DEF Spec, Authenticates, Auth!Spec

===============================================================================

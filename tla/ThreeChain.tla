------------------------------ MODULE ThreeChain ------------------------------
(***************************************************************************)
(* The three-chain deployment (blockchain/sidechain-three-chain): the CA   *)
(* registry on the main chain, a certificate contract on each of two       *)
(* sidechains, and the script that registers the CAs, issues certificates, *)
(* relays checkpoints to the main chain, checks a certificate of sidechain *)
(* A on two chains and records the result on sidechain B.                  *)
(*                                                                         *)
(* The script waits for the receipt of every transaction before it goes    *)
(* on, and gives up on an error; a transaction whose receipt it gave up    *)
(* waiting for may still be mined.  All functions of the contracts are     *)
(* public, so other calls may come between any two steps.  The four reads  *)
(* of the check are answered independently of one another.                 *)
(*                                                                         *)
(* A step number is the program counter of main() after the deployments.   *)
(* A CA has the name of the sidechain it governs, each sidechain holds the *)
(* one certificate id the script uses, and the script's state root of a    *)
(* sidechain is Root(s): hashing is taken to be collision free.  Subject,  *)
(* key and metadata hashes, side heights and times are stored and never    *)
(* read by the contracts or the check, and are left out.                   *)
(***************************************************************************)
EXTENDS Integers

CONSTANTS
    Me,        \* the account of the script
    Accounts,  \* all accounts
    Own,       \* certificateSha256 of the certificates the script creates
    Hashes,    \* certificate hashes
    OtherRoot, \* a state root the script did not compute
    None,      \* the zero value of an address, a hash or a root
    MaxCalls   \* bound on the calls of others and on steps of the clock

Sides == {"A", "B"}

ASSUME ChainsAssumption ==
    /\ Me \in Accounts /\ None \notin Accounts
    /\ Own \in Hashes /\ None \notin Hashes
    /\ OtherRoot \notin Sides \cup {None}
    /\ None \notin Sides /\ None \notin BOOLEAN
    /\ None \notin [ca : Sides, root : Sides]
    /\ MaxCalls \in Nat

VARIABLES
    \* MainChainCARegistry
    ca,      \* certificateAuthorities: operator and active
    cp,      \* checkpoints: CA and state root, by sidechain
    \* SidechainDPKI of each sidechain
    cert,    \* the certificate's hash, state and place in its validity window
    root,    \* stateRoot
    result,  \* crossDomainResults of the script's request id on sidechain B
    \* the script
    pc,      \* the step it is at
    st,      \* running, waiting for a receipt, done or failed
    pool,    \* its transaction that no block has yet, 0 for none
    receipt, \* status of its last transaction in a block
    got,     \* answers to the reads of the check
    \* history
    calls,   \* calls of others so far
    applied, \* steps of the script that took effect on a chain
    seen     \* conditions of the check that held at some moment of it

mainVars   == <<ca, cp>>
sideVars   == <<cert, root, result>>
scriptVars == <<pc, st, pool, receipt, got, applied>>
vars == <<mainVars, sideVars, scriptVars, calls, seen>>

\* The steps of main(), in order.
RegisterA == 1
RegisterB == 2
IssueA    == 3
IssueB    == 4
RootA     == 5
RootB     == 6
RelayA    == 7
RelayB    == 8
ReadAll   == 9
Record    == 10
Confirm   == 11
End       == 12

TxSteps == (RegisterA..RelayB) \cup {Record}

\* The root the script computes for a sidechain commits to its own hash.
Root(s) == s
Roots == Sides \cup {OtherRoot, None}

Reads == {"cert", "valid", "checkpoint", "ca"}

-------------------------------------------------------------------------------
(* The contracts.                                                          *)

RegisterCA(c, operator) ==
    /\ operator # None
    /\ ca' = [ca EXCEPT ![c] = [operator |-> operator, active |-> TRUE]]
    /\ UNCHANGED <<cp, sideVars>>

SetCAStatus(c, sender, active) ==
    /\ ca[c].operator # None /\ sender = ca[c].operator
    /\ ca' = [ca EXCEPT ![c].active = active]
    /\ UNCHANGED <<cp, sideVars>>

\* The require clauses of submitCheckpoint.
MaySubmit(c, sender, r) == ca[c].active /\ sender = ca[c].operator /\ r # None

\* Mutant: the fields of the stored record change places.
SubmitCheckpointSwapped(s, c, sender, r) ==
    /\ MaySubmit(c, sender, r)
    /\ cp' = [cp EXCEPT ![s] = [ca |-> r, root |-> c]]
    /\ UNCHANGED <<ca, sideVars>>

\* The stored checkpoint is replaced whatever the heights of both.
SubmitCheckpoint(s, c, sender, r) ==
    /\ MaySubmit(c, sender, r)
    /\ cp' = [cp EXCEPT ![s] = [ca |-> c, root |-> r]]
    /\ UNCHANGED <<ca, sideVars>>

\* A record is replaced even if it was revoked.
IssueCertificate(s, h, window) ==
    /\ cert' = [cert EXCEPT ![s] =
                   [hash |-> h, state |-> "valid", window |-> window]]
    /\ UNCHANGED <<mainVars, root, result>>

RevokeCertificate(s) ==
    /\ cert[s].state = "valid"
    /\ cert' = [cert EXCEPT ![s].state = "revoked"]
    /\ UNCHANGED <<mainVars, root, result>>

UpdateStateRoot(s, r) ==
    /\ r # None
    /\ root' = [root EXCEPT ![s] = r]
    /\ UNCHANGED <<mainVars, cert, result>>

VerifyCertificate(s, h) ==
    cert[s].state = "valid" /\ cert[s].hash = h /\ cert[s].window = "open"

RecordCrossDomainAuthentication(s, h, r, accepted) ==
    /\ result' = [source |-> s, hash |-> h, checkpoint |-> r,
                  accepted |-> accepted]
    /\ UNCHANGED <<mainVars, cert, root>>

\* block.timestamp passes notBefore or notAfter.
ClockPasses(s) ==
    /\ cert[s].window \in {"early", "open"}
    /\ cert' = [cert EXCEPT ![s].window =
                   IF @ = "early" THEN "open" ELSE "over"]
    /\ UNCHANGED <<mainVars, root, result>>

-------------------------------------------------------------------------------

\* What the check asks for, as it is now.
Conditions == {"certificate", "authority", "checkpoint"}
Facts ==
    {f \in Conditions :
       \/ f = "certificate" /\ VerifyCertificate("A", Own)
       \/ f = "authority" /\ ca["A"].active
       \/ f = "checkpoint" /\ cp["A"] = [ca |-> "A", root |-> Root("A")]}

\* Promise.all of the four reads is under way.
Checking == pc = ReadAll /\ st = "run"

\* History: what holds while the check runs.
Observe == seen' = IF Checking' THEN seen \cup Facts' ELSE seen

Init ==
    /\ ca = [c \in Sides |-> [operator |-> None, active |-> FALSE]]
    /\ cp = [s \in Sides |-> [ca |-> None, root |-> None]]
    /\ cert = [s \in Sides |->
                  [hash |-> None, state |-> "none", window |-> "over"]]
    /\ root = [s \in Sides |-> None]
    /\ result = [source |-> None, hash |-> None, checkpoint |-> None,
                 accepted |-> FALSE]
    /\ pc = RegisterA /\ st = "run" /\ pool = 0 /\ receipt = "ok"
    /\ got = [r \in Reads |-> None]
    /\ calls = 0 /\ applied = {} /\ seen = {}

-------------------------------------------------------------------------------
(* The script.                                                             *)

\* sendSigned submits a transaction and waits for its receipt.
SendTx ==
    /\ st = "run" /\ pc \in TxSteps
    /\ pool' = pc
    /\ st' = "wait"
    /\ UNCHANGED <<mainVars, sideVars, pc, receipt, got, applied, calls>>

\* Effect of the transaction of step t.
Execute(t) ==
    \/ t = RegisterA /\ RegisterCA("A", Me)
    \/ t = RegisterB /\ RegisterCA("B", Me)
    \/ t = IssueA /\ IssueCertificate("A", Own, "open")
    \/ t = IssueB /\ IssueCertificate("B", Own, "open")
    \/ t = RootA /\ UpdateStateRoot("A", Root("A"))
    \/ t = RootB /\ UpdateStateRoot("B", Root("B"))
    \/ t = RelayA /\ SubmitCheckpoint("A", "A", Me, Root("A"))
    \/ t = RelayB /\ SubmitCheckpoint("B", "B", Me, Root("B"))
    \/ t = Record /\ RecordCrossDomainAuthentication("A", Own, got["checkpoint"].root, TRUE)

\* The transactions a contract may revert.
Reverts(t) ==
    \/ t = RelayA /\ ~MaySubmit("A", Me, Root("A"))
    \/ t = RelayB /\ ~MaySubmit("B", Me, Root("B"))

\* A block takes the transaction, also when the script has given up.
Mined ==
    /\ pool # 0
    /\ Execute(pool)
    /\ applied' = applied \cup {pool}
    /\ pool' = 0
    /\ receipt' = "ok"
    /\ UNCHANGED <<pc, st, got, calls>>

Reverted ==
    /\ pool # 0
    /\ Reverts(pool)
    /\ pool' = 0
    /\ receipt' = "reverted"
    /\ UNCHANGED <<mainVars, sideVars, pc, st, got, applied, calls>>

\* Mutant: the promise resolves with the transaction hash.
ReceiptEarly ==
    /\ st = "wait"
    /\ pc' = pc + 1
    /\ st' = "run"
    /\ UNCHANGED <<mainVars, sideVars, pool, receipt, got, applied, calls>>

\* The awaited promise settles.
Receipt ==
    /\ st = "wait" /\ pool = 0
    /\ \/ receipt = "ok" /\ pc' = pc + 1 /\ st' = "run"
       \/ receipt # "ok" /\ st' = "failed" /\ UNCHANGED pc
    /\ UNCHANGED <<mainVars, sideVars, pool, receipt, got, applied, calls>>

\* Mutant: the script keeps waiting.
TimeoutNever == FALSE /\ UNCHANGED vars

\* No receipt in time or no connection: main() rejects.  A transaction that
\* was submitted stays with the chain.
Timeout ==
    /\ st = "wait" /\ pool # 0
    /\ st' = "failed"
    /\ UNCHANGED <<mainVars, sideVars, pc, pool, receipt, got, applied, calls>>

\* A call is not answered.
CallFails ==
    /\ st = "run"
    /\ st' = "failed"
    /\ UNCHANGED <<mainVars, sideVars, pc, pool, receipt, got, applied, calls>>

\* Mutant: the validity window and state are left to the certificate read.
AnswerHashOnly(r) ==
    CASE r = "cert" -> cert["A"].hash
      [] r = "valid" -> cert["A"].hash = Own
      [] r = "checkpoint" -> cp["A"]
      [] r = "ca" -> ca["A"].active

\* What a read returns.
Answer(r) ==
    CASE r = "cert" -> cert["A"].hash
      [] r = "valid" -> VerifyCertificate("A", Own)
      [] r = "checkpoint" -> cp["A"]
      [] r = "ca" -> ca["A"].active

\* One of the four calls is answered.
Read(r) ==
    /\ Checking
    /\ got[r] = None
    /\ got' = [got EXCEPT ![r] = Answer(r)]
    /\ UNCHANGED <<mainVars, sideVars, pc, st, pool, receipt, applied, calls>>

\* The conjunction of the script, on what it read.
Accepted ==
    /\ got["valid"] = TRUE
    /\ got["ca"] = TRUE
    /\ got["cert"] = Own
    /\ got["checkpoint"].root = Root("A")
    /\ got["checkpoint"].ca = "A"

Verify ==
    /\ Checking
    /\ \A r \in Reads : got[r] # None
    /\ \/ Accepted /\ pc' = Record /\ UNCHANGED st
       \/ ~Accepted /\ st' = "failed" /\ UNCHANGED pc
    /\ UNCHANGED <<mainVars, sideVars, pool, receipt, got, applied, calls>>

\* The stored result is read back.
ConfirmStored ==
    /\ pc = Confirm /\ st = "run"
    /\ \/ result.accepted /\ st' = "done" /\ pc' = End
       \/ ~result.accepted /\ st' = "failed" /\ UNCHANGED pc
    /\ UNCHANGED <<mainVars, sideVars, pool, receipt, got, applied, calls>>

-------------------------------------------------------------------------------

\* Others call the public functions, and time passes.
Others ==
    /\ calls < MaxCalls
    /\ calls' = calls + 1
    /\ \/ \E c \in Sides, o \in Accounts : RegisterCA(c, o)
       \/ \E c \in Sides, o \in Accounts, b \in BOOLEAN : SetCAStatus(c, o, b)
       \/ \E s, c \in Sides, o \in Accounts, r \in Roots : SubmitCheckpoint(s, c, o, r)
       \/ \E s \in Sides, h \in Hashes, w \in {"early", "open", "over"} :
             IssueCertificate(s, h, w)
       \/ \E s \in Sides : RevokeCertificate(s)
       \/ \E s \in Sides, r \in Roots : UpdateStateRoot(s, r)
       \/ \E s \in Sides, h \in Hashes, r \in Roots, b \in BOOLEAN :
             RecordCrossDomainAuthentication(s, h, r, b)
       \/ \E s \in Sides : ClockPasses(s)
    /\ UNCHANGED scriptVars

Script ==
    \/ SendTx \/ Receipt
    \/ \E r \in Reads : Read(r)
    \/ Verify \/ ConfirmStored

Next ==
    /\ Script \/ Timeout \/ CallFails \/ Mined \/ Reverted \/ Others
    /\ Observe

Spec == Init /\ [][Next]_vars

\* The event loop runs what is ready, and web3 gives up on a receipt in the
\* end.  That a transaction is mined is not assumed.
FairSpec == Spec /\ WF_vars(Script /\ Observe) /\ WF_vars(Timeout /\ Observe)

-------------------------------------------------------------------------------
(* What the specification promises.                                        *)

CertRecords == [hash : Hashes \cup {None}, state : {"none", "valid", "revoked"},
                window : {"early", "open", "over"}]
Checkpoints == [ca : Sides \cup {None}, root : Roots]

\* Type invariant.
TypeOK ==
    /\ ca \in [Sides -> [operator : Accounts \cup {None}, active : BOOLEAN]]
    /\ cp \in [Sides -> Checkpoints]
    /\ cert \in [Sides -> CertRecords]
    /\ root \in [Sides -> Roots]
    /\ result \in [source : Sides \cup {None}, hash : Hashes \cup {None},
                   checkpoint : Roots, accepted : BOOLEAN]
    /\ pc \in RegisterA..End
    /\ st \in {"run", "wait", "done", "failed"}
    /\ pool \in TxSteps \cup {0}
    /\ receipt \in {"ok", "reverted"}
    /\ got = [r \in Reads |-> got[r]]
    /\ got["cert"] \in Hashes \cup {None}
    /\ got["valid"] \in BOOLEAN \cup {None}
    /\ got["checkpoint"] \in Checkpoints \cup {None}
    /\ got["ca"] \in BOOLEAN \cup {None}
    /\ calls \in 0..MaxCalls
    /\ applied \subseteq TxSteps
    /\ seen \subseteq Conditions

\* Whatever reverts, times out or is mined late, the chains hold a prefix of
\* what the script does: a step takes effect only after all the steps before
\* it did.  So no result is recorded before the checkpoints are relayed, and
\* a script that gave up can leave at most the transaction it waited for.
PrefixApplied ==
    /\ {t \in TxSteps : t < pc} \subseteq applied
    /\ \A t \in applied \cup ({pool} \ {0}) : t <= pc

\* Why: the script has one transaction under way at most, that of the step it
\* is at, and an answer that would make it accept was true while it checked.
ScriptInv ==
    /\ PrefixApplied
    /\ pool \in {0, pc}
    /\ st \in {"run", "done"} => pool = 0
    /\ st = "done" => pc = End
    /\ st = "wait" => /\ pc \in TxSteps
                      /\ pool = 0 /\ receipt = "ok" => pc \in applied
    /\ pc < ReadAll => got = [r \in Reads |-> None] /\ seen = {}
    /\ Checking => /\ Facts \subseteq seen
                   /\ got["valid"] = TRUE => "certificate" \in seen
                   /\ got["ca"] = TRUE => "authority" \in seen
                   /\ got["checkpoint"] = [ca |-> "A", root |-> Root("A")] =>
                         "checkpoint" \in seen
    /\ pc > ReadAll => Accepted /\ Conditions \subseteq seen

\* What the check came to, for the abstract specification.
Decision == IF pc > ReadAll THEN "accepted"
            ELSE IF st = "failed" THEN "refused"
            ELSE IF pc = ReadAll THEN "checking" ELSE "none"

Auth == INSTANCE CrossDomainAuth WITH
            decision <- Decision,
            facts    <- Facts,
            recorded <- Record \in applied

\* The script's four reads on two chains and its record on a third implement
\* the abstract authentication, whatever others do in between: it accepts
\* only if each condition held at some moment of the check, and records only
\* what it accepted.  A certificate revoked, a CA suspended or a checkpoint
\* replaced by an older one before the check, and not restored during it,
\* prevents the record.
Authenticates == Auth!Spec

\* The script ends, successfully or not.
ScriptEnds == <>(st \in {"done", "failed"})

===============================================================================

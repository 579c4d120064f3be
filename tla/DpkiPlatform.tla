----------------------------- MODULE DpkiPlatform -----------------------------
(***************************************************************************)
(* The proposed DPKI platform (blockchain/dpki-experiment): certificate    *)
(* management and Merkle-proof authentication on one certificate           *)
(* repository, kept in memory by the proof responder and anchored by a     *)
(* root in the DPKIExperiment contract.                                    *)
(*                                                                         *)
(* Management requests wait for one another on a promise chain, but the    *)
(* chain holds the HTTP call to the responder, which gives up after 15     *)
(* seconds, and not the work of the responder itself.  Authentications run *)
(* at any time; one that meets a root other than its proof's waits for the *)
(* management requests and tries once more.                                *)
(*                                                                         *)
(* A step is what JavaScript runs between two awaits.  The certificate     *)
(* issued by management request m is m itself, and a Merkle root is the    *)
(* repository contents it commits to, a function from slots (subjects) to  *)
(* certificates: hashing is taken to be collision free.  Certificate path  *)
(* and signature checks succeed and are left out.  Proofs are read through *)
(* the responder (the default); the contract is the EVM one.  The status   *)
(* of a receipt is not looked at, here or in the code; a mined transaction *)
(* takes effect, since the contract function requires nothing and gas is   *)
(* taken to suffice.                                                       *)
(***************************************************************************)
EXTENDS Integers, Sequences, Functions

CONSTANTS
    Slots,       \* subjects of the management domain
    Mgmt,        \* management requests
    SlotOf,      \* the subject a management request re-issues
    Auths,       \* authentication requests
    AuthSlot,    \* the subject an authentication is about
    Initial,     \* the certificates the platform starts with
    None,        \* nothing: an absent cache entry or promise
    NoMap,       \* domainRootCache was not created yet
    MaxTimeouts, \* bound on HTTP calls that give up
    MaxLost,     \* bound on receipts that are not waited for
    MaxRejects,  \* bound on failures that leave the contract alone
    MaxDeadlines \* bound on waits for a stable platform that give up

ASSUME PlatformAssumption ==
    /\ SlotOf \in [Mgmt -> Slots]
    /\ AuthSlot \in [Auths -> Slots]
    /\ Initial \notin Mgmt
    /\ None \notin Mgmt
    /\ {None, NoMap} \cap [Slots -> Mgmt \cup {Initial}] = {}
    /\ None # NoMap
    /\ {MaxTimeouts, MaxLost, MaxRejects, MaxDeadlines} \subseteq Nat

VARIABLES
    mode,      \* --dpki-root-read-mode
    \* management
    mpc,       \* where a management request is
    chain,     \* managementChain: calls not settled, in order
    built,     \* contents whose root a request sends
    inFlight,  \* managementInFlight
    \* the responder's memory
    x509,      \* OpenSSL repository
    repo,      \* platform.repos of the management domain
    tree,      \* treeCache and proofCache of the domain
    rootCache, \* domainRootCache of the domain
    \* the DPKIExperiment contract
    txs,       \* transactions sent and not yet in a block, by nonce
    chainRoot, \* domainRoots
    chainCert, \* certHash in certificates
    \* authentication
    apc,       \* where an authentication is
    canRetry,  \* whether a root mismatch may be retried
    src,       \* certificate under verification
    proof,     \* contents of the tree its proof is from
    tail,      \* the call at the end of managementChain it waits for
    \* history
    timeouts, lost, rejects, deadlines,
    retried,   \* authentications in their second attempt
    hit        \* authentications that a new root met in their last attempt

mgmtVars  == <<mpc, chain, built, inFlight>>
repoVars  == <<x509, repo, tree, rootCache>>
chainVars == <<txs, chainRoot, chainCert>>
authVars  == <<apc, canRetry, src, proof, tail, retried, hit>>
faultVars == <<timeouts, lost, rejects, deadlines>>
vars == <<mode, mgmtVars, repoVars, chainVars, authVars, faultVars>>

Certs    == Mgmt \cup {Initial}
Contents == [Slots -> Certs]

\* Repository, contract and caches after syncRootsAndCerts.
Init ==
    /\ mode \in {"chain", "cache"}
    /\ mpc = [m \in Mgmt |-> "new"]
    /\ chain = <<>>
    /\ built = [m \in Mgmt |-> [s \in Slots |-> Initial]]
    /\ inFlight = 0
    /\ x509 = [s \in Slots |-> Initial]
    /\ repo = [s \in Slots |-> Initial]
    /\ tree = None
    /\ rootCache = NoMap
    /\ txs = <<>>
    /\ chainRoot = [s \in Slots |-> Initial]
    /\ chainCert = [s \in Slots |-> Initial]
    /\ apc = [a \in Auths |-> "new"]
    /\ canRetry = [a \in Auths |-> FALSE]
    /\ src = [a \in Auths |-> Initial]
    /\ proof = [a \in Auths |-> [s \in Slots |-> Initial]]
    /\ tail = [a \in Auths |-> None]
    /\ timeouts = 0 /\ lost = 0 /\ rejects = 0 /\ deadlines = 0
    /\ retried = {} /\ hit = {}

-------------------------------------------------------------------------------
(* Management.                                                             *)

MGoto(m, step) == mpc' = [mpc EXCEPT ![m] = step]

\* managementRequest puts its call at the end of the promise chain.
managementRequest(m) ==
    /\ mpc[m] = "new"
    /\ MGoto(m, "queued")
    /\ chain' = Append(chain, m)
    /\ UNCHANGED <<mode, built, inFlight, repoVars, chainVars, authVars,
                   faultVars>>

\* Mutant: the promise is not awaited.
StableAtOnce(a) == apc[a] = "tail"

\* The promise a waits for is settled; its continuation runs at once, before
\* the next request's call to the responder gets anywhere.
Stable(a) == apc[a] = "tail" /\ tail[a] \notin Range(chain)

\* Mutant: the calls do not wait for one another.
PostAtOnce(m) ==
    /\ mpc[m] = "queued"
    /\ MGoto(m, "posted")
    /\ UNCHANGED <<mode, chain, built, inFlight, repoVars, chainVars,
                   authVars, faultVars>>

\* The calls before m are settled: m is posted to the responder.
Post(m) ==
    /\ chain # <<>> /\ Head(chain) = m /\ mpc[m] = "queued"
    /\ \A a \in Auths : ~Stable(a)
    /\ MGoto(m, "posted")
    /\ UNCHANGED <<mode, chain, built, inFlight, repoVars, chainVars,
                   authVars, faultVars>>

\* managementRequestCore up to its first await: the certificate is issued,
\* the tree of the updated records is built and its root is on the way.
managementRequestCore(m) ==
    /\ mpc[m] = "posted"
    /\ MGoto(m, "sent")
    /\ x509' = [x509 EXCEPT ![SlotOf[m]] = m]
    /\ built' = [built EXCEPT ![m] = [repo EXCEPT ![SlotOf[m]] = m]]
    /\ inFlight' = inFlight + 1
    /\ txs' = Append(txs, m)
    /\ UNCHANGED <<mode, chain, repo, tree, rootCache, chainRoot, chainCert,
                   authVars, faultVars>>

\* Mutant: the certificate is stored without the root.
putCertificateOnly ==
    /\ txs # <<>>
    /\ chainCert' = [chainCert EXCEPT ![SlotOf[Head(txs)]] = Head(txs)]
    /\ txs' = Tail(txs)
    /\ UNCHANGED <<mode, mgmtVars, repoVars, chainRoot, authVars, faultVars>>

\* putCertificateAndDomainRoot is executed in a block, in nonce order.
putCertificateAndDomainRoot ==
    /\ txs # <<>>
    /\ LET m == Head(txs) IN
       /\ chainCert' = [chainCert EXCEPT ![SlotOf[m]] = m]
       /\ chainRoot' = built[m]
    /\ txs' = Tail(txs)
    /\ hit' = hit \cup {a \in Auths : apc[a] = "root"}
    /\ UNCHANGED <<mode, mgmtVars, repoVars, apc, canRetry, src, proof, tail,
                   retried, faultVars>>

finishManagementUpdate == inFlight' = IF inFlight = 0 THEN 0 ELSE inFlight - 1

\* Mutant: the caches are not invalidated.
ReceiptKeepsTree(m) ==
    /\ mpc[m] = "sent" /\ m \notin Range(txs)
    /\ repo' = [repo EXCEPT ![SlotOf[m]] = m]
    /\ MGoto(m, "done")
    /\ finishManagementUpdate
    /\ UNCHANGED <<mode, chain, built, x509, tree, rootCache, chainVars,
                   authVars, faultVars>>

\* The receipt arrives: the record is replaced, the caches are renewed and
\* verifyDpkiManagementRepositoryUpdate compares the repository with the root
\* that was sent.  A mismatch is reported; nothing is undone.
Receipt(m) ==
    LET updated == [repo EXCEPT ![SlotOf[m]] = m] IN
    /\ mpc[m] = "sent" /\ m \notin Range(txs)
    /\ repo' = updated
    /\ IF updated = built[m]
         THEN /\ MGoto(m, "done")
              /\ rootCache' = built[m]
              /\ tree' = IF rootCache = NoMap THEN updated ELSE None
         ELSE /\ MGoto(m, "error")
              /\ rootCache' = IF rootCache = NoMap THEN NoMap ELSE built[m]
              /\ tree' = None
    /\ finishManagementUpdate
    /\ UNCHANGED <<mode, chain, built, x509, chainVars, authVars, faultVars>>

\* Issuing the certificate fails before anything is sent; the OpenSSL
\* repository may hold it already.
IssueFails(m) ==
    /\ mpc[m] = "posted"
    /\ rejects < MaxRejects
    /\ rejects' = rejects + 1
    /\ MGoto(m, "error")
    /\ x509' \in {x509, [x509 EXCEPT ![SlotOf[m]] = m]}
    /\ UNCHANGED <<mode, chain, built, inFlight, repo, tree, rootCache,
                   chainVars, authVars, timeouts, lost, deadlines>>

\* The transaction never gets into a block.  Submitting it does not tell (the
\* hash is assumed after the last attempt); the wait for the receipt does.
TxDropped(m) ==
    /\ mpc[m] = "sent"
    /\ rejects < MaxRejects
    /\ rejects' = rejects + 1
    /\ \E i \in 1..Len(txs) :
          /\ txs[i] = m
          /\ txs' = SubSeq(txs, 1, i - 1) \o SubSeq(txs, i + 1, Len(txs))
    /\ MGoto(m, "error")
    /\ finishManagementUpdate
    /\ UNCHANGED <<mode, chain, built, repoVars, chainRoot, chainCert,
                   authVars, timeouts, lost, deadlines>>

\* The receipt is not obtained, although the transaction is or will be in a
\* block.
ReceiptLost(m) ==
    /\ mpc[m] = "sent"
    /\ lost < MaxLost
    /\ lost' = lost + 1
    /\ MGoto(m, "error")
    /\ finishManagementUpdate
    /\ UNCHANGED <<mode, chain, built, repoVars, chainVars, authVars,
                   timeouts, rejects, deadlines>>

\* Mutant: an error response leaves the promise pending.
SettleOnSuccess(m) ==
    /\ chain # <<>> /\ Head(chain) = m
    /\ mpc[m] = "done"
    /\ chain' = Tail(chain)
    /\ UNCHANGED <<mode, mpc, built, inFlight, repoVars, chainVars, authVars,
                   faultVars>>

\* The response arrives and the promise is settled, whether it is a result or
\* an error.
Settle(m) ==
    /\ chain # <<>> /\ Head(chain) = m
    /\ mpc[m] \in {"done", "error"}
    /\ chain' = Tail(chain)
    /\ UNCHANGED <<mode, mpc, built, inFlight, repoVars, chainVars, authVars,
                   faultVars>>

\* requestJson gives up; the responder does not notice.
Timeout(m) ==
    /\ chain # <<>> /\ Head(chain) = m
    /\ mpc[m] \in {"posted", "sent"}
    /\ timeouts < MaxTimeouts
    /\ timeouts' = timeouts + 1
    /\ chain' = Tail(chain)
    /\ UNCHANGED <<mode, mpc, built, inFlight, repoVars, chainVars, authVars,
                   lost, rejects, deadlines>>

-------------------------------------------------------------------------------
(* Authentication: runDpkiMerkleAuthExecution.                             *)

AGoto(a, step) == apc' = [apc EXCEPT ![a] = step]

\* Mutant: a missing tree is not built.
RepoTreeUnfilled == tree

\* getRepoTree
RepoTree == IF tree = None THEN repo ELSE tree

\* The first attempt looks up the certificate and its proof.
AuthExecute(a, retry) ==
    /\ apc[a] = "new"
    /\ AGoto(a, "root")
    /\ canRetry' = [canRetry EXCEPT ![a] = retry]
    /\ src' = [src EXCEPT ![a] = repo[AuthSlot[a]]]
    /\ proof' = [proof EXCEPT ![a] = RepoTree]
    /\ tree' = RepoTree
    /\ UNCHANGED <<mode, mgmtVars, x509, repo, rootCache, chainVars, tail,
                   retried, hit, faultVars>>

\* domainRootForDpkiExecution, from the contract or from the cache.
NoRootCached == rootCache \in {NoMap, None}
DomainRoot ==
    CASE mode = "chain" -> chainRoot
      [] mode = "cache" /\ NoRootCached -> RepoTree
      [] OTHER -> rootCache

\* Mutant: the root is not compared.
VerdictOnProof(a, root) ==
    IF proof[a][AuthSlot[a]] = src[a] THEN "ok" ELSE "failed"

\* okRoot, then verifyMpt.
Verdict(a, root) ==
    CASE root # proof[a] /\ canRetry[a] -> "wait"
      [] root # proof[a] /\ ~canRetry[a] -> "failed"
      [] OTHER -> IF proof[a][AuthSlot[a]] = src[a] THEN "ok" ELSE "failed"

\* The root arrives and is compared with the proof's.
ReadRoot(a) ==
    /\ apc[a] = "root"
    /\ AGoto(a, Verdict(a, DomainRoot))
    /\ IF mode = "cache" /\ NoRootCached
         THEN rootCache' = RepoTree /\ tree' = RepoTree
         ELSE UNCHANGED <<rootCache, tree>>
    /\ UNCHANGED <<mode, mgmtVars, x509, repo, chainVars, canRetry, src,
                   proof, tail, retried, hit, faultVars>>

\* Mutant: only updates in flight are waited for, not the calls behind them.
WaitInFlightOnly(a) ==
    /\ apc[a] = "wait"
    /\ inFlight = 0
    /\ tail' = [tail EXCEPT ![a] = None]
    /\ AGoto(a, "tail")
    /\ UNCHANGED <<mode, mgmtVars, repoVars, chainVars, canRetry, src, proof,
                   retried, hit, faultVars>>

\* waitForPlatformStable: no update in flight, or five seconds later; then
\* the calls that are on the chain by now.
waitForPlatformStable(a) ==
    /\ apc[a] = "wait"
    /\ \/ inFlight = 0 /\ UNCHANGED deadlines
       \/ /\ inFlight > 0 /\ deadlines < MaxDeadlines
          /\ deadlines' = deadlines + 1
    /\ tail' = [tail EXCEPT ![a] = IF chain = <<>> THEN None
                                   ELSE chain[Len(chain)]]
    /\ AGoto(a, "tail")
    /\ UNCHANGED <<mode, mgmtVars, repoVars, chainVars, canRetry, src, proof,
                   retried, hit, timeouts, lost, rejects>>

\* The caches are dropped and the second attempt begins.
Retry(a) ==
    /\ Stable(a)
    /\ AGoto(a, "root")
    /\ canRetry' = [canRetry EXCEPT ![a] = FALSE]
    /\ src' = [src EXCEPT ![a] = repo[AuthSlot[a]]]
    /\ proof' = [proof EXCEPT ![a] = repo]
    /\ tree' = repo
    /\ rootCache' = IF rootCache = NoMap THEN NoMap ELSE None
    /\ retried' = retried \cup {a}
    /\ hit' = hit \ {a}
    /\ UNCHANGED <<mode, mgmtVars, x509, repo, chainVars, tail, faultVars>>

-------------------------------------------------------------------------------

Manage(m) ==
    \/ Post(m) \/ managementRequestCore(m) \/ Receipt(m) \/ Settle(m)

Fail(m) == IssueFails(m) \/ TxDropped(m) \/ ReceiptLost(m) \/ Timeout(m)

Auth(a) == ReadRoot(a) \/ waitForPlatformStable(a) \/ Retry(a)

\* Every request was made and answered.
Finished ==
    /\ \A m \in Mgmt : mpc[m] \in {"done", "error"} /\ m \notin Range(chain)
    /\ \A a \in Auths : apc[a] \in {"ok", "failed"}
    /\ txs = <<>>
    /\ UNCHANGED vars

Next ==
    \/ \E m \in Mgmt : managementRequest(m) \/ Manage(m) \/ Fail(m)
    \/ putCertificateAndDomainRoot
    \/ \E a \in Auths : Auth(a) \/ \E r \in BOOLEAN : AuthExecute(a, r)
    \/ Finished

Spec == Init /\ [][Next]_vars

(* Blocks are produced, the event loop runs what is ready, and HTTP calls  *)
(* are answered.                                                           *)
Fairness ==
    /\ WF_vars(putCertificateAndDomainRoot)
    /\ \A m \in Mgmt : WF_vars(Manage(m))
    /\ \A a \in Auths : WF_vars(Auth(a))

FairSpec == Spec /\ Fairness
-------------------------------------------------------------------------------
(* What the specification promises.                                        *)

\* Type invariant.
TypeOK ==
    /\ mode \in {"chain", "cache"}
    /\ mpc \in [Mgmt -> {"new", "queued", "posted", "sent", "done", "error"}]
    /\ chain \in Seq(Mgmt)
    /\ built \in [Mgmt -> Contents]
    /\ inFlight \in Nat
    /\ x509 \in Contents
    /\ repo \in Contents
    /\ tree \in Contents \cup {None}
    /\ rootCache \in Contents \cup {None, NoMap}
    /\ txs \in Seq(Mgmt)
    /\ chainRoot \in Contents
    /\ chainCert \in Contents
    /\ apc \in [Auths -> {"new", "root", "wait", "tail", "ok", "failed"}]
    /\ canRetry \in [Auths -> BOOLEAN]
    /\ src \in [Auths -> Certs]
    /\ proof \in [Auths -> Contents]
    /\ tail \in [Auths -> Mgmt \cup {None}]
    /\ timeouts \in 0..MaxTimeouts
    /\ lost \in 0..MaxLost
    /\ rejects \in 0..MaxRejects
    /\ deadlines \in 0..MaxDeadlines
    /\ retried \subseteq Auths
    /\ hit \subseteq Auths

\* No call to the responder gave up and no receipt was lost so far.
Calm == timeouts = 0 /\ lost = 0

\* Proofs are always from the present repository: no interleaving of updates,
\* failed updates and retries leaves a tree of older records in the cache.
CacheCoherent == tree # None => tree = repo

\* Unless an HTTP call or a receipt was given up, one management update runs
\* at a time, and between updates the contract's root is the root of the
\* repository, also after updates that failed.
StableRoot == Calm /\ inFlight = 0 => chainRoot = repo

\* Unless an HTTP call or a receipt was given up, the contract's root and its
\* certificates tell the same story at every block.
OnChainAgrees == Calm => chainRoot = chainCert

\* One retry is enough: unless something was given up, an authentication fails
\* in its second attempt only if yet another root arrived during it.
RetrySuffices ==
    Calm /\ mode = "chain" =>
        \A a \in retried : apc[a] = "failed" => a \in hit

\* Unless something was given up, whoever is accepted with the root read from
\* the contract holds the very certificate the contract has at that moment.
AuthCurrent ==
    [][\A a \in Auths :
          apc[a] = "root" /\ apc'[a] = "ok" /\ Calm /\ mode = "chain" =>
              src[a] = chainCert[AuthSlot[a]]]_vars

(* The inductive invariant behind the properties.                          *)

\* While nothing was given up, the request at the head of the chain is the
\* only one at work, and its transaction is the only one on the way.
SerialInv ==
    Calm =>
        /\ \A m \in Mgmt : mpc[m] \in {"posted", "sent"} =>
              chain # <<>> /\ Head(chain) = m
        /\ \A m \in Mgmt : mpc[m] = "sent" =>
              /\ inFlight = 1
              /\ built[m] = [repo EXCEPT ![SlotOf[m]] = m]
              /\ \/ txs = <<m>> /\ chainRoot = repo
                 \/ txs = <<>> /\ chainRoot = built[m]
        /\ (\A m \in Mgmt : mpc[m] # "sent") =>
              inFlight = 0 /\ txs = <<>> /\ chainRoot = repo
        /\ chainRoot = chainCert

\* A second attempt begins when no request is at work, so it has the
\* contract's root until the next transaction.
RetryInv ==
    Calm /\ mode = "chain" =>
        \A a \in Auths :
            /\ apc[a] = "new" => a \notin retried
            /\ Stable(a) => \A m \in Mgmt : mpc[m] \notin {"posted", "sent"}
            /\ a \in retried \ hit /\ apc[a] = "root" =>
                  proof[a] = chainRoot /\ proof[a][AuthSlot[a]] = src[a]

\* All parts together are preserved by every step.
IInv == TypeOK /\ CacheCoherent /\ SerialInv /\ RetryInv /\ RetrySuffices

\* Nobody waits for ever: an authentication ends, whatever management does.
AuthEnds == \A a \in Auths : (apc[a] = "root") ~> (apc[a] \in {"ok", "failed"})

-------------------------------------------------------------------------------
\* README.md:72, "Management stores the complete certificate and repository
\* state on chain": when no management request is left, the contract has the
\* root of the repository.
StateOnChain == chain = <<>> /\ inFlight = 0 /\ txs = <<>> => chainRoot = repo

===============================================================================

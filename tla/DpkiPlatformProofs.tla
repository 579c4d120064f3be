-------------------------- MODULE DpkiPlatformProofs --------------------------
(***************************************************************************)
(* Proofs about DpkiPlatform, for every repository, every number of        *)
(* management requests and authentications and every number of faults.     *)
(***************************************************************************)
EXTENDS DpkiPlatform, SequenceTheorems, TLAPS

-------------------------------------------------------------------------------
(* Facts about sequences.                                                  *)

\* The promise chain and the pending transactions when one is added.
LEMMA AppendFacts ==
  ASSUME NEW S, NEW s \in Seq(S), NEW e \in S
  PROVE  /\ Append(s, e) \in Seq(S)
         /\ Append(s, e) # <<>>
         /\ s # <<>> => Head(Append(s, e)) = Head(s)
         /\ s = <<>> => Append(s, e) = <<e>>
  <1>1. Append(s, e) \in Seq(S) /\ Append(s, e) # <<>>
    BY AppendProperties
  <1>2. s # <<>> => Head(Append(s, e)) = Head(s)
    BY HeadTailAppend
  <1>3. Append(<<>>, e) = <<e>>
    OBVIOUS
  <1> QED BY <1>1, <1>2, <1>3

\* The same when the first one is done.
LEMMA TailFacts ==
  ASSUME NEW S, NEW s \in Seq(S), s # <<>>
  PROVE  Head(s) \in S /\ Tail(s) \in Seq(S)
  OBVIOUS

\* The end of the promise chain.
LEMMA LastFacts ==
  ASSUME NEW S, NEW s \in Seq(S), s # <<>>
  PROVE  s[Len(s)] \in S /\ s[Len(s)] \in Range(s)
  <1>1. Len(s) \in 1..Len(s) /\ DOMAIN s = 1..Len(s)
    OBVIOUS
  <1>2. s[Len(s)] \in S
    BY <1>1
  <1> QED BY <1>1, <1>2 DEF Range

\* A single transaction.
LEMMA OneFacts ==
  ASSUME NEW e
  PROVE  /\ Head(<<e>>) = e /\ Tail(<<e>>) = <<>> /\ <<e>> # <<>>
         /\ e \in Range(<<e>>) /\ Len(<<e>>) = 1 /\ Range(<<>>) = {}
  <1>1. DOMAIN <<e>> = {1} /\ <<e>>[1] = e
    OBVIOUS
  <1>2. e \in Range(<<e>>)
    BY <1>1 DEF Range
  <1>3. Range(<<>>) = {}
    BY DEF Range
  <1> QED BY <1>2, <1>3

\* A transaction that is dropped leaves the others in order (TxDropped).
LEMMA DropFacts ==
  ASSUME NEW S, NEW s \in Seq(S), NEW i \in 1..Len(s)
  PROVE  /\ SubSeq(s, 1, i - 1) \o SubSeq(s, i + 1, Len(s)) \in Seq(S)
         /\ Len(s) = 1 =>
              SubSeq(s, 1, i - 1) \o SubSeq(s, i + 1, Len(s)) = <<>>
  <1>1. SubSeq(s, 1, i - 1) \in Seq(S) /\ Len(SubSeq(s, 1, i - 1)) = i - 1
    <2>1. 1 \in Int /\ i - 1 \in Int /\ \A j \in 1..(i - 1) : s[j] \in S
      OBVIOUS
    <2> QED BY <2>1, SubSeqProperties
  <1>2. /\ SubSeq(s, i + 1, Len(s)) \in Seq(S)
        /\ Len(SubSeq(s, i + 1, Len(s))) = Len(s) - i
    <2>1. /\ i + 1 \in Int /\ Len(s) \in Int
          /\ \A j \in (i + 1)..Len(s) : s[j] \in S
      OBVIOUS
    <2> QED BY <2>1, SubSeqProperties
  <1> DEFINE u == SubSeq(s, 1, i - 1)
             v == SubSeq(s, i + 1, Len(s))
  <1>3. u \o v \in Seq(S) /\ Len(u \o v) = Len(u) + Len(v)
    BY <1>1, <1>2, ConcatProperties
  <1> HIDE DEF u, v
  <1>4. ASSUME Len(s) = 1
        PROVE  u \o v = <<>>
    <2>1. Len(u \o v) = 0
      BY <1>1, <1>2, <1>3, <1>4 DEF u, v
    <2> QED BY <2>1, <1>3, EmptySeq
  <1> QED BY <1>3, <1>4 DEF u, v

\* A call that is added to the chain leaves the others on it.
LEMMA RangeAppend ==
  ASSUME NEW S, NEW s \in Seq(S), NEW e \in S
  PROVE  Range(s) \subseteq Range(Append(s, e))
  <1> SUFFICES ASSUME NEW k \in 1..Len(s)
               PROVE  s[k] \in Range(Append(s, e))
    BY DEF Range
  <1>1. k \in 1..Len(Append(s, e)) /\ Append(s, e)[k] = s[k]
    OBVIOUS
  <1> QED BY <1>1 DEF Range

\* A record replaced in a repository.
LEMMA UpdateFacts ==
  ASSUME NEW f \in Contents, NEW m \in Mgmt
  PROVE  [f EXCEPT ![SlotOf[m]] = m] \in Contents
  BY PlatformAssumption DEF Contents, Certs

-------------------------------------------------------------------------------
(* Types and caches.                                                       *)

\* Every step of the platform keeps the types.
LEMMA TypeStep ==
  ASSUME TypeOK, [Next]_vars
  PROVE  TypeOK'
  <1>1. ASSUME NEW m \in Mgmt, managementRequest(m)
        PROVE  TypeOK'
    BY <1>1, PlatformAssumption, AppendFacts
    DEF managementRequest, MGoto, TypeOK, Contents, Certs, mgmtVars,
        repoVars, chainVars, authVars, faultVars
  <1>2. ASSUME NEW m \in Mgmt, Post(m)
        PROVE  TypeOK'
    BY <1>2, PlatformAssumption
    DEF Post, MGoto, TypeOK, Contents, Certs, mgmtVars, repoVars, chainVars,
        authVars, faultVars
  <1>3. ASSUME NEW m \in Mgmt, managementRequestCore(m)
        PROVE  TypeOK'
    <2>1. /\ [repo EXCEPT ![SlotOf[m]] = m] \in Contents
          /\ [x509 EXCEPT ![SlotOf[m]] = m] \in Contents
      BY UpdateFacts DEF TypeOK
    <2>2. txs' \in Seq(Mgmt)
      BY <1>3, AppendFacts DEF managementRequestCore, TypeOK
    <2>3. built' \in [Mgmt -> Contents] /\ x509' \in Contents
      BY <1>3, <2>1 DEF managementRequestCore, TypeOK
    <2>. QED
      BY <1>3, <2>2, <2>3
      DEF managementRequestCore, MGoto, TypeOK, mgmtVars, repoVars,
          chainVars, authVars, faultVars
  <1>4. ASSUME NEW m \in Mgmt, Receipt(m)
        PROVE  TypeOK'
    <2>1. /\ [repo EXCEPT ![SlotOf[m]] = m] \in Contents
          /\ [x509 EXCEPT ![SlotOf[m]] = m] \in Contents
      BY UpdateFacts DEF TypeOK
    <2>2. repo' \in Contents /\ built[m] \in Contents
      BY <1>4, <2>1 DEF Receipt, TypeOK
    <2>3. tree' \in {repo', None} /\ rootCache' \in {built[m], NoMap}
      BY <1>4, Zenon DEF Receipt
    <2>4. mpc' = [mpc EXCEPT ![m] = "done"] \/ mpc' = [mpc EXCEPT ![m] = "error"]
      BY <1>4, Zenon DEF Receipt, MGoto
    <2>5. /\ finishManagementUpdate
          /\ UNCHANGED <<mode, chain, built, x509, chainVars, authVars, faultVars>>
      BY <1>4, Zenon DEF Receipt
    <2>. QED
      BY <2>2, <2>3, <2>4, <2>5
      DEF finishManagementUpdate, TypeOK, mgmtVars, repoVars, chainVars,
          authVars, faultVars
  <1>5. ASSUME NEW m \in Mgmt, Settle(m)
        PROVE  TypeOK'
    BY <1>5, PlatformAssumption, TailFacts
    DEF Settle, TypeOK, Contents, Certs, mgmtVars, repoVars, chainVars,
        authVars, faultVars
  <1>6. ASSUME NEW m \in Mgmt, IssueFails(m)
        PROVE  TypeOK'
    <2>1. /\ [repo EXCEPT ![SlotOf[m]] = m] \in Contents
          /\ [x509 EXCEPT ![SlotOf[m]] = m] \in Contents
      BY UpdateFacts DEF TypeOK
    <2>2. x509' \in Contents
      BY <1>6, <2>1, Zenon DEF IssueFails, TypeOK
    <2>3. rejects' \in 0..MaxRejects
      BY <1>6, PlatformAssumption DEF IssueFails, TypeOK
    <2>. QED
      BY <1>6, <2>2, <2>3
      DEF IssueFails, MGoto, TypeOK, mgmtVars, repoVars, chainVars, authVars,
          faultVars
  <1>7. ASSUME NEW m \in Mgmt, TxDropped(m)
        PROVE  TypeOK'
    <2>1. txs' \in Seq(Mgmt)
      <3>1. txs \in Seq(Mgmt)
        BY DEF TypeOK
      <3>2. PICK i \in 1..Len(txs) :
              txs' = SubSeq(txs, 1, i - 1) \o SubSeq(txs, i + 1, Len(txs))
        BY <1>7, Zenon DEF TxDropped
      <3>. QED
        BY ONLY <3>1, <3>2, DropFacts, Zenon
    <2>2. rejects' \in 0..MaxRejects
      <3>1. rejects < MaxRejects /\ rejects' = rejects + 1
        BY <1>7, Zenon DEF TxDropped
      <3>2. rejects \in 0..MaxRejects
        BY Zenon DEF TypeOK
      <3>. QED
        BY ONLY <3>1, <3>2, PlatformAssumption
    <2>3. /\ MGoto(m, "error")
          /\ finishManagementUpdate
          /\ UNCHANGED <<mode, chain, built, repoVars, chainRoot, chainCert,
                         authVars, timeouts, lost, deadlines>>
      BY <1>7, Zenon DEF TxDropped
    <2>. QED
      BY <2>1, <2>2, <2>3
      DEF MGoto, finishManagementUpdate, TypeOK, repoVars, authVars
  <1>8. ASSUME NEW m \in Mgmt, ReceiptLost(m)
        PROVE  TypeOK'
    BY <1>8, PlatformAssumption
    DEF ReceiptLost, MGoto, finishManagementUpdate, TypeOK, Contents, Certs,
        mgmtVars, repoVars, chainVars, authVars, faultVars
  <1>9. ASSUME NEW m \in Mgmt, Timeout(m)
        PROVE  TypeOK'
    BY <1>9, PlatformAssumption, TailFacts
    DEF Timeout, TypeOK, Contents, Certs, mgmtVars, repoVars, chainVars,
        authVars, faultVars
  <1>10. CASE putCertificateAndDomainRoot
    BY <1>10, PlatformAssumption, TailFacts
    DEF putCertificateAndDomainRoot, TypeOK, Contents, Certs, mgmtVars,
        repoVars, chainVars, authVars, faultVars
  <1>11. ASSUME NEW a \in Auths, ReadRoot(a)
        PROVE  TypeOK'
    BY <1>11, PlatformAssumption
    DEF ReadRoot, AGoto, Verdict, DomainRoot, NoRootCached, RepoTree, TypeOK,
        Contents, Certs, mgmtVars, repoVars, chainVars, authVars, faultVars
  <1>12. ASSUME NEW a \in Auths, waitForPlatformStable(a)
        PROVE  TypeOK'
    BY <1>12, PlatformAssumption, LastFacts
    DEF waitForPlatformStable, AGoto, TypeOK, Contents, Certs, mgmtVars,
        repoVars, chainVars, authVars, faultVars
  <1>13. ASSUME NEW a \in Auths, Retry(a)
        PROVE  TypeOK'
    BY <1>13, PlatformAssumption
    DEF Retry, AGoto, TypeOK, Contents, Certs, mgmtVars, repoVars, chainVars,
        authVars, faultVars
  <1>14. ASSUME NEW a \in Auths, NEW r \in BOOLEAN, AuthExecute(a, r)
        PROVE  TypeOK'
    BY <1>14, PlatformAssumption
    DEF AuthExecute, AGoto, RepoTree, TypeOK, Contents, Certs, mgmtVars,
        repoVars, chainVars, authVars, faultVars
  <1>15. CASE UNCHANGED vars
    BY <1>15, PlatformAssumption
    DEF TypeOK, Contents, Certs, vars, mgmtVars, repoVars, chainVars,
        authVars, faultVars
  <1>. QED
    BY <1>1, <1>2, <1>3, <1>4, <1>5, <1>6, <1>7, <1>8,
       <1>9, <1>10, <1>11, <1>12, <1>13, <1>14, <1>15
    DEF Next, Manage, Fail, Auth, Finished

\* The caches follow the repository: whatever replaces a record drops the tree
\* in the same step (invalidateDomainCache).
LEMMA CacheStep ==
  ASSUME TypeOK, CacheCoherent, [Next]_vars
  PROVE  CacheCoherent'
  <1>1. ASSUME NEW m \in Mgmt, managementRequest(m)
        PROVE  CacheCoherent'
    BY <1>1, PlatformAssumption
    DEF managementRequest, MGoto, TypeOK, CacheCoherent, Contents, Certs,
        mgmtVars, repoVars, chainVars, authVars, faultVars
  <1>2. ASSUME NEW m \in Mgmt, Post(m)
        PROVE  CacheCoherent'
    BY <1>2, PlatformAssumption
    DEF Post, MGoto, TypeOK, CacheCoherent, Contents, Certs, mgmtVars,
        repoVars, chainVars, authVars, faultVars
  <1>3. ASSUME NEW m \in Mgmt, managementRequestCore(m)
        PROVE  CacheCoherent'
    BY <1>3, PlatformAssumption
    DEF managementRequestCore, MGoto, TypeOK, CacheCoherent, Contents, Certs,
        mgmtVars, repoVars, chainVars, authVars, faultVars
  <1>4. ASSUME NEW m \in Mgmt, Receipt(m)
        PROVE  CacheCoherent'
    BY <1>4, PlatformAssumption
    DEF Receipt, MGoto, finishManagementUpdate, TypeOK, CacheCoherent,
        Contents, Certs, mgmtVars, repoVars, chainVars, authVars, faultVars
  <1>5. ASSUME NEW m \in Mgmt, Settle(m)
        PROVE  CacheCoherent'
    BY <1>5, PlatformAssumption
    DEF Settle, TypeOK, CacheCoherent, Contents, Certs, mgmtVars, repoVars,
        chainVars, authVars, faultVars
  <1>6. ASSUME NEW m \in Mgmt, IssueFails(m)
        PROVE  CacheCoherent'
    BY <1>6, PlatformAssumption
    DEF IssueFails, MGoto, TypeOK, CacheCoherent, Contents, Certs, mgmtVars,
        repoVars, chainVars, authVars, faultVars
  <1>7. ASSUME NEW m \in Mgmt, TxDropped(m)
        PROVE  CacheCoherent'
    BY <1>7, PlatformAssumption
    DEF TxDropped, MGoto, finishManagementUpdate, TypeOK, CacheCoherent,
        Contents, Certs, mgmtVars, repoVars, chainVars, authVars, faultVars
  <1>8. ASSUME NEW m \in Mgmt, ReceiptLost(m)
        PROVE  CacheCoherent'
    BY <1>8, PlatformAssumption
    DEF ReceiptLost, MGoto, finishManagementUpdate, TypeOK, CacheCoherent,
        Contents, Certs, mgmtVars, repoVars, chainVars, authVars, faultVars
  <1>9. ASSUME NEW m \in Mgmt, Timeout(m)
        PROVE  CacheCoherent'
    BY <1>9, PlatformAssumption
    DEF Timeout, TypeOK, CacheCoherent, Contents, Certs, mgmtVars, repoVars,
        chainVars, authVars, faultVars
  <1>10. CASE putCertificateAndDomainRoot
    BY <1>10, PlatformAssumption
    DEF putCertificateAndDomainRoot, TypeOK, CacheCoherent, Contents, Certs,
        mgmtVars, repoVars, chainVars, authVars, faultVars
  <1>11. ASSUME NEW a \in Auths, ReadRoot(a)
        PROVE  CacheCoherent'
    BY <1>11, PlatformAssumption
    DEF ReadRoot, AGoto, Verdict, DomainRoot, NoRootCached, RepoTree, TypeOK,
        CacheCoherent, Contents, Certs, mgmtVars, repoVars, chainVars,
        authVars, faultVars
  <1>12. ASSUME NEW a \in Auths, waitForPlatformStable(a)
        PROVE  CacheCoherent'
    BY <1>12, PlatformAssumption
    DEF waitForPlatformStable, AGoto, TypeOK, CacheCoherent, Contents, Certs,
        mgmtVars, repoVars, chainVars, authVars, faultVars
  <1>13. ASSUME NEW a \in Auths, Retry(a)
        PROVE  CacheCoherent'
    BY <1>13, PlatformAssumption
    DEF Retry, AGoto, TypeOK, CacheCoherent, Contents, Certs, mgmtVars,
        repoVars, chainVars, authVars, faultVars
  <1>14. ASSUME NEW a \in Auths, NEW r \in BOOLEAN, AuthExecute(a, r)
        PROVE  CacheCoherent'
    BY <1>14, PlatformAssumption
    DEF AuthExecute, AGoto, RepoTree, TypeOK, CacheCoherent, Contents, Certs,
        mgmtVars, repoVars, chainVars, authVars, faultVars
  <1>15. CASE UNCHANGED vars
    BY <1>15, PlatformAssumption
    DEF TypeOK, CacheCoherent, Contents, Certs, vars, mgmtVars, repoVars,
        chainVars, authVars, faultVars
  <1>. QED
    BY <1>1, <1>2, <1>3, <1>4, <1>5, <1>6, <1>7, <1>8,
       <1>9, <1>10, <1>11, <1>12, <1>13, <1>14, <1>15
    DEF Next, Manage, Fail, Auth, Finished

-------------------------------------------------------------------------------
(* One management request at a time.                                       *)

\* While nothing is given up the promise chain lets one request work at a time,
\* so that it builds on the root the contract has.
LEMMA SerialStep ==
  ASSUME TypeOK, SerialInv, [Next]_vars
  PROVE  SerialInv'
  <1>1. ASSUME NEW m \in Mgmt, managementRequest(m)
        PROVE  SerialInv'
    BY <1>1, PlatformAssumption, AppendFacts
    DEF managementRequest, MGoto, TypeOK, SerialInv, Calm, mgmtVars,
        repoVars, chainVars, authVars, faultVars
  <1>2. ASSUME NEW m \in Mgmt, Post(m)
        PROVE  SerialInv'
    BY <1>2, PlatformAssumption
    DEF Post, MGoto, TypeOK, SerialInv, Calm, mgmtVars, repoVars, chainVars,
        authVars, faultVars
  <1>3. ASSUME NEW m \in Mgmt, managementRequestCore(m)
        PROVE  SerialInv'
    <2> SUFFICES ASSUME Calm
                 PROVE  SerialInv'
      BY <1>3, Zenon DEF managementRequestCore, SerialInv, Calm, faultVars
    <2>1. /\ chain # <<>> /\ Head(chain) = m
          /\ \A n \in Mgmt : mpc[n] # "sent"
      BY <1>3 DEF managementRequestCore, SerialInv
    <2>2. /\ inFlight = 0 /\ txs = <<>>
          /\ chainRoot = repo /\ chainRoot = chainCert
      BY <2>1 DEF SerialInv
    <2>3. txs' = <<m>>
      BY <1>3, <2>2, AppendFacts DEF managementRequestCore, TypeOK
    <2>4. /\ mpc' = [mpc EXCEPT ![m] = "sent"]
          /\ inFlight' = 1
          /\ built'[m] = [repo EXCEPT ![SlotOf[m]] = m]
          /\ UNCHANGED <<chain, repo, chainRoot, chainCert>>
      BY <1>3, <2>2 DEF managementRequestCore, MGoto, TypeOK
    <2>5. \A n \in Mgmt \ {m} : mpc'[n] \notin {"posted", "sent"}
      BY <1>3, <2>1, <2>4 DEF SerialInv, TypeOK
    <2>6. mpc'[m] = "sent"
      BY <2>4 DEF TypeOK
    <2>. QED
      BY <2>1, <2>2, <2>3, <2>4, <2>5, <2>6 DEF SerialInv
  <1>4. ASSUME NEW m \in Mgmt, Receipt(m)
        PROVE  SerialInv'
    BY <1>4, PlatformAssumption, OneFacts
    DEF Receipt, MGoto, finishManagementUpdate, TypeOK, SerialInv, Calm,
        mgmtVars, repoVars, chainVars, authVars, faultVars
  <1>5. ASSUME NEW m \in Mgmt, Settle(m)
        PROVE  SerialInv'
    BY <1>5, PlatformAssumption, TailFacts
    DEF Settle, TypeOK, SerialInv, Calm, mgmtVars, repoVars, chainVars,
        authVars, faultVars
  <1>6. ASSUME NEW m \in Mgmt, IssueFails(m)
        PROVE  SerialInv'
    BY <1>6, PlatformAssumption
    DEF IssueFails, MGoto, TypeOK, SerialInv, Calm, mgmtVars, repoVars,
        chainVars, authVars, faultVars
  <1>7. ASSUME NEW m \in Mgmt, TxDropped(m)
        PROVE  SerialInv'
    <2> SUFFICES ASSUME Calm
                 PROVE  SerialInv'
      BY <1>7, Zenon DEF TxDropped, SerialInv, Calm, faultVars
    <2>1. PICK i \in 1..Len(txs) :
            txs' = SubSeq(txs, 1, i - 1) \o SubSeq(txs, i + 1, Len(txs))
      BY <1>7 DEF TxDropped
    <2>2. txs # <<>>
      BY <2>1 DEF TypeOK
    <2>3. /\ inFlight = 1 /\ txs = <<m>>
          /\ chainRoot = repo /\ chainRoot = chainCert
      BY <1>7, <2>2 DEF TxDropped, SerialInv
    <2>4. txs' = <<>>
      BY <2>1, <2>3, OneFacts, DropFacts DEF TypeOK
    <2>5. /\ mpc' = [mpc EXCEPT ![m] = "error"]
          /\ inFlight' = 0
          /\ UNCHANGED <<chain, repo, chainRoot, chainCert>>
      BY <1>7, <2>3
      DEF TxDropped, MGoto, finishManagementUpdate, repoVars
    <2>6. \A n \in Mgmt : mpc'[n] \notin {"posted", "sent"}
      BY <1>7, <2>5 DEF TxDropped, SerialInv, TypeOK
    <2>. QED
      BY <2>3, <2>4, <2>5, <2>6 DEF SerialInv
  <1>8. ASSUME NEW m \in Mgmt, ReceiptLost(m)
        PROVE  SerialInv'
    BY <1>8, PlatformAssumption
    DEF ReceiptLost, MGoto, finishManagementUpdate, TypeOK, SerialInv, Calm,
        mgmtVars, repoVars, chainVars, authVars, faultVars
  <1>9. ASSUME NEW m \in Mgmt, Timeout(m)
        PROVE  SerialInv'
    BY <1>9, PlatformAssumption, TailFacts
    DEF Timeout, TypeOK, SerialInv, Calm, mgmtVars, repoVars, chainVars,
        authVars, faultVars
  <1>10. CASE putCertificateAndDomainRoot
    BY <1>10, PlatformAssumption, OneFacts
    DEF putCertificateAndDomainRoot, TypeOK, SerialInv, Calm, mgmtVars,
        repoVars, chainVars, authVars, faultVars
  <1>11. ASSUME NEW a \in Auths, ReadRoot(a)
        PROVE  SerialInv'
    BY <1>11, PlatformAssumption
    DEF ReadRoot, AGoto, Verdict, DomainRoot, NoRootCached, RepoTree, TypeOK,
        SerialInv, Calm, mgmtVars, repoVars, chainVars, authVars, faultVars
  <1>12. ASSUME NEW a \in Auths, waitForPlatformStable(a)
        PROVE  SerialInv'
    BY <1>12, PlatformAssumption, LastFacts
    DEF waitForPlatformStable, AGoto, TypeOK, SerialInv, Calm, mgmtVars,
        repoVars, chainVars, authVars, faultVars
  <1>13. ASSUME NEW a \in Auths, Retry(a)
        PROVE  SerialInv'
    BY <1>13, PlatformAssumption
    DEF Retry, AGoto, TypeOK, SerialInv, Calm, mgmtVars, repoVars, chainVars,
        authVars, faultVars
  <1>14. ASSUME NEW a \in Auths, NEW r \in BOOLEAN, AuthExecute(a, r)
        PROVE  SerialInv'
    BY <1>14, PlatformAssumption
    DEF AuthExecute, AGoto, RepoTree, TypeOK, SerialInv, Calm, mgmtVars,
        repoVars, chainVars, authVars, faultVars
  <1>15. CASE UNCHANGED vars
    BY <1>15, PlatformAssumption
    DEF TypeOK, SerialInv, Calm, vars, mgmtVars, repoVars, chainVars,
        authVars, faultVars
  <1>. QED
    BY <1>1, <1>2, <1>3, <1>4, <1>5, <1>6, <1>7, <1>8,
       <1>9, <1>10, <1>11, <1>12, <1>13, <1>14, <1>15
    DEF Next, Manage, Fail, Auth, Finished

-------------------------------------------------------------------------------
(* The second attempt of an authentication.                                *)

\* What the comparison of roots says: okRoot and verifyMpt together accept
\* exactly a proof of the certificate under the root that was read.
LEMMA VerdictFacts ==
  ASSUME NEW a \in Auths, NEW root
  PROVE  /\ Verdict(a, root) \in {"wait", "failed", "ok"}
         /\ Verdict(a, root) = "ok" <=>
              root = proof[a] /\ proof[a][AuthSlot[a]] = src[a]
  <1>1. CASE root # proof[a] /\ canRetry[a]
    BY <1>1, Zenon DEF Verdict
  <1>2. CASE root # proof[a] /\ ~canRetry[a]
    BY <1>2, Zenon DEF Verdict
  <1>3. CASE root = proof[a]
    BY <1>3, Zenon DEF Verdict
  <1>. QED
    BY <1>1, <1>2, <1>3

\* --dpki-root-read-mode chain reads the contract.
LEMMA ChainRoot ==
  ASSUME mode = "chain"
  PROVE  DomainRoot = chainRoot
  BY Zenon DEF DomainRoot

\* A second attempt starts on the contract's root and loses it to a new
\* transaction only.
LEMMA RetryStep ==
  ASSUME TypeOK, SerialInv, RetryInv, RetrySuffices, [Next]_vars
  PROVE  RetryInv' /\ RetrySuffices'
  <1>1. ASSUME NEW m \in Mgmt, managementRequest(m)
        PROVE  RetryInv' /\ RetrySuffices'
    BY <1>1, PlatformAssumption, RangeAppend
    DEF managementRequest, MGoto, TypeOK, SerialInv, RetryInv, RetrySuffices,
        Stable, Calm, mgmtVars, repoVars, chainVars, authVars, faultVars
  <1>2. ASSUME NEW m \in Mgmt, Post(m)
        PROVE  RetryInv' /\ RetrySuffices'
    BY <1>2, PlatformAssumption
    DEF Post, MGoto, TypeOK, SerialInv, RetryInv, RetrySuffices, Stable,
        Calm, mgmtVars, repoVars, chainVars, authVars, faultVars
  <1>3. ASSUME NEW m \in Mgmt, managementRequestCore(m)
        PROVE  RetryInv' /\ RetrySuffices'
    BY <1>3, PlatformAssumption
    DEF managementRequestCore, MGoto, TypeOK, SerialInv, RetryInv,
        RetrySuffices, Stable, Calm, mgmtVars, repoVars, chainVars, authVars,
        faultVars
  <1>4. ASSUME NEW m \in Mgmt, Receipt(m)
        PROVE  RetryInv' /\ RetrySuffices'
    BY <1>4, PlatformAssumption
    DEF Receipt, MGoto, finishManagementUpdate, TypeOK, SerialInv, RetryInv,
        RetrySuffices, Stable, Calm, mgmtVars, repoVars, chainVars, authVars,
        faultVars
  <1>5. ASSUME NEW m \in Mgmt, Settle(m)
        PROVE  RetryInv' /\ RetrySuffices'
    BY <1>5, PlatformAssumption
    DEF Settle, TypeOK, SerialInv, RetryInv, RetrySuffices, Stable, Calm,
        mgmtVars, repoVars, chainVars, authVars, faultVars
  <1>6. ASSUME NEW m \in Mgmt, IssueFails(m)
        PROVE  RetryInv' /\ RetrySuffices'
    BY <1>6, PlatformAssumption
    DEF IssueFails, MGoto, TypeOK, SerialInv, RetryInv, RetrySuffices,
        Stable, Calm, mgmtVars, repoVars, chainVars, authVars, faultVars
  <1>7. ASSUME NEW m \in Mgmt, TxDropped(m)
        PROVE  RetryInv' /\ RetrySuffices'
    BY <1>7, PlatformAssumption
    DEF TxDropped, MGoto, finishManagementUpdate, TypeOK, SerialInv,
        RetryInv, RetrySuffices, Stable, Calm, mgmtVars, repoVars, chainVars,
        authVars, faultVars
  <1>8. ASSUME NEW m \in Mgmt, ReceiptLost(m)
        PROVE  RetryInv' /\ RetrySuffices'
    BY <1>8, PlatformAssumption
    DEF ReceiptLost, MGoto, finishManagementUpdate, TypeOK, SerialInv,
        RetryInv, RetrySuffices, Stable, Calm, mgmtVars, repoVars, chainVars,
        authVars, faultVars
  <1>9. ASSUME NEW m \in Mgmt, Timeout(m)
        PROVE  RetryInv' /\ RetrySuffices'
    BY <1>9, PlatformAssumption
    DEF Timeout, TypeOK, SerialInv, RetryInv, RetrySuffices, Stable, Calm,
        mgmtVars, repoVars, chainVars, authVars, faultVars
  <1>10. CASE putCertificateAndDomainRoot
    BY <1>10, PlatformAssumption
    DEF putCertificateAndDomainRoot, TypeOK, SerialInv, RetryInv,
        RetrySuffices, Stable, Calm, mgmtVars, repoVars, chainVars, authVars,
        faultVars
  <1>11. ASSUME NEW a \in Auths, ReadRoot(a)
        PROVE  RetryInv' /\ RetrySuffices'
    BY <1>11, PlatformAssumption, VerdictFacts, ChainRoot
    DEF ReadRoot, AGoto, TypeOK, SerialInv, RetryInv, RetrySuffices, Stable,
        Calm, mgmtVars, repoVars, chainVars, authVars, faultVars
  <1>12. ASSUME NEW a \in Auths, waitForPlatformStable(a)
        PROVE  RetryInv' /\ RetrySuffices'
    BY <1>12, PlatformAssumption, LastFacts
    DEF waitForPlatformStable, AGoto, TypeOK, SerialInv, RetryInv,
        RetrySuffices, Stable, Calm, mgmtVars, repoVars, chainVars, authVars,
        faultVars
  <1>13. ASSUME NEW a \in Auths, Retry(a)
        PROVE  RetryInv' /\ RetrySuffices'
    BY <1>13, PlatformAssumption
    DEF Retry, AGoto, TypeOK, SerialInv, RetryInv, RetrySuffices, Stable,
        Calm, mgmtVars, repoVars, chainVars, authVars, faultVars
  <1>14. ASSUME NEW a \in Auths, NEW r \in BOOLEAN, AuthExecute(a, r)
        PROVE  RetryInv' /\ RetrySuffices'
    BY <1>14, PlatformAssumption
    DEF AuthExecute, AGoto, TypeOK, SerialInv, RetryInv, RetrySuffices,
        Stable, Calm, mgmtVars, repoVars, chainVars, authVars, faultVars
  <1>15. CASE UNCHANGED vars
    BY <1>15, PlatformAssumption
    DEF TypeOK, SerialInv, RetryInv, RetrySuffices, Stable, Calm, vars,
        mgmtVars, repoVars, chainVars, authVars, faultVars
  <1>. QED
    BY <1>1, <1>2, <1>3, <1>4, <1>5, <1>6, <1>7, <1>8,
       <1>9, <1>10, <1>11, <1>12, <1>13, <1>14, <1>15
    DEF Next, Manage, Fail, Auth, Finished

-------------------------------------------------------------------------------
(* The theorems.                                                           *)

\* The initial platform, after syncRootsAndCerts.
LEMMA InitInv == Init => IInv
  <1> SUFFICES ASSUME Init PROVE IInv
    OBVIOUS
  <1>1. TypeOK
    BY PlatformAssumption DEF Init, TypeOK, Contents, Certs
  <1>2. CacheCoherent /\ SerialInv
    BY DEF Init, CacheCoherent, SerialInv
  <1>3. RetryInv /\ RetrySuffices
    BY DEF Init, RetryInv, RetrySuffices, Stable
  <1>. QED
    BY <1>1, <1>2, <1>3 DEF IInv

\* Every step of management, contract and authentication keeps the invariant.
LEMMA StepInv == IInv /\ [Next]_vars => IInv'
  <1> SUFFICES ASSUME IInv, [Next]_vars PROVE IInv'
    OBVIOUS
  <1>1. TypeOK' /\ CacheCoherent'
    BY TypeStep, CacheStep DEF IInv
  <1>2. SerialInv'
    BY SerialStep DEF IInv
  <1>3. RetryInv' /\ RetrySuffices'
    BY RetryStep DEF IInv
  <1>. QED
    BY <1>1, <1>2, <1>3 DEF IInv

\* The inductive invariant holds in every reachable state of the platform.
THEOREM Invariance == Spec => []IInv
  BY InitInv, StepInv, PTL DEF Spec

\* Types.
THEOREM TypeCorrect == Spec => []TypeOK
  <1>1. IInv => TypeOK
    BY DEF IInv
  <1>. QED
    BY <1>1, Invariance, PTL

\* The responder's tree cache is the tree of its repository, under every fault.
THEOREM CacheIsCoherent == Spec => []CacheCoherent
  <1>1. IInv => CacheCoherent
    BY DEF IInv
  <1>. QED
    BY <1>1, Invariance, PTL

\* Between updates the contract has the root of the repository, as long as no
\* HTTP call and no receipt was given up.
THEOREM RootIsStable == Spec => []StableRoot
  <1>1. IInv => StableRoot
    <2> SUFFICES ASSUME IInv, Calm, inFlight = 0 PROVE chainRoot = repo
      BY DEF StableRoot
    <2>1. \A m \in Mgmt : mpc[m] # "sent"
      BY DEF IInv, SerialInv
    <2>. QED
      BY <2>1 DEF IInv, SerialInv
  <1>. QED
    BY <1>1, Invariance, PTL

\* Root and certificates of the contract agree under the same condition.
THEOREM ContractAgrees == Spec => []OnChainAgrees
  <1>1. IInv => OnChainAgrees
    BY DEF IInv, SerialInv, OnChainAgrees
  <1>. QED
    BY <1>1, Invariance, PTL

\* One retry of an authentication is enough.
THEOREM OneRetryIsEnough == Spec => []RetrySuffices
  <1>1. IInv => RetrySuffices
    BY DEF IInv
  <1>. QED
    BY <1>1, Invariance, PTL

\* Who is accepted with a root read from the contract holds the certificate
\* that the contract has at that moment.
THEOREM AcceptedIsCurrent == Spec => AuthCurrent
  <1>1. IInv /\ [Next]_vars =>
          [\A a \in Auths :
              apc[a] = "root" /\ apc'[a] = "ok" /\ Calm /\ mode = "chain" =>
                  src[a] = chainCert[AuthSlot[a]]]_vars
    <2> SUFFICES ASSUME IInv, [Next]_vars, NEW a \in Auths,
                        apc[a] = "root", apc'[a] = "ok", Calm, mode = "chain"
                 PROVE  src[a] = chainCert[AuthSlot[a]]
      OBVIOUS
    <2>1. chainRoot = chainCert
      BY DEF IInv, SerialInv
    <2>2. PICK b \in Auths : ReadRoot(b) /\ b = a
      <3> USE DEF IInv, TypeOK
      <3>1. CASE UNCHANGED vars
        BY <3>1 DEF vars, authVars
      <3>2. CASE \E m \in Mgmt : managementRequest(m) \/ Manage(m) \/ Fail(m)
        BY <3>2
        DEF Manage, Fail, managementRequest, Post, managementRequestCore,
            Receipt, Settle, IssueFails, TxDropped, ReceiptLost, Timeout,
            authVars
      <3>3. CASE putCertificateAndDomainRoot
        BY <3>3 DEF putCertificateAndDomainRoot
      <3>4. ASSUME NEW b \in Auths, Auth(b) \/ \E r \in BOOLEAN : AuthExecute(b, r)
            PROVE  ReadRoot(b) /\ b = a
        <4>1. CASE ReadRoot(b)
          BY <4>1 DEF ReadRoot, AGoto
        <4>2. CASE waitForPlatformStable(b) \/ Retry(b)
          BY <4>2 DEF waitForPlatformStable, Retry, AGoto
        <4>3. CASE \E r \in BOOLEAN : AuthExecute(b, r)
          BY <4>3 DEF AuthExecute, AGoto
        <4>. QED
          BY <3>4, <4>1, <4>2, <4>3 DEF Auth
      <3>. QED
        BY <3>1, <3>2, <3>3, <3>4 DEF Next, Finished
    <2>3. apc'[a] = Verdict(a, chainRoot)
      BY <2>2, ChainRoot DEF ReadRoot, AGoto, IInv, TypeOK
    <2>. QED
      BY <2>1, <2>3, VerdictFacts
  <1>. QED
    BY <1>1, Invariance, PTL DEF Spec, AuthCurrent

===============================================================================

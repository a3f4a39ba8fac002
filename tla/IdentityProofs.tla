--------------------------- MODULE IdentityProofs ---------------------------
(***************************************************************************)
(* Proofs about Identity for any number of concurrent requests, sessions,  *)
(* recovery codes and allowed failures: no wrong password is lost from the *)
(* count, a recovery code is used once, and a revocation is final.         *)
(***************************************************************************)
EXTENDS Identity, TLAPS

\* The row lock of users serialises the logins: the one under way holds it and
\* has read the counter as it still is, so none of the wrong passwords is lost.
LoginsSerial ==
  /\ \A r \in Requests : request[r].wants = "LOGIN" => holder = r /\ request[r].read = failures
  /\ wrong = failures /\ failures < MaxFailures

\* Row locks serialise the uses of a code: a request that uses one holds its
\* row, which is unconsumed, and deleting the codes waits for it.  The codes are
\* those of the latest batch.
CodesSerial ==
  /\ \A c \in Codes : uses[c] <= 1 /\ (c[1] > batches => uses[c] = 0)
  /\ \A c \in codes : c[1] = batches /\ (c \notin consumed => uses[c] = 0)
  /\ \A r \in Requests : IF request[r].wants = "RECOVER"
                         THEN request[r].code \in codes \ consumed
                         ELSE request[r].code = NoCode
  /\ \A q, r \in Requests : request[q].code = request[r].code => q = r \/ request[q].code = NoCode

\* A request that writes a session names one, and the seed an enrollment has
\* read was generated.
RequestsNameRows ==
  \A r \in Requests :
    /\ request[r].wants \in {"REFRESH", "CONFIRM", "RECOVER"} => request[r].session \in Sessions
    /\ request[r].wants = "ENROLL" => request[r].read \in 0..seeds

IdentityInv == IdentityTypeOK /\ LoginsSerial /\ CodesSerial /\ RequestsNameRows

\* The code no request presents is not a code.
LEMMA NoCodeIsNone == NoCode \notin Codes
  BY IdentityAssumption DEF NoCode, Codes

\* What a request holds.
LEMMA RequestType ==
  ASSUME IdentityInv
  PROVE  request \in [Requests -> [wants : Wants, session : Sessions \cup {"NONE"}, read : Nat,
                                   code : Codes \cup {NoCode}]]
  BY DEF IdentityInv, IdentityTypeOK

\* The end of a request, whatever it has written: nobody else is disturbed.
LEMMA DoneType ==
  ASSUME IdentityInv, NEW r \in Requests, Done(r)
  PROVE  /\ request' \in [Requests -> [wants : Wants, session : Sessions \cup {"NONE"}, read : Nat,
                                       code : Codes \cup {NoCode}]]
         /\ request'[r] = Idle
         /\ \A q \in Requests \ {r} : request'[q] = request[q]
  <1>1. Idle \in [wants : Wants, session : Sessions \cup {"NONE"}, read : Nat,
                  code : Codes \cup {NoCode}]
    BY DEF Idle, Wants
  <1> QED BY <1>1, RequestType DEF Done

\* What a request that begins holds; the others hold what they held.
LEMMA BeginType ==
  ASSUME IdentityInv, NEW r \in Requests, NEW wants \in Wants, NEW s \in Sessions \cup {"NONE"},
         NEW read \in Nat, NEW code \in Codes \cup {NoCode}, Begin(r, wants, s, read, code)
  PROVE  /\ request' \in [Requests -> [wants : Wants, session : Sessions \cup {"NONE"}, read : Nat,
                                       code : Codes \cup {NoCode}]]
         /\ request[r] = Idle
         /\ request'[r] = [wants |-> wants, session |-> s, read |-> read, code |-> code]
         /\ \A q \in Requests \ {r} : request'[q] = request[q]
  BY RequestType DEF Begin

\* A new user satisfies the invariant.
LEMMA IdentityInitial == IdentityInit => IdentityInv
  <1> SUFFICES ASSUME IdentityInit PROVE IdentityInv
    OBVIOUS
  <1> USE IdentityAssumption
  <1>1. /\ \A r \in Requests : request[r] = Idle
        /\ request \in [Requests -> [wants : Wants, session : Sessions \cup {"NONE"}, read : Nat,
                                     code : Codes \cup {NoCode}]]
    BY DEF IdentityInit, Idle, Wants
  <1>2. session \in [Sessions -> [status : {"ABSENT", "LIVE", "REVOKED", "EXPIRED"},
                                  token : Nat, verified : BOOLEAN]]
    BY DEF IdentityInit, NewSession, NoSession
  <1>3. IdentityTypeOK
    <2>1. locked \in BOOLEAN /\ enabled \in BOOLEAN
      BY Zenon DEF IdentityInit
    <2>2. /\ failures \in 0..MaxFailures /\ wrong \in Nat
          /\ seed \in 0..seeds /\ seeds \in Nat /\ shown \subseteq 1..seeds
          /\ batches \in 0..MaxBatches
      BY DEF IdentityInit
    <2>3. holder \in Requests \cup {"NOBODY"} /\ codes \subseteq Codes /\ consumed \subseteq codes
      BY DEF IdentityInit
    <2>4. uses \in [Codes -> Nat]
      BY DEF IdentityInit
    <2> QED BY <1>1, <1>2, <2>1, <2>2, <2>3, <2>4 DEF IdentityTypeOK
  <1>4. LoginsSerial /\ CodesSerial /\ RequestsNameRows
    BY <1>1 DEF IdentityInit, LoginsSerial, CodesSerial, RequestsNameRows, Idle
  <1> QED BY <1>3, <1>4 DEF IdentityInv
-----------------------------------------------------------------------------
(* Login.                                                                    *)

\* A login begins with the lock, when no other login is under way.
LEMMA ReadForLoginStep ==
  ASSUME IdentityInv, NEW r \in Requests, ReadForLogin(r) PROVE IdentityInv'
  <1>1. /\ request' \in [Requests -> [wants : Wants, session : Sessions \cup {"NONE"}, read : Nat,
                                       code : Codes \cup {NoCode}]]
        /\ request[r] = Idle
        /\ request'[r] = [wants |-> "LOGIN", session |-> "NONE", read |-> failures, code |-> NoCode]
        /\ \A q \in Requests \ {r} : request'[q] = request[q]
    <2>1. failures \in Nat
      BY DEF IdentityInv, IdentityTypeOK
    <2> QED BY <2>1, BeginType DEF ReadForLogin, Wants
  <1>2. IdentityTypeOK'
    BY <1>1 DEF ReadForLogin, IdentityInv, IdentityTypeOK, totpVars, codeVars
  <1>3. LoginsSerial'
    BY <1>1, IdentityAssumption DEF ReadForLogin, IdentityInv, LoginsSerial
  <1>4. CodesSerial' /\ RequestsNameRows'
    BY <1>1 DEF ReadForLogin, IdentityInv, CodesSerial, RequestsNameRows, codeVars, totpVars, Idle
  <1> QED BY <1>2, <1>3, <1>4 DEF IdentityInv

\* The end of a login, or a crash of any request: no other login is under way
\* when the lock is released.
LEMMA ReleaseStep ==
  ASSUME IdentityInv, NEW r \in Requests, Done(r), Release(r), UNCHANGED <<totpVars, codeVars>>,
         session' \in [Sessions -> [status : {"ABSENT", "LIVE", "REVOKED", "EXPIRED"},
                                    token : Nat, verified : BOOLEAN]],
         locked' \in BOOLEAN, failures' \in 0..MaxFailures, wrong' = failures',
         failures' < MaxFailures, failures' = failures \/ request[r].wants = "LOGIN"
  PROVE  IdentityInv'
  <1>1. request'[r] = Idle /\ \A q \in Requests \ {r} : request'[q] = request[q]
    BY DoneType
  <1>2. IdentityTypeOK'
    BY DoneType DEF Release, IdentityInv, IdentityTypeOK, totpVars, codeVars
  <1>3. LoginsSerial'
    BY <1>1 DEF Release, IdentityInv, LoginsSerial, Idle
  <1>4. CodesSerial' /\ RequestsNameRows'
    BY <1>1 DEF IdentityInv, CodesSerial, RequestsNameRows, codeVars, totpVars, Idle
  <1> QED BY <1>2, <1>3, <1>4 DEF IdentityInv

\* A wrong password is counted from the number that is still stored.
LEMMA WrongPasswordStep ==
  ASSUME IdentityInv, NEW r \in Requests, WrongPassword(r) PROVE IdentityInv'
  <1>1. request[r].read = failures /\ failures \in Nat /\ wrong = failures /\ failures < MaxFailures
    BY DEF WrongPassword, IdentityInv, IdentityTypeOK, LoginsSerial
  <1>2. /\ failures' \in 0..MaxFailures /\ wrong' = failures' /\ failures' < MaxFailures
        /\ locked' \in BOOLEAN
    BY <1>1, IdentityAssumption DEF WrongPassword
  <1> QED BY <1>2, ReleaseStep DEF WrongPassword, IdentityInv, IdentityTypeOK

\* Other ends of a login release the lock; a right password starts the count anew.
LEMMA OtherLoginSteps ==
  ASSUME IdentityInv, NEW r \in Requests,
         LoginWhileLocked(r) \/ Crash(r) \/ \E s \in Sessions : RightPassword(r, s)
  PROVE  IdentityInv'
  <1>1. CASE LoginWhileLocked(r) \/ Crash(r)
    BY <1>1, ReleaseStep
    DEF LoginWhileLocked, Crash, IdentityInv, IdentityTypeOK, LoginsSerial
  <1>2. ASSUME NEW s \in Sessions, RightPassword(r, s) PROVE IdentityInv'
    <2>1. session' \in [Sessions -> [status : {"ABSENT", "LIVE", "REVOKED", "EXPIRED"},
                                     token : Nat, verified : BOOLEAN]]
      BY <1>2 DEF RightPassword, NewSession, IdentityInv, IdentityTypeOK
    <2>2. locked' \in BOOLEAN
      BY <1>2, Zenon DEF RightPassword
    <2>3. failures' \in 0..MaxFailures /\ wrong' = failures' /\ failures' < MaxFailures
      BY <1>2, IdentityAssumption DEF RightPassword
    <2> QED BY <1>2, <2>1, <2>2, <2>3, ReleaseStep DEF RightPassword
  <1> QED BY <1>1, <1>2
-----------------------------------------------------------------------------
(* Sessions and enrollment: neither the counter nor a code is touched.       *)

\* Sessions revoked, expired or challenged leave counter and codes alone.
LEMMA SessionSteps ==
  ASSUME IdentityInv,
         \/ LockExpires
         \/ \E s \in Sessions :
              RevokeSession(s) \/ SessionExpires(s) \/ StepUpExpires(s) \/ ChallengeTotp(s)
  PROVE  IdentityInv'
  <1>1. UNCHANGED <<failures, holder, wrong, totpVars, codeVars, request>>
    BY DEF LockExpires, RevokeSession, SessionExpires, StepUpExpires, ChallengeTotp, loginVars
  <1>2. /\ locked' \in BOOLEAN
        /\ session' \in [Sessions -> [status : {"ABSENT", "LIVE", "REVOKED", "EXPIRED"},
                                      token : Nat, verified : BOOLEAN]]
    <2>1. /\ locked \in BOOLEAN
          /\ session \in [Sessions -> [status : {"ABSENT", "LIVE", "REVOKED", "EXPIRED"},
                                       token : Nat, verified : BOOLEAN]]
      BY DEF IdentityInv, IdentityTypeOK
    <2>2. locked' \in BOOLEAN
      BY <2>1, Zenon
      DEF LockExpires, RevokeSession, SessionExpires, StepUpExpires, ChallengeTotp, loginVars
    <2>3. CASE LockExpires
      BY <2>1, <2>2, <2>3 DEF LockExpires
    <2>4. ASSUME NEW s \in Sessions,
                 RevokeSession(s) \/ SessionExpires(s) \/ StepUpExpires(s) \/ ChallengeTotp(s)
          PROVE  session' \in [Sessions -> [status : {"ABSENT", "LIVE", "REVOKED", "EXPIRED"},
                                           token : Nat, verified : BOOLEAN]]
      <3>1. CASE RevokeSession(s)
        BY <2>1, <3>1 DEF RevokeSession
      <3>2. CASE SessionExpires(s)
        BY <2>1, <3>2 DEF SessionExpires
      <3>3. CASE StepUpExpires(s)
        <4>1. session' = [session EXCEPT ![s].verified = FALSE]
          BY <3>3 DEF StepUpExpires
        <4> QED BY <2>1, <4>1
      <3>4. CASE ChallengeTotp(s)
        <4>1. session' = [session EXCEPT ![s].verified = TRUE]
          BY <3>4 DEF ChallengeTotp
        <4> QED BY <2>1, <4>1
      <3> QED BY <2>4, <3>1, <3>2, <3>3, <3>4
    <2> QED BY <2>2, <2>3, <2>4
  <1>3. IdentityTypeOK'
    BY <1>1, <1>2 DEF IdentityInv, IdentityTypeOK, totpVars, codeVars
  <1>4. LoginsSerial' /\ CodesSerial' /\ RequestsNameRows'
    BY <1>1 DEF IdentityInv, LoginsSerial, CodesSerial, RequestsNameRows, codeVars, totpVars
  <1> QED BY <1>3, <1>4 DEF IdentityInv

\* A request that reads without a lock names its session and seed.
LEMMA ReadStep ==
  ASSUME IdentityInv, NEW r \in Requests, NEW s \in Sessions,
         ReadForRefresh(r, s) \/ ReadForEnrollment(r, s) \/ ReadForConfirmation(r, s)
  PROVE  IdentityInv'
  <1>1. PICK wants \in {"REFRESH", "ENROLL", "CONFIRM"}, read \in Nat :
          Begin(r, wants, s, read, NoCode) /\ (wants = "ENROLL" => read \in 0..seeds)
    <2>1. session[s].token \in Nat /\ seed \in 0..seeds /\ seeds \in Nat
      BY DEF IdentityInv, IdentityTypeOK
    <2> QED BY <2>1 DEF ReadForRefresh, ReadForEnrollment, ReadForConfirmation
  <1>2. /\ request' \in [Requests -> [wants : Wants, session : Sessions \cup {"NONE"}, read : Nat,
                                       code : Codes \cup {NoCode}]]
        /\ request[r] = Idle
        /\ request'[r] = [wants |-> wants, session |-> s, read |-> read, code |-> NoCode]
        /\ \A q \in Requests \ {r} : request'[q] = request[q]
    BY <1>1, BeginType DEF Wants
  <1>3. UNCHANGED <<loginVars, session, totpVars, codeVars>>
    BY DEF ReadForRefresh, ReadForEnrollment, ReadForConfirmation
  <1>4. IdentityTypeOK'
    BY <1>2, <1>3 DEF IdentityInv, IdentityTypeOK, loginVars, totpVars, codeVars
  <1>5. LoginsSerial' /\ CodesSerial' /\ RequestsNameRows'
    BY <1>1, <1>2, <1>3 DEF IdentityInv, LoginsSerial, CodesSerial, RequestsNameRows, loginVars,
                            totpVars, codeVars, Idle
  <1> QED BY <1>4, <1>5 DEF IdentityInv

\* Commits of refreshes and enrollments leave counter and codes alone.
LEMMA CommitStep ==
  ASSUME IdentityInv, NEW r \in Requests,
         CommitRefresh(r) \/ CommitEnrollment(r) \/ RepeatEnrollment(r)
  PROVE  IdentityInv'
  <1>1. Done(r) /\ UNCHANGED <<loginVars, codeVars>>
    BY DEF CommitRefresh, CommitEnrollment, RepeatEnrollment
  <1>2. session' \in [Sessions -> [status : {"ABSENT", "LIVE", "REVOKED", "EXPIRED"},
                                   token : Nat, verified : BOOLEAN]]
    BY DEF CommitRefresh, CommitEnrollment, RepeatEnrollment, IdentityInv, IdentityTypeOK
  <1>3. seed' \in 0..seeds' /\ seeds' \in Nat /\ shown' \subseteq 1..seeds' /\ enabled' \in BOOLEAN
    <2>1. seed \in 0..seeds /\ seeds \in Nat /\ shown \subseteq 1..seeds /\ enabled \in BOOLEAN
      BY DEF IdentityInv, IdentityTypeOK
    <2>2. enabled' \in BOOLEAN
      BY <2>1, Zenon DEF CommitRefresh, CommitEnrollment, RepeatEnrollment, totpVars
    <2>3. CASE CommitRefresh(r)
      BY <2>1, <2>2, <2>3 DEF CommitRefresh, totpVars
    <2>4. CASE CommitEnrollment(r)
      BY <2>1, <2>2, <2>4 DEF CommitEnrollment
    <2>5. CASE RepeatEnrollment(r)
      <3>1. request[r].read \in 1..seeds
        BY <2>1, <2>5 DEF RepeatEnrollment, IdentityInv, RequestsNameRows
      <3> QED BY <2>1, <2>2, <2>5, <3>1 DEF RepeatEnrollment
    <2> QED BY <2>3, <2>4, <2>5
  <1>4. IdentityTypeOK'
    BY <1>1, <1>2, <1>3, DoneType DEF IdentityInv, IdentityTypeOK, loginVars, codeVars
  <1>5. request'[r] = Idle /\ \A q \in Requests \ {r} : request'[q] = request[q]
    BY <1>1, DoneType
  <1>6. LoginsSerial' /\ CodesSerial'
    BY <1>1, <1>5 DEF IdentityInv, LoginsSerial, CodesSerial, loginVars, codeVars, Idle
  <1>7. 0..seeds \subseteq 0..seeds'
    BY DEF CommitRefresh, CommitEnrollment, RepeatEnrollment, totpVars, IdentityInv, IdentityTypeOK
  <1>8. RequestsNameRows'
    BY <1>5, <1>7 DEF IdentityInv, RequestsNameRows, Idle
  <1> QED BY <1>4, <1>6, <1>8 DEF IdentityInv
-----------------------------------------------------------------------------
(* Recovery codes.                                                           *)

\* A new batch replaces the codes while no request uses one.
LEMMA CommitConfirmationStep ==
  ASSUME IdentityInv, NEW r \in Requests, CommitConfirmation(r) PROVE IdentityInv'
  <1>1. batches \in 0..MaxBatches /\ batches < MaxBatches
    BY DEF CommitConfirmation, IdentityInv, IdentityTypeOK
  <1>2. batches' \in 0..MaxBatches /\ batches' = batches + 1 /\ codes' = NewBatch /\ consumed' = {}
    BY <1>1, IdentityAssumption DEF CommitConfirmation
  <1>3. /\ NewBatch \subseteq Codes
        /\ \A c \in NewBatch : c[1] = batches + 1
    BY <1>1, IdentityAssumption DEF NewBatch, Codes
  <1>4. session' \in [Sessions -> [status : {"ABSENT", "LIVE", "REVOKED", "EXPIRED"},
                                   token : Nat, verified : BOOLEAN]]
    BY DEF CommitConfirmation, IdentityInv, IdentityTypeOK
  <1>5. IdentityTypeOK'
    BY <1>2, <1>3, <1>4, DoneType
    DEF CommitConfirmation, IdentityInv, IdentityTypeOK, loginVars
  <1>6. LoginsSerial' /\ RequestsNameRows'
    BY DoneType DEF CommitConfirmation, IdentityInv, LoginsSerial, RequestsNameRows, loginVars, totpVars, Idle
  <1>7. \A q \in Requests : request'[q].wants # "RECOVER" /\ request'[q].code = NoCode
    BY DoneType, NoCodeIsNone
    DEF CommitConfirmation, IdentityInv, IdentityTypeOK, CodesSerial, Idle
  <1>8. \A c \in Codes : c[1] \in Nat
    BY DEF Codes
  <1>9. CodesSerial'
    BY <1>1, <1>2, <1>3, <1>7, <1>8 DEF CommitConfirmation, IdentityInv, CodesSerial
  <1> QED BY <1>5, <1>6, <1>9 DEF IdentityInv

\* A code is taken up by one request, under its row lock, while unconsumed.
LEMMA ReadForRecoveryStep ==
  ASSUME IdentityInv, NEW r \in Requests, NEW s \in Sessions, NEW c \in Codes, ReadForRecovery(r, s, c)
  PROVE  IdentityInv'
  <1>1. /\ request' \in [Requests -> [wants : Wants, session : Sessions \cup {"NONE"}, read : Nat,
                                       code : Codes \cup {NoCode}]]
        /\ request[r] = Idle
        /\ request'[r] = [wants |-> "RECOVER", session |-> s, read |-> 0, code |-> c]
        /\ \A q \in Requests \ {r} : request'[q] = request[q]
    BY BeginType DEF ReadForRecovery, Wants
  <1>2. UNCHANGED <<loginVars, session, totpVars, codeVars>> /\ c \in codes \ consumed
    BY DEF ReadForRecovery
  <1>3. IdentityTypeOK'
    BY <1>1, <1>2 DEF IdentityInv, IdentityTypeOK, loginVars, totpVars, codeVars
  <1>4. LoginsSerial' /\ RequestsNameRows'
    BY <1>1, <1>2 DEF IdentityInv, LoginsSerial, RequestsNameRows, loginVars, totpVars, Idle
  <1>5. CodesSerial'
    BY <1>1, <1>2 DEF ReadForRecovery, IdentityInv, CodesSerial, codeVars, Idle
  <1> QED BY <1>3, <1>4, <1>5 DEF IdentityInv

\* The use of a code consumes it, and no other request holds it.
LEMMA CommitRecoveryStep ==
  ASSUME IdentityInv, NEW r \in Requests, CommitRecovery(r) PROVE IdentityInv'
  <1> DEFINE c == request[r].code
  <1>1. c \in codes \ consumed /\ c \in Codes /\ uses[c] = 0 /\ c # NoCode
    BY NoCodeIsNone DEF CommitRecovery, IdentityInv, IdentityTypeOK, CodesSerial
  <1>2. /\ consumed' = consumed \cup {c} /\ uses' = [uses EXCEPT ![c] = 1]
        /\ Done(r) /\ UNCHANGED <<loginVars, totpVars, codes, batches>>
    BY <1>1 DEF CommitRecovery
  <1>3. session' \in [Sessions -> [status : {"ABSENT", "LIVE", "REVOKED", "EXPIRED"},
                                   token : Nat, verified : BOOLEAN]]
    BY DEF CommitRecovery, IdentityInv, IdentityTypeOK
  <1> HIDE DEF c
  <1>4. IdentityTypeOK'
    BY <1>1, <1>2, <1>3, DoneType DEF IdentityInv, IdentityTypeOK, loginVars, totpVars
  <1>5. LoginsSerial' /\ RequestsNameRows'
    BY <1>2, DoneType DEF IdentityInv, LoginsSerial, RequestsNameRows, loginVars, totpVars, Idle
  <1>6. \A q \in Requests \ {r} : request[q].code # c
    BY <1>1 DEF IdentityInv, CodesSerial, c
  <1>7. CodesSerial'
    <2>1. \A d \in Codes : uses'[d] = IF d = c THEN 1 ELSE uses[d]
      BY <1>2 DEF IdentityInv, IdentityTypeOK
    <2>2. c[1] = batches /\ batches \in Nat
      BY <1>1 DEF IdentityInv, IdentityTypeOK, CodesSerial
    <2>3. \A d \in Codes : uses'[d] <= 1 /\ (d[1] > batches' => uses'[d] = 0)
      BY <1>2, <2>1, <2>2 DEF IdentityInv, CodesSerial
    <2>4. \A d \in codes' : d[1] = batches' /\ (d \notin consumed' => uses'[d] = 0)
      BY <1>2, <2>1 DEF IdentityInv, IdentityTypeOK, CodesSerial
    <2>5. /\ \A q \in Requests : IF request'[q].wants = "RECOVER"
                                 THEN request'[q].code \in codes' \ consumed'
                                 ELSE request'[q].code = NoCode
          /\ \A p, q \in Requests :
               request'[p].code = request'[q].code => p = q \/ request'[p].code = NoCode
      BY <1>2, <1>6, DoneType DEF IdentityInv, CodesSerial, Idle
    <2> QED BY <2>3, <2>4, <2>5 DEF CodesSerial
  <1> QED BY <1>4, <1>5, <1>7 DEF IdentityInv
-----------------------------------------------------------------------------
\* The inductive invariant holds in every behaviour.
THEOREM IdentityInvariant == IdentitySpec => []IdentityInv
  <1>1. IdentityInv /\ [IdentityNext]_identityVars => IdentityInv'
    <2> SUFFICES ASSUME IdentityInv, [IdentityNext]_identityVars PROVE IdentityInv'
      OBVIOUS
    <2>1. CASE UNCHANGED identityVars
      BY <2>1 DEF identityVars, IdentityInv, IdentityTypeOK, LoginsSerial, CodesSerial,
                  RequestsNameRows
    <2> QED
      BY <2>1, SessionSteps, ReadForLoginStep, OtherLoginSteps, WrongPasswordStep, ReadStep,
         CommitStep, CommitConfirmationStep, ReadForRecoveryStep, CommitRecoveryStep
      DEF IdentityNext
  <1> QED BY <1>1, IdentityInitial, PTL DEF IdentitySpec

\* However many logins are tried at the same time, the account is locked by the
\* MaxFailures-th wrong password (identity/service.py login_user).
THEOREM LockedInTimeHolds == IdentitySpec => []LockedInTime
  <1>1. IdentityInv => LockedInTime
    BY DEF IdentityInv, LoginsSerial, LockedInTime
  <1> QED BY <1>1, IdentityInvariant, PTL

\* A recovery code verifies one session at most, and the valid codes are those of
\* one confirmation (verify_mfa_challenge, confirm_totp_enrollment).
THEOREM RecoveryUsedOnceHolds == IdentitySpec => []RecoveryUsedOnce
  <1>1. IdentityInv => RecoveryUsedOnce
    BY DEF IdentityInv, CodesSerial, RecoveryUsedOnce
  <1> QED BY <1>1, IdentityInvariant, PTL

\* A revoked session stays revoked, whatever requests were under way
\* (revoke_session, refresh_session).
THEOREM RevokedIsFinalHolds == IdentitySpec => RevokedIsFinal
  <1>1. IdentityInv /\ [IdentityNext]_identityVars =>
          [\A s \in Sessions : session[s].status = "REVOKED" => session'[s].status = "REVOKED"]_identityVars
    <2> SUFFICES ASSUME IdentityInv, IdentityNext, NEW s \in Sessions, session[s].status = "REVOKED"
                 PROVE  session'[s].status = "REVOKED"
      OBVIOUS
    <2>1. session \in [Sessions -> [status : {"ABSENT", "LIVE", "REVOKED", "EXPIRED"},
                                    token : Nat, verified : BOOLEAN]]
      BY DEF IdentityInv, IdentityTypeOK
    <2>2. ASSUME NEW r \in Requests, CommitRefresh(r) \/ CommitConfirmation(r) \/ CommitRecovery(r)
          PROVE  session'[s].status = "REVOKED"
      BY <2>1, <2>2 DEF CommitRefresh, CommitConfirmation, CommitRecovery
    <2>3. ASSUME NEW t \in Sessions,
                 \/ RevokeSession(t) \/ SessionExpires(t) \/ StepUpExpires(t) \/ ChallengeTotp(t)
                 \/ \E r \in Requests : RightPassword(r, t)
          PROVE  session'[s].status = "REVOKED"
      BY <2>1, <2>3 DEF RevokeSession, SessionExpires, StepUpExpires, ChallengeTotp, Live, RightPassword
    <2>4. CASE UNCHANGED session
      BY <2>4
    <2>5. ASSUME NEW r \in Requests,
                 \/ ReadForLogin(r) \/ LoginWhileLocked(r) \/ WrongPassword(r) \/ Crash(r)
                 \/ CommitEnrollment(r) \/ RepeatEnrollment(r)
                 \/ \E t \in Sessions :
                      \/ ReadForRefresh(r, t) \/ ReadForEnrollment(r, t) \/ ReadForConfirmation(r, t)
                      \/ \E c \in Codes : ReadForRecovery(r, t, c)
          PROVE  UNCHANGED session
      BY <2>5 DEF ReadForLogin, LoginWhileLocked, WrongPassword, Crash, CommitEnrollment,
                  RepeatEnrollment, ReadForRefresh, ReadForEnrollment, ReadForConfirmation, ReadForRecovery
    <2>6. LockExpires => UNCHANGED session
      BY DEF LockExpires
    <2> QED BY <2>2, <2>3, <2>4, <2>5, <2>6 DEF IdentityNext
  <1> QED BY <1>1, IdentityInvariant, PTL DEF IdentitySpec, RevokedIsFinal
=============================================================================

------------------------------ MODULE Identity ------------------------------
(***************************************************************************)
(* One account of app/identity: the login lock, refresh sessions, TOTP     *)
(* enrollment and recovery codes.                                          *)
(*                                                                         *)
(* Every request is two actions, what it reads and what it commits.  Login *)
(* and the use of a recovery code hold a row lock (FOR UPDATE) in between; *)
(* refresh, enrollment and confirmation read without one and write only    *)
(* the columns they have assigned.                                         *)
(***************************************************************************)
EXTENDS Naturals, FiniteSets

CONSTANTS
  Requests,     \* requests that may be in flight at the same time
  Sessions,     \* sessions the account may ever have
  MaxFailures,  \* AUTH_MAX_FAILED_ATTEMPTS
  CodeNumbers,  \* the codes of one confirmation; the code has eight
  MaxTokens,    \* bound on the refresh tokens of a session
  MaxSeeds,     \* bound on the seeds generated
  MaxBatches    \* bound on the batches of recovery codes

ASSUME IdentityAssumption ==
  /\ MaxFailures \in Nat \ {0} /\ MaxTokens \in Nat /\ MaxSeeds \in Nat /\ MaxBatches \in Nat
  /\ "NOBODY" \notin Requests
  /\ "NONE" \notin Sessions

Codes == (1..MaxBatches) \X CodeNumbers

VARIABLES
  failures,   \* users.failed_login_attempts
  locked,     \* users.locked_until lies ahead
  holder,     \* the login that holds the row lock of users, or NOBODY
  wrong,      \* wrong passwords answered since the last lock or successful login
  session,    \* user_sessions: [status, token, verified]; token is the current refresh token
  seed,       \* users.mfa_seed, 0 without one
  seeds,      \* seeds generated so far
  shown,      \* seeds whose secret a client has been shown
  enabled,    \* users.mfa_enabled_at is set
  codes,      \* recovery-code rows in user_verifications
  consumed,   \* those with consumed_at
  batches,    \* batches of recovery codes generated so far
  uses,       \* how often each recovery code has verified a session
  request     \* what each request wants and has read

identityVars == <<failures, locked, holder, wrong, session, seed, seeds, shown, enabled,
                  codes, consumed, batches, uses, request>>
loginVars == <<failures, locked, holder, wrong>>
totpVars == <<seed, seeds, shown, enabled>>
codeVars == <<codes, consumed, batches, uses>>

NoCode == <<0, 0>>
Idle == [wants |-> "NOTHING", session |-> "NONE", read |-> 0, code |-> NoCode]

NoSession == [status |-> "ABSENT", token |-> 0, verified |-> FALSE]

\* _create_session: a refresh token and no step-up.
NewSession == [status |-> "LIVE", token |-> 1, verified |-> FALSE]

\* register_user has made the account and its first session.
IdentityInit ==
  /\ failures = 0 /\ locked = FALSE /\ holder = "NOBODY" /\ wrong = 0
  /\ \E first \in Sessions :
       session = [s \in Sessions |-> IF s = first THEN NewSession ELSE NoSession]
  /\ seed = 0 /\ seeds = 0 /\ shown = {} /\ enabled = FALSE
  /\ codes = {} /\ consumed = {} /\ batches = 0 /\ uses = [c \in Codes |-> 0]
  /\ request = [r \in Requests |-> Idle]

Begin(r, wants, s, read, code) ==
  /\ request[r] = Idle
  /\ request' = [request EXCEPT ![r] =
       [wants |-> wants, session |-> s, read |-> read, code |-> code]]

Done(r) == request' = [request EXCEPT ![r] = Idle]

\* require_access_token: the session of an authenticated request.
Live(s) == session[s].status = "LIVE"
-----------------------------------------------------------------------------
(* Login: login_user and the session it creates.                             *)

\* Mutant: the user is read without FOR UPDATE.
ReadForLoginUnlocked(r) ==
  /\ Begin(r, "LOGIN", "NONE", failures, NoCode)
  /\ UNCHANGED <<loginVars, session, totpVars, codeVars>>

\* The user's row is read and locked.
ReadForLogin(r) ==
  /\ holder = "NOBODY"
  /\ Begin(r, "LOGIN", "NONE", failures, NoCode)
  /\ holder' = r
  /\ UNCHANGED <<failures, locked, wrong, session, totpVars, codeVars>>

Release(r) == holder' = IF holder = r THEN "NOBODY" ELSE holder

\* A login during the lock is refused and counts for nothing.
LoginWhileLocked(r) ==
  /\ request[r].wants = "LOGIN" /\ locked
  /\ Done(r) /\ Release(r)
  /\ UNCHANGED <<failures, locked, wrong, session, totpVars, codeVars>>

\* A wrong password: one more failure, and the lock at the last.
WrongPassword(r) ==
  LET count == request[r].read + 1 IN
  /\ request[r].wants = "LOGIN" /\ ~locked
  /\ locked' = (count >= MaxFailures)
  /\ failures' = IF count >= MaxFailures THEN 0 ELSE count
  /\ wrong' = IF count >= MaxFailures THEN 0 ELSE wrong + 1
  /\ Done(r) /\ Release(r)
  /\ UNCHANGED <<session, totpVars, codeVars>>

\* The right password: the counter starts again and there is a new session.
RightPassword(r, s) ==
  /\ request[r].wants = "LOGIN" /\ ~locked
  /\ session[s].status = "ABSENT"
  /\ session' = [session EXCEPT ![s] = NewSession]
  /\ failures' = 0 /\ locked' = FALSE /\ wrong' = 0
  /\ Done(r) /\ Release(r)
  /\ UNCHANGED <<totpVars, codeVars>>

\* locked_until passes.
LockExpires ==
  /\ locked
  /\ locked' = FALSE
  /\ UNCHANGED <<failures, holder, wrong, session, totpVars, codeVars, request>>
-----------------------------------------------------------------------------
(* Sessions.                                                                 *)

\* refresh_session: the presented token is the current one of a live session.
ReadForRefresh(r, s) ==
  /\ Live(s) /\ session[s].token < MaxTokens
  /\ Begin(r, "REFRESH", s, session[s].token, NoCode)
  /\ UNCHANGED <<loginVars, session, totpVars, codeVars>>

\* Mutant: the whole row is written as it was read.
CommitRefreshRow(r) ==
  LET s == request[r].session IN
  /\ request[r].wants = "REFRESH"
  /\ session[s].token < MaxTokens
  /\ session' = [session EXCEPT ![s].token = @ + 1, ![s].status = "LIVE"]
  /\ Done(r)
  /\ UNCHANGED <<loginVars, totpVars, codeVars>>

\* A new token replaces the current one and the expiry moves; revoked_at is not written.
CommitRefresh(r) ==
  LET s == request[r].session IN
  /\ request[r].wants = "REFRESH"
  /\ session[s].token < MaxTokens
  /\ session' = [session EXCEPT ![s].token = @ + 1,
                                ![s].status = IF @ = "EXPIRED" THEN "LIVE" ELSE @]
  /\ Done(r)
  /\ UNCHANGED <<loginVars, totpVars, codeVars>>

\* revoke_session, by logout.
RevokeSession(s) ==
  /\ Live(s)
  /\ session' = [session EXCEPT ![s].status = "REVOKED"]
  /\ UNCHANGED <<loginVars, totpVars, codeVars, request>>

\* expires_at passes.
SessionExpires(s) ==
  /\ Live(s)
  /\ session' = [session EXCEPT ![s].status = "EXPIRED"]
  /\ UNCHANGED <<loginVars, totpVars, codeVars, request>>

\* MFA_STEP_UP_TTL_SECONDS passes.
StepUpExpires(s) ==
  /\ session[s].verified
  /\ session' = [session EXCEPT ![s].verified = FALSE]
  /\ UNCHANGED <<loginVars, totpVars, codeVars, request>>
-----------------------------------------------------------------------------
(* TOTP enrollment.                                                          *)

\* start_totp_enrollment reads the user with its session.
ReadForEnrollment(r, s) ==
  /\ Live(s) /\ ~enabled
  /\ Begin(r, "ENROLL", s, seed, NoCode)
  /\ UNCHANGED <<loginVars, session, totpVars, codeVars>>

\* Without a seed the request writes and shows a new one.
CommitEnrollment(r) ==
  /\ request[r].wants = "ENROLL" /\ request[r].read = 0
  /\ holder = "NOBODY" /\ seeds < MaxSeeds
  /\ seed' = seeds + 1 /\ seeds' = seeds + 1
  /\ shown' = shown \cup {seeds + 1}
  /\ Done(r)
  /\ UNCHANGED <<loginVars, session, enabled, codeVars>>

\* With one it shows the seed it has read and writes nothing.
RepeatEnrollment(r) ==
  /\ request[r].wants = "ENROLL" /\ request[r].read # 0
  /\ shown' = shown \cup {request[r].read}
  /\ Done(r)
  /\ UNCHANGED <<loginVars, session, seed, seeds, enabled, codeVars>>

\* confirm_totp_enrollment: a code of the seed the request has read.
ReadForConfirmation(r, s) ==
  /\ Live(s) /\ ~enabled /\ seed \in shown
  /\ Begin(r, "CONFIRM", s, 0, NoCode)
  /\ UNCHANGED <<loginVars, session, totpVars, codeVars>>

NewBatch == {<<batches + 1, n>> : n \in CodeNumbers}

\* The user's row is written first and stays locked, then the old codes go and
\* eight new ones come.  The deletion waits for a code that is being used.
CommitConfirmation(r) ==
  /\ request[r].wants = "CONFIRM" /\ batches < MaxBatches
  /\ holder = "NOBODY" /\ \A q \in Requests : request[q].code = NoCode
  /\ enabled' = TRUE
  /\ session' = [session EXCEPT ![request[r].session].verified = TRUE]
  /\ codes' = NewBatch
  /\ consumed' = {}
  /\ batches' = batches + 1
  /\ Done(r)
  /\ UNCHANGED <<loginVars, seed, seeds, shown, uses>>
-----------------------------------------------------------------------------
(* MFA challenges.                                                           *)

\* verify_mfa_challenge with a code of the authenticator.
ChallengeTotp(s) ==
  /\ Live(s) /\ enabled /\ seed \in shown
  /\ session' = [session EXCEPT ![s].verified = TRUE]
  /\ UNCHANGED <<loginVars, totpVars, codeVars, request>>

\* Mutant: the recovery code is read without FOR UPDATE.
ReadForRecoveryUnlocked(r, s, c) ==
  /\ Live(s) /\ enabled
  /\ c \in codes \ consumed
  /\ Begin(r, "RECOVER", s, 0, c)
  /\ UNCHANGED <<loginVars, session, totpVars, codeVars>>

\* verify_mfa_challenge with a recovery code: an unconsumed row, locked.
ReadForRecovery(r, s, c) ==
  /\ Live(s) /\ enabled
  /\ c \in codes \ consumed /\ \A q \in Requests : request[q].code # c
  /\ Begin(r, "RECOVER", s, 0, c)
  /\ UNCHANGED <<loginVars, session, totpVars, codeVars>>

CommitRecovery(r) ==
  LET c == request[r].code IN
  /\ request[r].wants = "RECOVER"
  /\ consumed' = consumed \cup ({c} \cap codes)
  /\ uses' = [uses EXCEPT ![c] = @ + 1]
  /\ session' = [session EXCEPT ![request[r].session].verified = TRUE]
  /\ Done(r)
  /\ UNCHANGED <<loginVars, totpVars, codes, batches>>

\* The process dies: nothing is committed and the locks are released.
Crash(r) ==
  /\ request[r] # Idle
  /\ Done(r) /\ Release(r)
  /\ UNCHANGED <<failures, locked, wrong, session, totpVars, codeVars>>
-----------------------------------------------------------------------------
IdentityNext ==
  \/ LockExpires
  \/ \E s \in Sessions : RevokeSession(s) \/ SessionExpires(s) \/ StepUpExpires(s) \/ ChallengeTotp(s)
  \/ \E r \in Requests :
       \/ ReadForLogin(r) \/ LoginWhileLocked(r) \/ WrongPassword(r) \/ Crash(r)
       \/ CommitRefresh(r) \/ CommitEnrollment(r) \/ RepeatEnrollment(r)
       \/ CommitConfirmation(r) \/ CommitRecovery(r)
       \/ \E s \in Sessions :
            \/ RightPassword(r, s) \/ ReadForRefresh(r, s)
            \/ ReadForEnrollment(r, s) \/ ReadForConfirmation(r, s)
            \/ \E c \in Codes : ReadForRecovery(r, s, c)

IdentitySpec == IdentityInit /\ [][IdentityNext]_identityVars
-----------------------------------------------------------------------------
Wants == {"NOTHING", "LOGIN", "REFRESH", "ENROLL", "CONFIRM", "RECOVER"}

IdentityTypeOK ==
  /\ failures \in 0..MaxFailures /\ locked \in BOOLEAN
  /\ holder \in Requests \cup {"NOBODY"} /\ wrong \in Nat
  /\ session \in [Sessions -> [status : {"ABSENT", "LIVE", "REVOKED", "EXPIRED"},
                               token : Nat, verified : BOOLEAN]]
  /\ seed \in 0..seeds /\ seeds \in Nat /\ shown \subseteq 1..seeds /\ enabled \in BOOLEAN
  /\ codes \subseteq Codes /\ consumed \subseteq codes
  /\ batches \in 0..MaxBatches /\ uses \in [Codes -> Nat]
  /\ request \in [Requests -> [wants : Wants, session : Sessions \cup {"NONE"}, read : Nat,
                               code : Codes \cup {NoCode}]]

\* However many logins are tried at the same time, the account is locked by
\* the MaxFailures-th wrong password: none is lost between the read of the counter
\* and its write (identity/service.py login_user).
LockedInTime == wrong < MaxFailures

\* A recovery code verifies one session at most, also when it is presented
\* twice at the same time or codes are replaced meanwhile (verify_mfa_challenge);
\* and two confirmations at the same time do not leave the codes of two batches
\* valid (confirm_totp_enrollment).
RecoveryUsedOnce ==
  /\ \A c \in Codes : uses[c] <= 1
  /\ \A c, d \in codes : c[1] = d[1]

\* A revoked session stays revoked, whatever requests were under way: a refresh
\* that had read it live writes other columns (refresh_session, revoke_session).
RevokedIsFinal ==
  [][\A s \in Sessions : session[s].status = "REVOKED" => session'[s].status = "REVOKED"]_identityVars

\* docs/identity-security.md:33: enrollment can be retried before confirmation and
\* returns the same pending secret.  Two enrollments that both read no seed
\* write two, and the later one also replaces a confirmed seed.
SameSecret == [][seed # 0 => seed' = seed]_identityVars
=============================================================================

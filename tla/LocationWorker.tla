--------------------------- MODULE LocationWorker ---------------------------
(***************************************************************************)
(* The location download (module Locations) fetches each structure with a   *)
(* token of acquireSSOToken (module SsoToken), acquired anew for the one    *)
(* request that esiFetch has a trail for.  Whatever the ESI answers with a  *)
(* status of its own, a dead token included, makes the structure forbidden  *)
(* for the life of the process (src/location.go:103).                       *)
(***************************************************************************)
EXTENDS Locations, Integers

CONSTANTS
  Lifetimes,    \* lifetimes the login server gives its tokens, in ticks
  LongestLife,  \* a bound of theirs
  MaxTokens     \* bound on the tokens issued

ASSUME WorkerAssumption ==
  /\ LongestLife \in Nat /\ MaxTokens \in Nat
  /\ Lifetimes \subseteq 0..LongestLife

VARIABLES
  pc, accessToken, expiry, since, got, left, life, seen, lag,   \* of SsoToken
  bearer    \* the token of the request under way, 0 if there is none

Sso == INSTANCE SsoToken

ssoVars == <<pc, accessToken, expiry, since, got, left, life, seen, lag>>
workerVars == <<vars, ssoVars, bearer>>

WorkerInit == Init /\ Sso!Init /\ bearer = 0

\* esiFetch of a structure has begun, and its request has not left.
Fetching == downloading /\ unknown # <<>> /\ Head(unknown) \in Structure /\ bearer = 0

\* acquireSSOToken, as long as it does not return.
AcquireToken ==
  /\ Fetching
  /\ \/ Sso!ReadExpiry \/ Sso!Issue \/ Sso!StoreToken \/ Sso!StoreExpiry
     \/ Sso!CheckExpiry /\ pc' = "use"
  /\ UNCHANGED <<vars, bearer>>

\* It fails: not an esiError, so the download fails.
TokenError ==
  /\ Fetching
  /\ Sso!RefreshFails \/ (Sso!CheckExpiry /\ pc' = "idle")
  /\ Fail
  /\ UNCHANGED <<refusals, bearer>>

\* The request leaves with the token that it returns.
SendRequest ==
  /\ Fetching
  /\ Sso!ReadToken
  /\ bearer' = accessToken
  /\ UNCHANGED vars

\* The ESI tells of a structure to who has a live token.
Answer ==
  /\ bearer # 0
  /\ \/ FetchStructure /\ (data' # <<>> => life[bearer] > 0)
     \/ RefuseStructure
  /\ bearer' = 0
  /\ UNCHANGED ssoVars

Worker ==
  /\ BeginDownload \/ LookUpStation \/ EndDownload
  /\ UNCHANGED <<ssoVars, bearer>>

\* Time passes at any point, from the look at the token to the send too.
Tick ==
  /\ Sso!Tick
  /\ UNCHANGED <<vars, bearer>>

WorkerNext ==
  Worker \/ AcquireToken \/ TokenError \/ SendRequest \/ Answer \/ Tick

WorkerSpec == WorkerInit /\ [][WorkerNext]_workerVars
-----------------------------------------------------------------------------
CacheIsFresh == Sso!CacheIsFresh

\* Nothing keeps a token alive from the look at its expiry to the send of the
\* request (src/esi.go:257, 299, then 101-110), and a dead one gets the
\* structure forbidden for ever.  That delay is all that can do it: however
\* slow the refresh was, the token was alive when its expiry was looked at, and
\* a request leaves with a dead one only after as long as it then had left.
DeadOnlyByDelay ==
  [][bearer = 0 /\ bearer' # 0 /\ life[bearer'] = 0
       => 0 < seen /\ seen <= lag]_workerVars
=============================================================================

------------------------------ MODULE SsoToken ------------------------------
(***************************************************************************)
(* acquireSSOToken of src/esi.go: a token cached in two globals, the token  *)
(* and its expiry.  No lock protects them (accessTokenMu is declared and    *)
(* never taken), so the module has one caller, as the program does: only    *)
(* DownloadLocationDump authenticates.  Instants are kept as the ticks left *)
(* until them, and time passes at every point of the function: the client's *)
(* timeout (src/esi.go:273) ends a request in an error and bounds nothing   *)
(* that the goroutine does before and after it.                             *)
(***************************************************************************)
EXTENDS Integers, Sequences

CONSTANTS
  Lifetimes,    \* lifetimes the login server gives its tokens, in ticks
  LongestLife,  \* a bound of theirs: a longer wait is counted as that long
  MaxTokens     \* bound on the tokens issued

VARIABLES
  pc,           \* where the caller is in acquireSSOToken
  accessToken,  \* the cached token; 0 before the first
  expiry,       \* ticks until accessTokenExpiry
  since,        \* ticks since the caller read its clock, until the answer is made
  got,          \* the token of the caller's answer
  left,         \* ticks until the caller's now + ExpiresIn
  life,         \* life[k]: ticks until the login server's k-th token is refused
  seen,         \* history: the life of the token when its expiry was looked at
  lag           \* history: ticks since that look, counted up to seen

history == <<seen, lag>>
vars == <<pc, accessToken, expiry, since, got, left, life, history>>

Down(n) == IF n > 0 THEN n - 1 ELSE 0

Init ==
  /\ pc = "idle"
  /\ accessToken = 0 /\ expiry = 0
  /\ since = 0
  /\ got = 0
  /\ left = 0
  /\ life = <<>>
  /\ seen = 0 /\ lag = 0
-----------------------------------------------------------------------------
\* The life of the cached token when acquireSSOToken decides to return it.
Look == seen' = (IF pc' = "use" /\ accessToken > 0 THEN life[accessToken] ELSE 0) /\ lag' = 0

\* The caller reads its clock and the expiry: a token is reused until then.
ReadExpiry ==
  /\ pc = "idle"
  /\ pc' = IF expiry > 0 THEN "use" ELSE "request"
  /\ Look
  /\ UNCHANGED <<accessToken, expiry, since, got, left, life>>

\* return accessToken: the global is read again, after a refresh too.
ReadToken ==
  /\ pc = "use"
  /\ pc' = "idle"
  /\ Look
  /\ UNCHANGED <<accessToken, expiry, since, got, left, life>>

\* now.Add(ExpiresIn), seen when the answer is made: the caller's now was read
\* before the request.
ExpiryFromStart(lasts, elapsed) ==
  IF lasts > elapsed THEN lasts - elapsed ELSE 0

\* The login server issues a token while the request is under way.
Issue ==
  /\ pc = "request"
  /\ Len(life) < MaxTokens
  /\ \E lasts \in Lifetimes :
       /\ life' = Append(life, lasts)
       /\ left' = ExpiryFromStart(lasts, since)
  /\ got' = Len(life')
  /\ since' = 0
  /\ pc' = "answer"
  /\ UNCHANGED <<accessToken, expiry, history>>

\* The transport fails or times out, the status is not 200, the body does not
\* decode, or it is not a bearer token for this refresh token.
RefreshFails ==
  /\ pc \in {"request", "answer"}
  /\ since' = 0
  /\ pc' = "idle"
  /\ UNCHANGED <<accessToken, expiry, got, left, life, history>>

StoreToken ==
  /\ pc = "answer"
  /\ accessToken' = got
  /\ pc' = "expiry"
  /\ UNCHANGED <<expiry, since, got, left, life, history>>

StoreExpiry ==
  /\ pc = "expiry"
  /\ expiry' = left
  /\ pc' = "check"
  /\ UNCHANGED <<accessToken, since, got, left, life, history>>

CheckForgotten ==   \* mutant: a token that expired on the way is returned
  /\ pc = "check"
  /\ pc' = "use"
  /\ Look
  /\ UNCHANGED <<accessToken, expiry, since, got, left, life>>

\* The token may have expired on the way: the call fails, the cache stays.
CheckExpiry ==
  /\ pc = "check"
  /\ pc' = IF expiry > 0 THEN "use" ELSE "idle"
  /\ Look
  /\ UNCHANGED <<accessToken, expiry, since, got, left, life>>

\* One more tick, counted up to a bound past which it makes no difference.
Count(n, bound) == IF n < bound THEN n + 1 ELSE n

TickAfterAnswer ==   \* mutant: now is read again when the answer is stored
  /\ since' = IF pc = "request" THEN Count(since, LongestLife) ELSE since
  /\ left' = IF pc \in {"answer", "expiry"} THEN left ELSE Down(left)
  /\ expiry' = Down(expiry)
  /\ life' = [k \in DOMAIN life |-> Down(life[k])]
  /\ lag' = Count(lag, seen)
  /\ UNCHANGED <<pc, accessToken, got, seen>>

\* Time passes, wherever the caller is.
Tick ==
  /\ since' = IF pc = "request" THEN Count(since, LongestLife) ELSE since
  /\ left' = Down(left)
  /\ expiry' = Down(expiry)
  /\ life' = [k \in DOMAIN life |-> Down(life[k])]
  /\ lag' = Count(lag, seen)
  /\ UNCHANGED <<pc, accessToken, got, seen>>
-----------------------------------------------------------------------------
\* The cached pair is consistent at every point of a refresh, however long
\* the refresh took: a token that acquireSSOToken would reuse is one that the
\* login server accepts at least as long as the cached expiry says.
CacheIsFresh ==
  expiry > 0 => /\ accessToken \in DOMAIN life
                /\ expiry <= life[accessToken]
=============================================================================

------------------------ MODULE LocationWorkerProofs -------------------------
(***************************************************************************)
(* Tokens and refusals of the location downloads, for any locations, orders *)
(* and lifetimes: a cached token is one the login server takes, a request   *)
(* leaves with a dead token by a delay only, no refusal of the ESI is       *)
(* forgotten, and every location is recorded once.                          *)
(***************************************************************************)
EXTENDS LocationWorker, SequenceTheorems, WellFoundedInduction, TLAPS

SsoTypes ==
  /\ pc \in {"idle", "request", "answer", "expiry", "check", "use"}
  /\ accessToken \in Nat /\ expiry \in Nat /\ since \in Nat /\ left \in Nat
  /\ life \in Seq(Nat)
  /\ got \in 0..Len(life) /\ accessToken \in 0..Len(life)
  /\ seen \in Nat /\ lag \in 0..seen

\* A refresh begins when the expiry has passed, and its token lives at least
\* until the expiry that will be stored for it.
Refreshing ==
  /\ pc \in {"request", "answer", "expiry"} => expiry = 0
  /\ pc \in {"answer", "expiry"} => got > 0 /\ left <= life[got]
  /\ pc = "expiry" => accessToken = got
  /\ expiry > 0 => accessToken > 0 /\ expiry <= life[accessToken]

\* A token to be returned was alive when its expiry was looked at, and has lost
\* since what the clock has taken.
InUse ==
  /\ pc = "use" => accessToken > 0 /\ seen > 0 /\ seen <= life[accessToken] + lag
  /\ pc # "idle" => Fetching

SsoInv == SsoTypes /\ Refreshing /\ InUse

LEMMA SsoInit == WorkerInit => SsoInv
BY DEF WorkerInit, Sso!Init, SsoInv, SsoTypes, Refreshing, InUse

\* One tick takes as much off every instant.
LEMMA DownTypes == ASSUME NEW n \in Nat PROVE Sso!Down(n) \in Nat /\ Sso!Down(n) <= n
BY DEF Sso!Down

LEMMA CountTypes ==
  ASSUME NEW n \in Nat, NEW b \in Nat
  PROVE  Sso!Count(n, b) \in Nat /\ (n <= b => Sso!Count(n, b) <= b)
BY DEF Sso!Count

\* What the clock takes off a life, it adds to the delay.
LEMMA DelayGrows ==
  ASSUME NEW l \in Nat, NEW n \in Nat, NEW b \in Nat, n <= b, b <= l + n
  PROVE  b <= Sso!Down(l) + Sso!Count(n, b)
BY DEF Sso!Down, Sso!Count

LEMMA DownKeepsOrder ==
  ASSUME NEW a \in Nat, NEW b \in Nat, a <= b
  PROVE  Sso!Down(a) <= Sso!Down(b)
BY DEF Sso!Down

LEMMA SsoTick ==
  ASSUME SsoInv, Tick
  PROVE  SsoInv'
<1> USE DEF SsoInv
<1>1. UNCHANGED <<pc, accessToken, got, seen, downloading, unknown, bearer>>
  BY DEF Tick, Sso!Tick, vars
<1>2. /\ life' = [k \in DOMAIN life |-> Sso!Down(life[k])]
      /\ left' = Sso!Down(left) /\ expiry' = Sso!Down(expiry)
      /\ since' \in Nat /\ lag' = Sso!Count(lag, seen)
  BY WorkerAssumption, CountTypes DEF Tick, Sso!Tick, SsoTypes
<1>3. Len(life') = Len(life) /\ life' \in Seq(Nat)
  <2>1. life' = [k \in 1..Len(life) |-> Sso!Down(life[k])]
    BY <1>2 DEF SsoTypes
  <2>2. \A k \in 1..Len(life) : Sso!Down(life[k]) \in Nat
    <3>1. \A k \in 1..Len(life) : life[k] \in Nat
      BY DEF SsoTypes
    <3> QED
      BY <3>1, DownTypes, Zenon
  <2>3. life' \in [1..Len(life) -> Nat] /\ Len(life) \in Nat
    BY <2>1, <2>2 DEF SsoTypes
  <2>4. life' \in Seq(Nat)
    BY <2>3, SeqDef, Zenon
  <2> QED
    BY <2>3, <2>4
<1>4. \A k \in 1..Len(life) : life'[k] = Sso!Down(life[k]) /\ life[k] \in Nat
  BY <1>2 DEF SsoTypes
<1>5. SsoTypes'
  <2>1. lag' \in 0..seen
    BY <1>2, CountTypes DEF SsoTypes
  <2> QED
    BY <1>1, <1>2, <1>3, <2>1, DownTypes DEF SsoTypes
<1>6. Refreshing'
  <2>1. ASSUME pc \in {"answer", "expiry"} PROVE left' <= life'[got]
    BY <1>2, <1>4, <2>1, DownKeepsOrder DEF SsoTypes, Refreshing
  <2>2. ASSUME expiry' > 0 PROVE accessToken > 0 /\ expiry' <= life'[accessToken]
    <3>1. expiry \in Nat /\ expiry' = Sso!Down(expiry) /\ expiry > 0
      BY <1>2, <2>2 DEF SsoTypes, Sso!Down
    <3>2. accessToken \in 1..Len(life) /\ expiry <= life[accessToken]
      BY <3>1 DEF SsoTypes, Refreshing
    <3>3. life'[accessToken] = Sso!Down(life[accessToken]) /\ life[accessToken] \in Nat
      BY <1>4, <3>2
    <3> QED
      BY <3>1, <3>2, <3>3, DownKeepsOrder
  <2> QED
    BY <1>1, <1>2, <2>1, <2>2, DownTypes DEF Refreshing, SsoTypes, Sso!Down
<1>7. InUse'
  <2>1. ASSUME pc = "use" PROVE seen <= life'[accessToken] + lag'
    <3>1. accessToken \in 1..Len(life) /\ seen <= life[accessToken] + lag
      BY <2>1 DEF SsoTypes, InUse
    <3> QED
      BY <1>2, <1>4, <3>1, DelayGrows DEF SsoTypes
  <2> QED
    BY <1>1, <2>1 DEF InUse, Fetching
<1> QED
  BY <1>5, <1>6, <1>7

\* The steps of acquireSSOToken.
LEMMA SsoAcquire ==
  ASSUME SsoInv, AcquireToken \/ TokenError \/ SendRequest
  PROVE  SsoInv'
<1> USE WorkerAssumption DEF SsoInv, AcquireToken, TokenError, SendRequest, Fail, vars, sharedVars
<1>1. CASE AcquireToken /\ Sso!Issue
  <2>1. PICK lasts \in Lifetimes : /\ life' = Append(life, lasts)
                                   /\ left' = Sso!ExpiryFromStart(lasts, since)
    BY <1>1 DEF Sso!Issue
  <2>2. /\ Len(life') = Len(life) + 1 /\ life' \in Seq(Nat)
        /\ life'[Len(life) + 1] = lasts
        /\ \A k \in 1..Len(life) : life'[k] = life[k]
    BY <2>1 DEF SsoTypes
  <2>3. left' \in Nat /\ left' <= lasts
    BY <2>1 DEF SsoTypes, Sso!ExpiryFromStart
  <2> QED
    BY <1>1, <2>2, <2>3 DEF SsoTypes, Refreshing, InUse, Fetching, Sso!Issue, Sso!history
<1>2. CASE AcquireToken /\ ~Sso!Issue
  <2>1. accessToken > 0 => life[accessToken] \in Nat
    BY DEF SsoTypes
  <2>2. CASE Sso!ReadExpiry \/ Sso!CheckExpiry
    <3>1. /\ UNCHANGED <<accessToken, expiry, since, got, left, life>> /\ lag' = 0
          /\ seen' = IF pc' = "use" /\ accessToken > 0 THEN life[accessToken] ELSE 0
          /\ pc' \in {"idle", "request", "use"}
          /\ pc' = "use" => expiry > 0
          /\ pc' = "request" => expiry = 0
      BY <2>2 DEF SsoTypes, Sso!ReadExpiry, Sso!CheckExpiry, Sso!Look
    <3>2. SsoTypes'
      BY <2>1, <3>1 DEF SsoTypes
    <3>3. Refreshing'
      BY <3>1 DEF Refreshing
    <3>4. pc' = "use" => accessToken' > 0 /\ seen' > 0 /\ seen' <= life'[accessToken'] + lag'
      <4> HAVE pc' = "use"
      <4>1. expiry > 0 /\ accessToken > 0 /\ expiry <= life[accessToken] /\ expiry \in Nat
        BY <3>1 DEF Refreshing, SsoTypes
      <4> QED
        BY <2>1, <3>1, <4>1
    <3>5. Fetching'
      BY <1>2 DEF Fetching
    <3> QED
      BY <3>2, <3>3, <3>4, <3>5 DEF InUse
  <2>3. CASE Sso!StoreToken \/ Sso!StoreExpiry
    <3>1. UNCHANGED <<since, got, left, life, seen, lag>> /\ pc' # "use" /\ pc # "idle"
      BY <2>3 DEF Sso!StoreToken, Sso!StoreExpiry, Sso!history
    <3>2. SsoTypes'
      BY <2>3, <3>1 DEF SsoTypes, Sso!StoreToken, Sso!StoreExpiry
    <3>3. Refreshing'
      BY <2>3, <3>1 DEF SsoTypes, Refreshing, Sso!StoreToken, Sso!StoreExpiry
    <3>4. InUse'
      BY <1>2, <3>1 DEF InUse, Fetching
    <3> QED
      BY <3>2, <3>3, <3>4
  <2> QED
    BY <1>2, <2>2, <2>3
<1>3. CASE TokenError
  <2>1. CASE Sso!RefreshFails
    <3>1. pc' = "idle" /\ since' = 0 /\ UNCHANGED <<accessToken, expiry, got, left, life, seen, lag>>
      BY <2>1 DEF Sso!RefreshFails, Sso!history
    <3>2. SsoTypes'
      BY <3>1 DEF SsoTypes
    <3>3. Refreshing'
      BY <3>1 DEF Refreshing
    <3> QED
      BY <3>1, <3>2, <3>3 DEF InUse
  <2>2. CASE Sso!CheckExpiry /\ pc' = "idle"
    <3>1. /\ pc' = "idle" /\ seen' = 0 /\ lag' = 0
          /\ UNCHANGED <<accessToken, expiry, since, got, left, life>>
      BY <2>2 DEF Sso!CheckExpiry, Sso!Look
    <3>2. SsoTypes'
      BY <3>1 DEF SsoTypes
    <3>3. Refreshing'
      BY <3>1 DEF Refreshing
    <3> QED
      BY <3>1, <3>2, <3>3 DEF InUse
  <2> QED
    BY <1>3, <2>1, <2>2
<1>4. CASE SendRequest
  <2>1. /\ pc' = "idle" /\ seen' = 0 /\ lag' = 0
        /\ UNCHANGED <<accessToken, expiry, since, got, left, life>>
    BY <1>4 DEF Sso!ReadToken, Sso!Look
  <2>2. SsoTypes'
    BY <2>1 DEF SsoTypes
  <2>3. Refreshing'
    BY <2>1 DEF Refreshing
  <2> QED
    BY <2>1, <2>2, <2>3 DEF InUse
<1> QED
  BY <1>1, <1>2, <1>3, <1>4

\* While a token is being acquired the download stays where it is.
LEMMA SsoElsewhere ==
  ASSUME SsoInv, Worker \/ Answer \/ UNCHANGED workerVars
  PROVE  SsoInv'
<1>1. UNCHANGED ssoVars
  BY DEF Worker, Answer, workerVars
<1>2. CASE pc = "idle"
  BY <1>1, <1>2 DEF SsoInv, SsoTypes, Refreshing, InUse, ssoVars
<1>3. CASE pc # "idle"
  <2>1. UNCHANGED workerVars
    BY <1>3, LocationAssumption DEF SsoInv, InUse, Fetching, Worker, Answer,
         BeginDownload, LookUpStation, EndDownload
  <2> QED
    BY <2>1 DEF SsoInv, SsoTypes, Refreshing, InUse, Fetching, workerVars, vars, ssoVars
<1> QED
  BY <1>2, <1>3

LEMMA SsoNext == SsoInv /\ [WorkerNext]_workerVars => SsoInv'
BY SsoTick, SsoAcquire, SsoElsewhere DEF WorkerNext

\* A token that acquireSSOToken would reuse is one the login server takes at
\* least as long as the expiry says, whatever the lifetimes and delays.
THEOREM TokenIsFresh == WorkerSpec => []CacheIsFresh
<1>1. SsoInv => CacheIsFresh
  BY DEF SsoInv, SsoTypes, Refreshing, CacheIsFresh, Sso!CacheIsFresh
<1> QED
  BY <1>1, SsoInit, SsoNext, PTL DEF WorkerSpec

\* A request for a structure leaves with a dead token only after a delay, from
\* the look at the expiry on, as long as the token then had left to live.
THEOREM BearerDiesOnTheWay == WorkerSpec => DeadOnlyByDelay
<1>1. ASSUME SsoInv, [WorkerNext]_workerVars, bearer = 0, bearer' # 0, life[bearer'] = 0
      PROVE  0 < seen /\ seen <= lag
  <2>1. SendRequest
    BY <1>1 DEF WorkerNext, Worker, AcquireToken, TokenError, Answer, Tick, workerVars
  <2>2. pc = "use" /\ bearer' = accessToken
    BY <2>1 DEF SendRequest, Sso!ReadToken
  <2> QED
    BY <1>1, <2>2 DEF SsoInv, SsoTypes, InUse
<1> QED
  BY <1>1, SsoInit, SsoNext, PTL DEF WorkerSpec, DeadOnlyByDelay

-----------------------------------------------------------------------------
\* A structure that was refused is forbidden, or in the hands of the download.
Listed(s) == Contains(forbidden, s) \/ Contains(refused, s)

RefusedInv ==
  /\ forbidden \in Seq(Structure) /\ refused \in Seq(Structure)
  /\ refusals \in [Structure -> Nat]
  /\ ~downloading => refused = <<>>
  /\ \A s \in Structure : refusals[s] > 0 => Listed(s)

LEMMA ContainsJoined ==
  ASSUME NEW u \in Seq(Structure), NEW v \in Seq(Structure), NEW s,
         Contains(u, s) \/ Contains(v, s)
  PROVE  Contains(u \o v, s)
<1>1. Len(u \o v) = Len(u) + Len(v) /\ Len(u) \in Nat /\ Len(v) \in Nat
  OBVIOUS
<1>2. CASE Contains(u, s)
  <2>1. PICK k \in 1..Len(u) : u[k] = s
    BY <1>2 DEF Contains
  <2>2. k \in 1..Len(u \o v) /\ (u \o v)[k] = s
    BY <1>1, <2>1
  <2> QED
    BY <2>2 DEF Contains
<1>3. CASE Contains(v, s)
  <2>1. PICK k \in 1..Len(v) : v[k] = s
    BY <1>3 DEF Contains
  <2>2. Len(u) + k \in 1..Len(u \o v) /\ (u \o v)[Len(u) + k] = s
    BY <1>1, <2>1
  <2> QED
    BY <2>2 DEF Contains
<1> QED
  BY <1>2, <1>3

LEMMA ContainsAppended ==
  ASSUME NEW u \in Seq(Structure), NEW x \in Structure, NEW s,
         Contains(u, s) \/ s = x
  PROVE  Contains(Append(u, x), s)
<1>1. /\ Len(Append(u, x)) = Len(u) + 1 /\ Len(u) \in Nat
      /\ Append(u, x)[Len(u) + 1] = x
      /\ \A k \in 1..Len(u) : Append(u, x)[k] = u[k]
  OBVIOUS
<1> QED
  BY <1>1 DEF Contains

\* A download that ends, well or not, leaves its refusals to the worker.
LEMMA RefusalsMove ==
  ASSUME RefusedInv, forbidden' = forbidden \o refused, refused' = <<>>,
         UNCHANGED refusals
  PROVE  RefusedInv'
<1>1. \A s \in Structure : refusals[s] > 0 => Contains(forbidden', s)
  BY ContainsJoined DEF RefusedInv, Listed
<1> QED
  BY <1>1 DEF RefusedInv, Listed

LEMMA RefusedStep ==
  ASSUME RefusedInv, WorkerNext
  PROVE  RefusedInv'
<1> USE LocationAssumption DEF sharedVars, vars
<1>1. CASE LookUpStation \/ Answer \/ TokenError \/ EndDownload
  <2>1. CASE EndDownload \/ (Fail /\ UNCHANGED refusals)
    BY <2>1, RefusalsMove DEF EndDownload, Fail
  <2>2. CASE Resolved /\ downloading /\ UNCHANGED refusals
    BY <2>2 DEF Resolved, RefusedInv, Listed
  <2>3. CASE RefuseStructure
    <3>1. \A s \in Structure : refusals'[s] > 0 => refusals[s] > 0 \/ s = Head(unknown)
      BY <2>3 DEF RefuseStructure, RefusedInv
    <3>2. \A s \in Structure :
            Contains(refused, s) \/ s = Head(unknown) => Contains(refused', s)
      BY <2>3, ContainsAppended DEF RefuseStructure, RefusedInv
    <3> QED
      BY <2>3, <3>1, <3>2 DEF RefuseStructure, RefusedInv, Listed
  <2> QED
    BY <1>1, <2>1, <2>2, <2>3 DEF LookUpStation, Answer, FetchStructure, TokenError
<1>2. CASE BeginDownload
  BY <1>2 DEF BeginDownload, RefusedInv, Listed
<1>3. CASE UNCHANGED vars
  BY <1>3 DEF RefusedInv, Listed
<1> QED
  BY <1>1, <1>2, <1>3 DEF WorkerNext, Worker, AcquireToken, SendRequest, Tick

\* However downloads fail, a structure that was refused is forbidden once the
\* download is over: no refusal is lost.
THEOREM NoRefusalLost == WorkerSpec => []RefusalsAreKept
<1>1. WorkerInit => RefusedInv
  BY DEF WorkerInit, Init, RefusedInv
<1>2. RefusedInv /\ [WorkerNext]_workerVars => RefusedInv'
  BY RefusedStep DEF workerVars, vars, sharedVars, RefusedInv, Listed
<1>3. RefusedInv => RefusalsAreKept
  BY DEF RefusedInv, Listed, RefusalsAreKept, Contains
<1> QED
  BY <1>1, <1>2, <1>3, PTL DEF WorkerSpec

-----------------------------------------------------------------------------
\* Sequences without repeats.
Elems(s) == {s[k] : k \in 1..Len(s)}
Once(s) == s \in Seq(Location) /\ IsInjective(s)
Apart(s, t) == Elems(s) \cap Elems(t) = {}

LEMMA OnceIs ==
  ASSUME NEW s \in Seq(Location)
  PROVE  Once(s) <=> \A j, k \in 1..Len(s) : s[j] = s[k] => j = k
BY DEF Once, IsInjective

LEMMA EmptyOnce == Once(<<>>) /\ Elems(<<>>) = {}
BY DEF Once, IsInjective, Elems

LEMMA JoinOnce ==
  ASSUME NEW u, NEW v, Once(u), Once(v), Apart(u, v)
  PROVE  Once(u \o v) /\ Elems(u \o v) = Elems(u) \cup Elems(v)
<1> DEFINE w == u \o v
<1>1. u \in Seq(Location) /\ v \in Seq(Location) /\ Len(u) \in Nat /\ Len(v) \in Nat
  BY DEF Once
<1>2. /\ w \in Seq(Location) /\ Len(w) = Len(u) + Len(v)
      /\ \A k \in 1..Len(u) : w[k] = u[k]
      /\ \A k \in 1..Len(v) : w[Len(u) + k] = v[k]
      /\ \A k \in (Len(u) + 1)..Len(w) : w[k] = v[k - Len(u)]
  <2>1. \A k \in 1..Len(w) : w[k] = IF k <= Len(u) THEN u[k] ELSE v[k - Len(u)]
    BY <1>1, ConcatProperties
  <2>2. w \in Seq(Location) /\ Len(w) = Len(u) + Len(v)
    BY <1>1, ConcatProperties
  <2> HIDE DEF w
  <2>3. \A k \in 1..Len(u) : w[k] = u[k]
    BY <1>1, <2>1, <2>2
  <2>4. \A k \in (Len(u) + 1)..Len(w) : w[k] = v[k - Len(u)]
    BY <1>1, <2>1, <2>2
  <2>5. ASSUME NEW k \in 1..Len(v) PROVE w[Len(u) + k] = v[k]
    <3>1. Len(u) + k \in (Len(u) + 1)..Len(w) /\ (Len(u) + k) - Len(u) = k
      BY <1>1, <2>2
    <3> QED
      BY <2>4, <3>1
  <2> QED
    BY <2>2, <2>3, <2>4, <2>5
<1> HIDE DEF w
<1>3. /\ \A j, k \in 1..Len(u) : u[j] = u[k] => j = k
      /\ \A j, k \in 1..Len(v) : v[j] = v[k] => j = k
      /\ \A j \in 1..Len(u), k \in 1..Len(v) : u[j] # v[k]
  <2>1. /\ \A j, k \in 1..Len(u) : u[j] = u[k] => j = k
        /\ \A j, k \in 1..Len(v) : v[j] = v[k] => j = k
    BY <1>1, OnceIs
  <2>2. ASSUME NEW j \in 1..Len(u), NEW k \in 1..Len(v) PROVE u[j] # v[k]
    <3>1. u[j] \in Elems(u) /\ v[k] \in Elems(v)
      BY DEF Elems
    <3> QED
      BY <3>1 DEF Apart
  <2> QED
    BY <2>1, <2>2
<1>4. ASSUME NEW j \in 1..Len(w), NEW k \in 1..Len(w), w[j] = w[k] PROVE j = k
  <2>1. CASE j <= Len(u) /\ k <= Len(u)
    BY <1>1, <1>2, <1>3, <1>4, <2>1
  <2>2. CASE j > Len(u) /\ k > Len(u)
    <3>1. j - Len(u) \in 1..Len(v) /\ k - Len(u) \in 1..Len(v)
      BY <1>1, <1>2, <2>2
    <3>2. w[j] = v[j - Len(u)] /\ w[k] = v[k - Len(u)]
      <4>1. j \in (Len(u) + 1)..Len(w) /\ k \in (Len(u) + 1)..Len(w)
        BY <1>1, <1>2, <2>2
      <4> QED
        BY <1>2, <4>1
    <3>3. j - Len(u) = k - Len(u)
      BY <1>3, <1>4, <3>1, <3>2
    <3> QED
      BY <1>1, <3>3
  <2>3. CASE j <= Len(u) /\ k > Len(u)
    <3>1. k - Len(u) \in 1..Len(v) /\ w[k] = v[k - Len(u)] /\ w[j] = u[j] /\ j \in 1..Len(u)
      BY <1>1, <1>2, <2>3
    <3> QED
      BY <1>3, <1>4, <3>1
  <2>4. CASE j > Len(u) /\ k <= Len(u)
    <3>1. j - Len(u) \in 1..Len(v) /\ w[j] = v[j - Len(u)] /\ w[k] = u[k] /\ k \in 1..Len(u)
      BY <1>1, <1>2, <2>4
    <3> QED
      BY <1>3, <1>4, <3>1
  <2> QED
    BY <1>1, <1>2, <2>1, <2>2, <2>3, <2>4
<1>5. \A x : (\E k \in 1..Len(w) : w[k] = x) <=>
              (\E k \in 1..Len(u) : u[k] = x) \/ (\E k \in 1..Len(v) : v[k] = x)
  <2> TAKE x
  <2>1. ASSUME NEW k \in 1..Len(w), w[k] = x
        PROVE  (\E l \in 1..Len(u) : u[l] = x) \/ (\E l \in 1..Len(v) : v[l] = x)
    <3>1. CASE k <= Len(u)
      BY <1>1, <1>2, <2>1, <3>1
    <3>2. CASE k > Len(u)
      <4>1. k - Len(u) \in 1..Len(v) /\ v[k - Len(u)] = x
        BY <1>1, <1>2, <2>1, <3>2
      <4> QED
        BY <4>1
    <3> QED
      BY <1>1, <1>2, <3>1, <3>2
  <2>2. ASSUME NEW k \in 1..Len(u), u[k] = x PROVE \E l \in 1..Len(w) : w[l] = x
    BY <1>1, <1>2, <2>2
  <2>3. ASSUME NEW k \in 1..Len(v), v[k] = x PROVE \E l \in 1..Len(w) : w[l] = x
    <3>1. Len(u) + k \in 1..Len(w) /\ w[Len(u) + k] = x
      BY <1>1, <1>2, <2>3
    <3> QED
      BY <3>1
  <2> QED
    BY <2>1, <2>2, <2>3
<1>6. Elems(w) = Elems(u) \cup Elems(v)
  BY <1>5 DEF Elems
<1> QED
  BY <1>2, <1>4, <1>6, OnceIs DEF w

LEMMA AppendOnce ==
  ASSUME NEW u, Once(u), NEW x \in Location, x \notin Elems(u)
  PROVE  Once(Append(u, x)) /\ Elems(Append(u, x)) = Elems(u) \cup {x}
<1> DEFINE w == Append(u, x)
<1>1. u \in Seq(Location) /\ Len(u) \in Nat
  BY DEF Once
<1>2. /\ w \in Seq(Location) /\ Len(w) = Len(u) + 1 /\ w[Len(u) + 1] = x
      /\ \A k \in 1..Len(u) : w[k] = u[k]
  BY <1>1
<1> HIDE DEF w
<1>3. \A j, k \in 1..Len(u) : u[j] = u[k] => j = k
  BY <1>1, OnceIs
<1>4. \A k \in 1..Len(u) : u[k] # x
  BY DEF Elems
<1>5. \A k \in 1..Len(w) : k \in 1..Len(u) \/ k = Len(u) + 1
  BY <1>1, <1>2
<1>6. \A j, k \in 1..Len(w) : w[j] = w[k] => j = k
  BY <1>2, <1>3, <1>4, <1>5
<1>7. Elems(w) = Elems(u) \cup {x}
  <2>1. \A k \in 1..Len(u) : k \in 1..Len(w)
    BY <1>1, <1>2
  <2>2. Len(u) + 1 \in 1..Len(w)
    BY <1>1, <1>2
  <2> QED
    BY <1>2, <1>5, <2>1, <2>2 DEF Elems
<1> QED
  BY <1>2, <1>6, <1>7, OnceIs DEF w

LEMMA TailOnce ==
  ASSUME NEW u, Once(u), u # <<>>
  PROVE  /\ Once(Tail(u)) /\ Head(u) \in Location
         /\ Elems(u) = Elems(Tail(u)) \cup {Head(u)} /\ Head(u) \notin Elems(Tail(u))
<1> DEFINE w == Tail(u)
<1>1. u \in Seq(Location) /\ Len(u) \in Nat \ {0} /\ Head(u) = u[1] /\ Head(u) \in Location
  BY DEF Once
<1>2. /\ w \in Seq(Location) /\ Len(w) = Len(u) - 1
      /\ \A k \in 1..Len(w) : w[k] = u[k + 1]
  BY <1>1, HeadTailProperties
<1> HIDE DEF w
<1>3. \A j, k \in 1..Len(u) : u[j] = u[k] => j = k
  BY <1>1, OnceIs
<1>4. \A k \in 1..Len(w) : k + 1 \in 1..Len(u) /\ k + 1 # 1
  BY <1>1, <1>2
<1>5. \A j, k \in 1..Len(w) : w[j] = w[k] => j = k
  <2> SUFFICES ASSUME NEW j \in 1..Len(w), NEW k \in 1..Len(w), w[j] = w[k] PROVE j = k
    OBVIOUS
  <2>1. j + 1 = k + 1
    BY <1>2, <1>3, <1>4
  <2> QED
    BY <2>1
<1>6. Head(u) \notin Elems(w)
  BY <1>1, <1>2, <1>3, <1>4 DEF Elems
<1>7. Elems(u) = Elems(w) \cup {Head(u)}
  <2>1. \A k \in 1..Len(u) : k = 1 \/ (k - 1 \in 1..Len(w) /\ w[k - 1] = u[k])
    <3> TAKE k \in 1..Len(u)
    <3>1. CASE k # 1
      <4>1. k - 1 \in 1..Len(w) /\ (k - 1) + 1 = k
        BY <1>1, <1>2, <3>1
      <4> QED
        BY <1>2, <4>1
    <3> QED
      BY <3>1
  <2>2. 1 \in 1..Len(u)
    BY <1>1
  <2> QED
    BY <1>1, <1>2, <1>4, <2>1, <2>2 DEF Elems
<1> QED
  BY <1>1, <1>2, <1>5, <1>6, <1>7, OnceIs DEF w

\* Induction on the natural numbers, on a set.
LEMMA NatSets ==
  ASSUME NEW S, 0 \in S, \A n \in Nat : n \in S => n + 1 \in S
  PROVE  Nat \subseteq S
<1> DEFINE T == Nat \ S
<1> SUFFICES ASSUME T # {} PROVE FALSE
  OBVIOUS
<1>1. PICK x \in T : \A y \in T : ~ (<<y, x>> \in OpToRel(<, Nat))
  BY NatLessThanWellFounded, WFMin
<1>2. x \in Nat /\ x # 0 /\ x - 1 \in Nat /\ x - 1 < x
  OBVIOUS
<1>3. <<x - 1, x>> \in OpToRel(<, Nat)
  BY <1>2 DEF OpToRel
<1>4. x - 1 \in S
  BY <1>1, <1>2, <1>3
<1> QED
  BY <1>2, <1>4

\* The locations that getUnknownLocations has found so far.
New(ids) == Once(ids) /\ Apart(ids, known) /\ Apart(ids, forbidden)

LEMMA AddNew ==
  ASSUME known \in Seq(Location), forbidden \in Seq(Location),
         NEW ids, New(ids), NEW l \in Location
  PROVE  New(addUnknown(ids, l))
<1>1. CASE Contains(known, l) \/ Contains(forbidden, l) \/ Contains(ids, l)
  BY <1>1 DEF addUnknown
<1>2. CASE ~(Contains(known, l) \/ Contains(forbidden, l) \/ Contains(ids, l))
  <2>1. l \notin Elems(known) /\ l \notin Elems(forbidden) /\ l \notin Elems(ids)
    BY <1>2 DEF Contains, Elems
  <2>2. addUnknown(ids, l) = Append(ids, l)
    BY <1>2 DEF addUnknown
  <2> QED
    BY <2>1, <2>2, AppendOnce DEF New, Apart
<1> QED
  BY <1>1, <1>2

\* The loop of getUnknownLocations, for every list of orders: by induction the
\* recursive function exists, and what it has found is always new.
LEMMA UnknownIsNew ==
  ASSUME known \in Seq(Location), forbidden \in Seq(Location),
         NEW orders \in Seq(Location)
  PROVE  New(getUnknownLocations(orders))
<1> DEFINE N == Len(orders)
           Found(f, m) == \A i \in 0..m :
              f[i] = IF i = 0 THEN <<>> ELSE addUnknown(f[i - 1], orders[i])
           Exists(m) == \E f : f = [i \in 0..m |-> f[i]] /\ Found(f, m)
           S == {m \in Nat : m <= N => Exists(m)}
<1>1. N \in Nat /\ \A k \in 1..N : orders[k] \in Location
  OBVIOUS
<1>2. 0 \in S
  <2> DEFINE f == [i \in 0..0 |-> <<>>]
  <2>1. f = [i \in 0..0 |-> f[i]] /\ Found(f, 0)
    OBVIOUS
  <2> HIDE DEF f, Found
  <2> QED
    BY <2>1
<1>3. \A m \in Nat : m \in S => m + 1 \in S
  <2> SUFFICES ASSUME NEW m \in Nat, m + 1 <= N, Exists(m) PROVE Exists(m + 1)
    <3> HIDE DEF Exists
    <3> QED
      BY <1>1
  <2>1. PICK f : f = [i \in 0..m |-> f[i]] /\ Found(f, m)
    <3> HIDE DEF Found
    <3> QED
      OBVIOUS
  <2> DEFINE ids == addUnknown(f[m], orders[m + 1])
             g == [i \in 0..(m + 1) |-> IF i = m + 1 THEN ids ELSE f[i]]
  <2>2. g = [i \in 0..(m + 1) |-> g[i]] /\ \A i \in 0..m : g[i] = f[i]
    OBVIOUS
  <2>3. g[m + 1] = addUnknown(g[m], orders[m + 1])
    OBVIOUS
  <2> HIDE DEF g
  <2>4. Found(g, m + 1)
    <3> SUFFICES ASSUME NEW i \in 0..(m + 1)
                 PROVE  g[i] = IF i = 0 THEN <<>> ELSE addUnknown(g[i - 1], orders[i])
      OBVIOUS
    <3>1. CASE i = m + 1
      BY <2>3, <3>1
    <3>2. CASE i \in 0..m
      <4>1. i # 0 => i - 1 \in 0..m
        BY <3>2
      <4> QED
        BY <2>1, <2>2, <3>2, <4>1
    <3> QED
      BY <3>1, <3>2
  <2> HIDE DEF Found
  <2> QED
    BY <2>2, <2>4
<1>4. N \in S
  <2> HIDE DEF S
  <2> QED
    BY <1>1, <1>2, <1>3, NatSets
<1>5. PICK f : f = [i \in 0..N |-> f[i]] /\ Found(f, N)
  BY <1>1, <1>4
<1> DEFINE Loop(h) ==
             h = [i \in 0..N |-> IF i = 0 THEN <<>> ELSE addUnknown(h[i - 1], orders[i])]
           ids == CHOOSE h : Loop(h)
<1>6. Loop(f)
  BY <1>5
<1>7. Loop(ids)
  <2> HIDE DEF Loop
  <2> QED
    BY <1>6
<1>8. getUnknownLocations(orders) = ids[N]
  BY Zenon DEF getUnknownLocations
\* Any function the loop's equation describes: it is the one that was found.
<1>9. New(ids[N])
  <2> DEFINE R == {m \in Nat : m <= N => New(ids[m])}
  <2>1. \A i \in 0..N : ids[i] = IF i = 0 THEN <<>> ELSE addUnknown(ids[i - 1], orders[i])
    BY <1>7
  <2> HIDE DEF ids, Found, S, Loop
  <2>2. 0 \in R
    BY <1>1, <2>1, EmptyOnce DEF New, Apart
  <2>3. \A m \in Nat : m \in R => m + 1 \in R
    <3> SUFFICES ASSUME NEW m \in Nat, New(ids[m]), m + 1 <= N PROVE New(ids[m + 1])
      BY <1>1
    <3>1. ids[m + 1] = addUnknown(ids[m], orders[m + 1]) /\ orders[m + 1] \in Location
      BY <1>1, <2>1
    <3> QED
      BY <3>1, AddNew
  <2>4. N \in R
    <3> HIDE DEF R
    <3> QED
      BY <1>1, <2>2, <2>3, NatSets
  <2> QED
    BY <1>1, <2>4
<1> QED
  BY <1>8, <1>9

-----------------------------------------------------------------------------
\* A location is in one of five places, and there once: known, forbidden, or,
\* while a download runs, found, refused or still to be seen by it.
Lists == Once(known) /\ Once(forbidden) /\ Once(data) /\ Once(refused) /\ Once(unknown)

AllApart ==
  /\ Apart(known, forbidden) /\ Apart(known, data) /\ Apart(known, refused)
  /\ Apart(known, unknown) /\ Apart(forbidden, data) /\ Apart(forbidden, refused)
  /\ Apart(forbidden, unknown) /\ Apart(data, refused) /\ Apart(data, unknown)
  /\ Apart(refused, unknown)

WereRefused ==
  /\ refusals \in [Structure -> Nat]
  /\ \A l \in Elems(forbidden) \cup Elems(refused) : l \in Structure /\ refusals[l] > 0

OnceInv ==
  /\ Lists /\ AllApart /\ WereRefused
  /\ ~downloading => data = <<>> /\ refused = <<>> /\ unknown = <<>>

LEMMA FailOnce ==
  ASSUME OnceInv, Fail, UNCHANGED refusals
  PROVE  OnceInv'
<1>1. /\ known' = known /\ forbidden' = forbidden \o refused
      /\ data' = <<>> /\ refused' = <<>> /\ unknown' = <<>>
  BY DEF Fail
<1>2. Once(forbidden') /\ Elems(forbidden') = Elems(forbidden) \cup Elems(refused)
  BY <1>1, JoinOnce DEF OnceInv, Lists, AllApart
<1> QED
  BY <1>1, <1>2, EmptyOnce DEF OnceInv, Lists, AllApart, Apart, WereRefused

LEMMA EndOnce ==
  ASSUME OnceInv, EndDownload
  PROVE  OnceInv'
<1>1. /\ known' = known \o data /\ forbidden' = forbidden \o refused
      /\ data' = <<>> /\ refused' = <<>> /\ unknown' = unknown /\ unknown = <<>>
      /\ UNCHANGED refusals
  BY DEF EndDownload
<1>2. /\ Once(forbidden') /\ Elems(forbidden') = Elems(forbidden) \cup Elems(refused)
      /\ Once(known') /\ Elems(known') = Elems(known) \cup Elems(data)
  BY <1>1, JoinOnce DEF OnceInv, Lists, AllApart
<1> QED
  BY <1>1, <1>2, EmptyOnce DEF OnceInv, Lists, AllApart, Apart, WereRefused

LEMMA ResolvedOnce ==
  ASSUME OnceInv, downloading, unknown # <<>>, Resolved, UNCHANGED refusals
  PROVE  OnceInv'
<1> DEFINE l == Head(unknown)
<1>1. /\ data' = Append(data, l) /\ unknown' = Tail(unknown)
      /\ UNCHANGED <<known, forbidden, refused, downloading>>
  BY DEF Resolved, sharedVars
<1>2. /\ Once(unknown') /\ l \in Location
      /\ Elems(unknown) = Elems(unknown') \cup {l} /\ l \notin Elems(unknown')
  BY <1>1, TailOnce DEF OnceInv, Lists
<1>3. l \notin Elems(data) /\ l \notin Elems(known) /\ l \notin Elems(forbidden) /\ l \notin Elems(refused)
  BY <1>2 DEF OnceInv, AllApart, Apart
<1>4. Once(data') /\ Elems(data') = Elems(data) \cup {l}
  BY <1>1, <1>2, <1>3, AppendOnce DEF OnceInv, Lists
<1> QED
  BY <1>1, <1>2, <1>3, <1>4 DEF OnceInv, Lists, AllApart, Apart, WereRefused

LEMMA RefuseOnce ==
  ASSUME OnceInv, RefuseStructure
  PROVE  OnceInv'
<1> DEFINE l == Head(unknown)
<1>1. /\ refused' = Append(refused, l) /\ unknown' = Tail(unknown) /\ unknown # <<>>
      /\ l \in Structure
      /\ UNCHANGED <<known, forbidden, data, downloading>> /\ downloading
  BY DEF RefuseStructure, sharedVars
<1>2. /\ Once(unknown') /\ l \in Location
      /\ Elems(unknown) = Elems(unknown') \cup {l} /\ l \notin Elems(unknown')
  BY <1>1, TailOnce DEF OnceInv, Lists
<1>3. l \notin Elems(data) /\ l \notin Elems(known) /\ l \notin Elems(forbidden) /\ l \notin Elems(refused)
  BY <1>2 DEF OnceInv, AllApart, Apart
<1>4. Once(refused') /\ Elems(refused') = Elems(refused) \cup {l}
  BY <1>1, <1>2, <1>3, AppendOnce DEF OnceInv, Lists
<1>5. /\ refusals' \in [Structure -> Nat]
      /\ refusals'[l] > 0 /\ \A s \in Structure : refusals[s] > 0 => refusals'[s] > 0
  BY <1>1, LocationAssumption DEF OnceInv, WereRefused, RefuseStructure
<1>6. WereRefused'
  BY <1>1, <1>4, <1>5 DEF OnceInv, WereRefused
<1>7. Lists' /\ AllApart'
  BY <1>1, <1>2, <1>3, <1>4 DEF OnceInv, Lists, AllApart, Apart
<1> QED
  BY <1>1, <1>6, <1>7 DEF OnceInv

LEMMA BeginOnce ==
  ASSUME OnceInv, BeginDownload
  PROVE  OnceInv'
<1>1. New(unknown')
  <2>1. PICK orders \in OrderDumps : unknown' = getUnknownLocations(orders)
    BY DEF BeginDownload
  <2>2. orders \in Seq(Location) /\ known \in Seq(Location) /\ forbidden \in Seq(Location)
    BY LocationAssumption DEF OnceInv, Lists, Once
  <2> QED
    BY <2>1, <2>2, UnknownIsNew
<1>2. data' = <<>> /\ refused' = <<>> /\ downloading' = TRUE /\ UNCHANGED <<known, forbidden, refusals>>
  BY DEF BeginDownload, sharedVars
<1> QED
  BY <1>1, <1>2, EmptyOnce DEF OnceInv, New, Lists, AllApart, Apart, WereRefused

LEMMA SameOnce == OnceInv /\ UNCHANGED vars => OnceInv'
<1> SUFFICES ASSUME OnceInv, UNCHANGED vars PROVE OnceInv'
  OBVIOUS
<1>1. UNCHANGED <<known, forbidden, data, refused, unknown, downloading, refusals>>
  BY DEF vars, sharedVars
<1>2. Lists' /\ AllApart'
  BY <1>1 DEF OnceInv, Lists, AllApart
<1>3. WereRefused'
  BY <1>1 DEF OnceInv, WereRefused
<1> QED
  BY <1>1, <1>2, <1>3 DEF OnceInv

LEMMA StepOnce == OnceInv /\ [WorkerNext]_workerVars => OnceInv'
<1> SUFFICES ASSUME OnceInv, [WorkerNext]_workerVars PROVE OnceInv'
  OBVIOUS
<1>1. CASE Worker
  BY <1>1, BeginOnce, EndOnce, ResolvedOnce, FailOnce DEF Worker, LookUpStation
<1>2. CASE Answer
  BY <1>2, RefuseOnce, ResolvedOnce, FailOnce DEF Answer, FetchStructure
<1>3. CASE TokenError
  BY <1>3, FailOnce DEF TokenError
<1>4. CASE AcquireToken \/ SendRequest \/ Tick \/ UNCHANGED workerVars
  BY <1>4, SameOnce DEF AcquireToken, SendRequest, Tick, workerVars
<1> QED
  BY <1>1, <1>2, <1>3, <1>4 DEF WorkerNext

\* KnownOrForbiddenOnce, for any locations, order dumps and downloads that fail
\* or do not: no location is recorded twice, and none is forbidden that the ESI
\* has not refused.
THEOREM RecordedOnce == WorkerSpec => []KnownOrForbiddenOnce
<1>1. WorkerInit => OnceInv
  <2> SUFFICES ASSUME WorkerInit PROVE OnceInv
    OBVIOUS
  <2>1. /\ known = <<>> /\ forbidden = <<>> /\ data = <<>> /\ refused = <<>> /\ unknown = <<>>
        /\ refusals \in [Structure -> Nat]
    BY DEF WorkerInit, Init
  <2> QED
    BY <2>1, EmptyOnce DEF OnceInv, Lists, AllApart, Apart, WereRefused
<1>2. OnceInv => KnownOrForbiddenOnce
  <2> SUFFICES ASSUME OnceInv PROVE KnownOrForbiddenOnce
    OBVIOUS
  <2>1. Once(known \o forbidden)
    BY JoinOnce DEF OnceInv, Lists, AllApart
  <2>2. ToSet(forbidden) = Elems(forbidden)
    BY DEF OnceInv, Lists, Once, ToSet, Elems
  <2> QED
    BY <2>1, <2>2 DEF KnownOrForbiddenOnce, Once, OnceInv, WereRefused
<1> QED
  BY <1>1, <1>2, StepOnce, PTL DEF WorkerSpec
=============================================================================

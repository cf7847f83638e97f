------------------------ MODULE HeadlessSessionsProofs ------------------------
(***************************************************************************)
(* For any number of characters, requests, logins, sockets and nested        *)
(* scopes: no Player is left without a session, a headless login never races *)
(* a client's, a ban leaves no headless session, a deletion is not saved,    *)
(* deferred stops are applied and a stopped session does not come back.      *)
(*                                                                           *)
(* The proof rests on what a request token is (Registry): it has at most one *)
(* entry, and only Start and StartPrepared make one; every other handler can *)
(* only move an entry or remove it (Calm).                                   *)
(***************************************************************************)
EXTENDS HeadlessSessions, FiniteSetTheorems, TLAPS

Issued == 1 .. counters.token

\* A request token has one entry at most, a character one token.
Registry ==
    /\ \A c \in Characters : Entries(c) \subseteq Issued
    /\ \A c \in Characters : pending[c] = 0 \/ active[c] = 0
    /\ \A c, d \in Characters : c # d => Entries(c) \cap Entries(d) = {}
    /\ loading \subseteq Issued /\ discarded \subseteq Issued /\ asked \subseteq Issued

\* A deferred stop belongs to the entry of its character, and a request that
\* was discarded or stopped and has an entry left is waiting for one.
Scopes ==
    /\ depth = 0 => asked = {} /\ \A c \in Characters : deferred[c] = NoStop
    /\ \A c \in Characters : deferred[c] # NoStop => deferred[c].token \in Entries(c)
    /\ \A c \in Characters : \A t \in Entries(c) :
         /\ t \in asked => deferred[c].token = t
         /\ t \in discarded => deferred[c].token = t /\ ~deferred[c].save

\* EveryPlayerIsOwned, its second part without counting.
Owned ==
    /\ \A c \in Characters : owner[c] # NoOwner =>
         \/ HasPlayer(c)
         \/ \E n \in 1 .. MaxSockets : Live(n) /\ owner[c] = Network(n)
    /\ \A c, d \in Characters : \A n \in 1 .. MaxSockets :
         owner[c] = Network(n) /\ owner[d] = Network(n) => c = d

SessionsInv ==
    /\ TypeOK /\ Registry /\ Scopes /\ Owned
    /\ HeadlessLoginIsAlone /\ NoHeadlessWhenBanned

-----------------------------------------------------------------------------
(* What the handlers' building blocks do                                    *)

OwnerRange == {NoOwner} \cup {Headless(t) : t \in Requests}
                 \cup {Network(n) : n \in 1 .. MaxSockets}

\* A step that makes no entry: it may move or remove entries.
Calm ==
    /\ \A c \in Characters : /\ Entries(c)' \subseteq Entries(c)
                             /\ pending'[c] = 0 \/ active'[c] = 0
    /\ loading' \subseteq loading /\ counters'.token = counters.token

\* The three kinds of owners differ.
LEMMA OwnersDiffer ==
    /\ \A t : Headless(t) # NoOwner /\ Headless(t)[1] = "headless"
    /\ \A n : Network(n) # NoOwner /\ Network(n)[1] # "headless"
    /\ \A t, n : Headless(t) # Network(n)
    /\ \A t, u : Headless(t) = Headless(u) => t = u
    /\ \A m, n : Network(m) = Network(n) => m = n
    /\ NoOwner[1] # "headless"
  BY DEF Headless, Network, NoOwner

\* DestroySessions removes the entries of C and no others.
LEMMA DestroyFacts ==
    ASSUME SessionsInv, NEW C \in SUBSET Characters, NEW S \in SUBSET Characters,
           DestroySessions(C, S), counters'.token = counters.token
    PROVE  /\ Calm
           /\ \A c \in C : Entries(c)' = {}
           /\ \A c \in Characters \ C : pending'[c] = pending[c] /\ active'[c] = active[c]
           /\ pending' \in [Characters -> 0 .. MaxRequests]
           /\ active' \in [Characters -> 0 .. MaxRequests]
           /\ loading' \subseteq Requests /\ saved' \subseteq Requests
<1> USE DEF SessionsInv
<1>1. /\ pending' \in [Characters -> 0 .. MaxRequests]
      /\ active' \in [Characters -> 0 .. MaxRequests]
      /\ \A c \in C : pending'[c] = 0 /\ active'[c] = 0
      /\ \A c \in Characters \ C : pending'[c] = pending[c] /\ active'[c] = active[c]
  BY BoundAssumption DEF DestroySessions, WithoutPending, TypeOK
<1>2. loading' \subseteq loading
  BY DEF DestroySessions
<1>3. saved' \subseteq Requests
  <2>1. \A c \in Characters : HasPlayer(c) => active[c] \in Requests
    BY BoundAssumption DEF HasPlayer, TypeOK, Requests
  <2> QED
    BY <2>1 DEF DestroySessions, SavedBy, TypeOK
<1>4. \A c \in C : Entries(c)' = {}
  BY <1>1 DEF Entries
<1>5. \A c \in Characters : Entries(c)' \subseteq Entries(c) /\ (pending'[c] = 0 \/ active'[c] = 0)
  BY <1>1 DEF Entries, Registry
<1> QED
  BY <1>1, <1>2, <1>3, <1>4, <1>5 DEF Calm, TypeOK

\* LogoutPlayers takes the Players of P out of the world and no others.
LEMMA LogoutFacts ==
    ASSUME SessionsInv, NEW P, LogoutPlayers(P)
    PROVE  /\ owner' \in [Characters -> OwnerRange]
           /\ where' \in [Characters -> {"nowhere", "world", "transfer", "stranded"}]
           /\ \A c \in Characters : where'[c] = "nowhere" <=> owner'[c] = NoOwner
           /\ \A c \in Characters : c \in P => owner'[c] = NoOwner
           /\ \A c \in Characters : c \notin P => owner'[c] = owner[c]
<1>1. /\ owner \in [Characters -> OwnerRange] /\ NoOwner \in OwnerRange
      /\ where \in [Characters -> {"nowhere", "world", "transfer", "stranded"}]
      /\ \A c \in Characters : where[c] = "nowhere" <=> owner[c] = NoOwner
  BY DEF SessionsInv, TypeOK, OwnerRange
<1>2. owner' \in [Characters -> OwnerRange]
  BY <1>1 DEF LogoutPlayers
<1>3. where' \in [Characters -> {"nowhere", "world", "transfer", "stranded"}]
  BY <1>1 DEF LogoutPlayers
<1>4. \A c \in Characters : IF c \in P THEN owner'[c] = NoOwner /\ where'[c] = "nowhere"
                            ELSE owner'[c] = owner[c] /\ where'[c] = where[c]
  BY DEF LogoutPlayers
<1> QED
  BY <1>1, <1>2, <1>3, <1>4

-----------------------------------------------------------------------------
(* How the parts of the invariant are kept                                  *)

\* Outside every scope no request with an entry has been discarded.
LEMMA NotDiscarded ==
    ASSUME SessionsInv, depth = 0
    PROVE  \A c \in Characters : \A t \in Entries(c) : t \notin discarded
<1>1. NoStop.save = TRUE
  BY DEF NoStop
<1> SUFFICES ASSUME NEW c \in Characters, NEW t \in Entries(c), t \in discarded PROVE FALSE
  OBVIOUS
<1>2. deferred[c] = NoStop
  BY DEF SessionsInv, Scopes
<1>3. ~deferred[c].save
  BY DEF SessionsInv, Scopes
<1> QED
  BY <1>1, <1>2, <1>3

\* A calm step of the world, outside every scope, keeps the registry and the
\* scopes when what it discards has no entry left.
LEMMA WorldStep ==
    ASSUME SessionsInv, Calm, depth = 0, UNCHANGED scope, discarded' \subseteq Issued,
           \A c \in Characters : (discarded' \ discarded) \cap Entries(c)' = {}
    PROVE  Registry' /\ Scopes'
<1> USE DEF SessionsInv
<1>1. Issued' = Issued
  BY DEF Calm, Issued
<1>2. Registry'
  BY <1>1 DEF Calm, Registry, scope
<1>3. /\ depth' = 0 /\ asked' = {} /\ deferred' = deferred
      /\ \A c \in Characters : deferred[c] = NoStop
  BY DEF Scopes, scope
<1>4. \A c \in Characters : \A t \in Entries(c) : t \notin discarded
  BY NotDiscarded
<1>5. Scopes'
  BY <1>3, <1>4 DEF Scopes, Calm
<1> QED
  BY <1>2, <1>5

\* A calm step keeps headless logins alone unless it gives a Player, or a
\* client, to a character that is being loaded.
LEMMA AloneStays ==
    ASSUME SessionsInv, Calm,
           \A c \in Characters :
               \/ owner'[c] \in {NoOwner, owner[c]}
               \/ Entries(c)' \cap loading' = {},
           \A c \in Characters : current' # 0 /\ login'.loading /\ login'.guid = c =>
               \/ current # 0 /\ login.loading /\ login.guid = c
               \/ Entries(c)' \cap loading' = {}
    PROVE  HeadlessLoginIsAlone'
<1> SUFFICES ASSUME NEW c \in Characters, Entries(c)' \cap loading' # {}
             PROVE  /\ pending'[c] = 0 \/ active'[c] = 0
                    /\ owner'[c] = NoOwner
                    /\ ~(current' # 0 /\ login'.loading /\ login'.guid = c)
  BY DEF HeadlessLoginIsAlone
<1>1. Entries(c) \cap loading # {}
  BY DEF Calm
<1> QED
  BY <1>1 DEF SessionsInv, HeadlessLoginIsAlone, Calm

\* A calm step that bans nobody keeps a banned account without headless
\* sessions unless it gives a Player to one.
LEMMA BannedStays ==
    ASSUME SessionsInv, Calm, banned' => banned,
           \A c \in Characters :
               owner'[c] \in {NoOwner, owner[c]} \/ owner'[c][1] # "headless"
    PROVE  NoHeadlessWhenBanned'
<1> SUFFICES ASSUME banned', NEW c \in Characters
             PROVE  Entries(c)' = {} /\ owner'[c][1] # "headless"
  BY DEF NoHeadlessWhenBanned
<1>1. Entries(c) = {} /\ owner[c][1] # "headless"
  BY DEF SessionsInv, NoHeadlessWhenBanned
<1> QED
  BY <1>1, OwnersDiffer DEF Calm

\* Players stay owned when the only new owners are headless sessions with an
\* entry, headless Players keep their entries and the network sessions of
\* Players live on.
LEMMA OwnedStays ==
    ASSUME SessionsInv,
           \A c \in Characters :
               \/ owner'[c] = NoOwner
               \/ HasPlayer(c)'
               \/ owner'[c] = owner[c] /\ (HasPlayer(c) => active'[c] = active[c]),
           \A c \in Characters : \A n \in 1 .. MaxSockets :
               Live(n) /\ owner'[c] = Network(n) => Live(n)'
    PROVE  Owned'
<1>1. ASSUME NEW c \in Characters, owner'[c] # NoOwner, ~HasPlayer(c)'
      PROVE  \E n \in 1 .. MaxSockets : Live(n)' /\ owner'[c] = Network(n)
  <2>1. owner'[c] = owner[c] /\ (HasPlayer(c) => active'[c] = active[c])
    BY <1>1
  <2>2. ~HasPlayer(c)
    BY <1>1, <2>1 DEF HasPlayer
  <2>3. \E n \in 1 .. MaxSockets : Live(n) /\ owner[c] = Network(n)
    BY <1>1, <2>1, <2>2 DEF SessionsInv, Owned
  <2> QED
    BY <2>1, <2>3
<1>2. \A c \in Characters : \A n \in 1 .. MaxSockets :
        owner'[c] = Network(n) => owner[c] = Network(n)
  BY OwnersDiffer DEF HasPlayer
<1>3. \A c, d \in Characters : \A n \in 1 .. MaxSockets :
        owner'[c] = Network(n) /\ owner'[d] = Network(n) => c = d
  BY <1>2 DEF SessionsInv, Owned
<1> QED
  BY <1>1, <1>3 DEF Owned

\* Destroying the sessions of C and logging out P, the headless Players of C
\* among them, keeps every other Player owned.
LEMMA RemoveFacts ==
    ASSUME SessionsInv, NEW C \in SUBSET Characters, NEW S \in SUBSET Characters,
           NEW P, {c \in C : HasPlayer(c)} \subseteq P, DestroySessions(C, S),
           LogoutPlayers(P), counters'.token = counters.token,
           \A c \in Characters : \A n \in 1 .. MaxSockets :
               Live(n) /\ c \notin P /\ owner[c] = Network(n) => Live(n)'
    PROVE  /\ Calm /\ Owned'
           /\ \A c \in C : Entries(c)' = {}
           /\ \A c \in Characters : owner'[c] \in {NoOwner, owner[c]}
<1>1. /\ Calm /\ \A c \in C : Entries(c)' = {}
      /\ \A c \in Characters \ C : active'[c] = active[c]
  BY DestroyFacts
<1>2. /\ \A c \in Characters : c \in P => owner'[c] = NoOwner
      /\ \A c \in Characters : c \notin P => owner'[c] = owner[c]
  BY LogoutFacts
<1>3. \A c \in Characters : HasPlayer(c) /\ c \notin P => active'[c] = active[c]
  BY <1>1
<1>4. Owned'
  BY <1>2, <1>3, OwnersDiffer, OwnedStays
<1> QED
  BY <1>1, <1>2, <1>4

-----------------------------------------------------------------------------
(* What a step does to the requests                                         *)

\* The bodies of the three action properties: a step makes no entry but for a
\* new request, saves no discarded one, and applies the deferred stops at the
\* end of the outermost scope.
StepIsFair ==
    /\ \A c \in Characters : Entries(c)' \subseteq Entries(c) \cup {NextRequestToken}
    /\ (saved' \ saved) \cap discarded' = {}
    /\ depth = 1 /\ depth' = 0 => \A c \in Characters : asked \cap Entries(c)' = {}

\* Only requests with an entry are saved.
LEMMA SavedFacts ==
    ASSUME NEW S, NEW t \in SavedBy(S)
    PROVE  \E c \in S : t \in Entries(c)
  BY DEF SavedBy, HasPlayer, Entries

\* A handler of the world that destroys the sessions of C and logs out P, the
\* headless Players of C among them, keeps all but the account's ban.  What it
\* discards are entries of C, and it saves nothing when it discards.
LEMMA Removal ==
    ASSUME SessionsInv, NEW C \in SUBSET Characters, NEW S \in SUBSET Characters, NEW P,
           {c \in C : HasPlayer(c)} \subseteq P, DestroySessions(C, S), LogoutPlayers(P),
           counters'.token = counters.token, depth = 0, UNCHANGED scope,
           \A t \in discarded' : t \in discarded
                \/ (S = {} /\ \E c \in C : t \in Entries(c)),
           \A c \in Characters : \A n \in 1 .. MaxSockets :
               Live(n) /\ c \notin P /\ owner[c] = Network(n) => Live(n)',
           \A c \in Characters : current' # 0 /\ login'.loading /\ login'.guid = c =>
               \/ current # 0 /\ login.loading /\ login.guid = c
               \/ Entries(c)' \cap loading' = {}
    PROVE  /\ Registry' /\ Scopes' /\ Owned' /\ HeadlessLoginIsAlone' /\ StepIsFair
           /\ (banned' => banned) => NoHeadlessWhenBanned'
           /\ \A c \in C : Entries(c)' = {}
           /\ pending' \in [Characters -> 0 .. MaxRequests]
           /\ active' \in [Characters -> 0 .. MaxRequests]
           /\ loading' \subseteq Requests /\ saved' \subseteq Requests
           /\ discarded' \subseteq Requests
           /\ owner' \in [Characters -> OwnerRange]
           /\ where' \in [Characters -> {"nowhere", "world", "transfer", "stranded"}]
           /\ \A c \in Characters : where'[c] = "nowhere" <=> owner'[c] = NoOwner
<1>1. /\ Calm /\ Owned'
      /\ \A c \in C : Entries(c)' = {}
      /\ \A c \in Characters : owner'[c] \in {NoOwner, owner[c]}
  BY RemoveFacts
<1>2. /\ pending' \in [Characters -> 0 .. MaxRequests]
      /\ active' \in [Characters -> 0 .. MaxRequests]
      /\ loading' \subseteq Requests /\ saved' \subseteq Requests
  BY DestroyFacts
<1>3. /\ owner' \in [Characters -> OwnerRange]
      /\ where' \in [Characters -> {"nowhere", "world", "transfer", "stranded"}]
      /\ \A c \in Characters : where'[c] = "nowhere" <=> owner'[c] = NoOwner
  BY LogoutFacts
<1>4. discarded' \subseteq Issued /\ discarded' \subseteq Requests
  <2>1. discarded \subseteq Issued /\ discarded \subseteq Requests
    BY DEF SessionsInv, Registry, TypeOK
  <2>2. \A c \in C : Entries(c) \subseteq Issued
    BY DEF SessionsInv, Registry
  <2>3. \A c \in C : Entries(c) \subseteq Requests
    BY BoundAssumption DEF SessionsInv, Entries, TypeOK, Requests
  <2> QED
    BY <2>1, <2>2, <2>3
<1>5. \A c \in Characters : (discarded' \ discarded) \cap Entries(c)' = {}
  BY <1>1 DEF SessionsInv, Registry, Calm
<1>6. Registry' /\ Scopes'
  BY <1>1, <1>4, <1>5, WorldStep
<1>7. HeadlessLoginIsAlone'
  BY <1>1, AloneStays
<1>8. (banned' => banned) => NoHeadlessWhenBanned'
  BY <1>1, BannedStays
<1>9. StepIsFair
  <2>1. saved' = saved \cup SavedBy(S)
    BY DEF DestroySessions
  <2>2. (saved' \ saved) \cap discarded' = {}
    BY <2>1, SavedFacts, NotDiscarded
  <2> QED
    BY <1>1, <2>2 DEF StepIsFair, Calm
<1> QED
  BY <1>1, <1>2, <1>3, <1>4, <1>6, <1>7, <1>8, <1>9

\* A handler that leaves the entries alone destroys no session.
LEMMA NothingDestroyed ==
    ASSUME SessionsInv, NEW S, UNCHANGED <<pending, active, loading>>,
           saved' = saved \cup SavedBy(S)
    PROVE  DestroySessions({}, S)
<1>1. pending' = WithoutPending({})
  BY DEF SessionsInv, TypeOK, WithoutPending
<1>2. active' = [c \in Characters |-> IF c \in {} THEN 0 ELSE active[c]]
  BY DEF SessionsInv, TypeOK
<1>3. loading' = loading \ UNION {Entries(c) : c \in {}}
  OBVIOUS
<1> QED
  BY <1>1, <1>2, <1>3 DEF DestroySessions

\* Nobody logs out.
LEMMA NobodySaved == SavedBy({}) = {}
  BY DEF SavedBy

-----------------------------------------------------------------------------
(* The world's handlers                                                     *)

\* The entries that are done go with their Players; the clock of a Player
\* outside the world stays below the grace time.
LEMMA UpdateInv ==
    ASSUME SessionsInv, NEW due \in SUBSET Characters, Update(due)
    PROVE  SessionsInv' /\ StepIsFair
<1> DEFINE idle == {c \in Characters : active[c] # 0 /\ active[c] \notin loading}
           astray == {c \in idle \ due : HasPlayer(c) /\ where[c] = "stranded"}
           gone == {c \in idle : ~HasPlayer(c)} \cup due
                     \cup {c \in astray : Tick(c) = Grace}
<1>1. /\ depth = 0 /\ DestroySessions(gone, gone)
      /\ LogoutPlayers({c \in gone : HasPlayer(c)})
      /\ elapsed' = [c \in Characters |-> IF c \in astray \ gone THEN Tick(c) ELSE 0]
      /\ UNCHANGED <<scope, network, holders, counters, account, stopped, discarded>>
  BY DEF Update, WorldRuns
<1>2. gone \in SUBSET Characters
  OBVIOUS
<1>3. \A c \in astray \ gone : Tick(c) \in 0 .. Grace - 1
  <2>1. \A c \in astray \ gone : c \in Characters /\ Tick(c) # Grace
    OBVIOUS
  <2>2. \A c \in Characters : elapsed[c] \in 0 .. Grace - 1
    BY DEF SessionsInv, TypeOK
  <2> HIDE DEF astray, gone
  <2> QED
    BY <2>1, <2>2, GraceAssumption DEF Tick
<1>4. elapsed' \in [Characters -> 0 .. Grace - 1]
  <2>1. 0 \in 0 .. Grace - 1
    BY GraceAssumption
  <2> HIDE DEF astray, gone
  <2> QED
    BY <1>1, <1>3, <2>1
<1> HIDE DEF astray, gone, idle
<1>5. /\ UNCHANGED <<current, closed, login, disconnected, depth, deferred, asked,
                     banned, locked>>
  BY <1>1 DEF scope, network, account
<1>6. /\ Registry' /\ Scopes' /\ Owned' /\ HeadlessLoginIsAlone' /\ StepIsFair
      /\ (banned' => banned) => NoHeadlessWhenBanned'
      /\ pending' \in [Characters -> 0 .. MaxRequests]
      /\ active' \in [Characters -> 0 .. MaxRequests]
      /\ loading' \subseteq Requests /\ saved' \subseteq Requests
      /\ owner' \in [Characters -> OwnerRange]
      /\ where' \in [Characters -> {"nowhere", "world", "transfer", "stranded"}]
      /\ \A c \in Characters : where'[c] = "nowhere" <=> owner'[c] = NoOwner
  BY <1>1, <1>2, <1>5, Removal DEF Live
<1>7. TypeOK'
  BY <1>1, <1>4, <1>5, <1>6 DEF SessionsInv, TypeOK, OwnerRange
<1> QED
  BY <1>5, <1>6, <1>7 DEF SessionsInv

\* A ban: no entry is left, so by Owned no headless Player is.
LEMMA BanAccountInv ==
    ASSUME SessionsInv, BanAccount PROVE SessionsInv' /\ StepIsFair
<1>1. PICK P :
        /\ depth = 0 /\ DestroySessions(Characters, Characters) /\ LogoutPlayers(P)
        /\ {c \in Characters : HasPlayer(c)} \subseteq P
        /\ closed' \in BOOLEAN /\ banned' = TRUE
        /\ UNCHANGED <<elapsed, scope, current, login, disconnected, holders,
                       counters, locked, stopped, discarded>>
  <2>1. closed \in BOOLEAN
    BY DEF SessionsInv, TypeOK
  <2> QED
    BY <2>1 DEF BanAccount, WorldRuns
<1>2. UNCHANGED <<depth, deferred, asked>>
  BY <1>1 DEF scope
<1>3. {c \in Characters : HasPlayer(c)} \subseteq P
  BY <1>1
<1>4. /\ Registry' /\ Scopes' /\ Owned' /\ HeadlessLoginIsAlone' /\ StepIsFair
      /\ \A c \in Characters : Entries(c)' = {}
      /\ pending' \in [Characters -> 0 .. MaxRequests]
      /\ active' \in [Characters -> 0 .. MaxRequests]
      /\ loading' \subseteq Requests /\ saved' \subseteq Requests
      /\ owner' \in [Characters -> OwnerRange]
      /\ where' \in [Characters -> {"nowhere", "world", "transfer", "stranded"}]
      /\ \A c \in Characters : where'[c] = "nowhere" <=> owner'[c] = NoOwner
  BY <1>1, <1>3, Removal DEF Live
<1>5. \A c \in Characters : owner'[c][1] # "headless"
  <2>1. \A c \in Characters : ~HasPlayer(c)'
    BY <1>4 DEF HasPlayer, Entries
  <2> QED
    BY <1>4, <2>1, OwnersDiffer DEF Owned
<1>6. TypeOK'
  BY <1>1, <1>2, <1>4 DEF SessionsInv, TypeOK, OwnerRange
<1> QED
  BY <1>4, <1>5, <1>6 DEF SessionsInv, NoHeadlessWhenBanned

\* Shutdown: what is left are the clients' sessions that linger.
LEMMA ShutdownInv ==
    ASSUME SessionsInv, Shutdown PROVE SessionsInv' /\ StepIsFair
<1> DEFINE P == {c \in Characters : HasPlayer(c)} \cup PlayedBy(current)
<1>1. /\ depth = 0 /\ DestroySessions(Characters, Characters) /\ LogoutPlayers(P)
      /\ current' = 0 /\ closed' = FALSE /\ login' = NoLogin /\ stopped' = TRUE
      /\ UNCHANGED <<elapsed, scope, disconnected, holders, counters, account, discarded>>
  BY DEF Shutdown, WorldRuns
<1>2. UNCHANGED <<depth, deferred, asked, banned, locked>>
  BY <1>1 DEF scope, account
<1>3. {c \in Characters : HasPlayer(c)} \subseteq P
  OBVIOUS
<1>4. \A c \in Characters : \A n \in 1 .. MaxSockets :
        Live(n) /\ c \notin P /\ owner[c] = Network(n) => Live(n)'
  BY <1>1 DEF Live, PlayedBy
<1> HIDE DEF P
<1>5. /\ Registry' /\ Scopes' /\ Owned' /\ HeadlessLoginIsAlone' /\ StepIsFair
      /\ NoHeadlessWhenBanned'
      /\ pending' \in [Characters -> 0 .. MaxRequests]
      /\ active' \in [Characters -> 0 .. MaxRequests]
      /\ loading' \subseteq Requests /\ saved' \subseteq Requests
      /\ owner' \in [Characters -> OwnerRange]
      /\ where' \in [Characters -> {"nowhere", "world", "transfer", "stranded"}]
      /\ \A c \in Characters : where'[c] = "nowhere" <=> owner'[c] = NoOwner
  BY <1>1, <1>2, <1>3, <1>4, Removal
<1>6. TypeOK'
  <2>1. /\ current' \in 0 .. MaxSockets
        /\ login' \in [guid : Characters \cup {Nobody}, token : 0 .. MaxLogins,
                       loading : BOOLEAN]
    BY <1>1, BoundAssumption DEF NoLogin
  <2> QED
    BY <1>1, <1>2, <1>5, <2>1 DEF SessionsInv, TypeOK, OwnerRange
<1> QED
  BY <1>5, <1>6 DEF SessionsInv

\* A headless Player logs out; its entry stays.
LEMMA InstantLogoutInv ==
    ASSUME SessionsInv, NEW c \in Characters, InstantLogout(c)
    PROVE  SessionsInv' /\ StepIsFair
<1>1. /\ depth = 0 /\ LogoutPlayers({c}) /\ saved' = saved \cup SavedBy({c})
      /\ UNCHANGED <<registry, scope, network, holders, counters, account, stopped,
                     discarded>>
  BY DEF InstantLogout, WorldRuns
<1>2. UNCHANGED <<pending, active, elapsed, loading, current, closed, login, disconnected,
                  depth, deferred, asked, banned, locked>>
  BY <1>1 DEF registry, scope, network, account
<1>3. DestroySessions({}, {c})
  BY <1>1, <1>2, NothingDestroyed
<1>4. /\ Registry' /\ Scopes' /\ Owned' /\ HeadlessLoginIsAlone' /\ StepIsFair
      /\ NoHeadlessWhenBanned' /\ saved' \subseteq Requests
      /\ owner' \in [Characters -> OwnerRange]
      /\ where' \in [Characters -> {"nowhere", "world", "transfer", "stranded"}]
      /\ \A d \in Characters : where'[d] = "nowhere" <=> owner'[d] = NoOwner
  BY <1>1, <1>2, <1>3, Removal DEF Live
<1>5. TypeOK'
  BY <1>1, <1>2, <1>4 DEF SessionsInv, TypeOK, OwnerRange
<1> QED
  BY <1>4, <1>5 DEF SessionsInv

-----------------------------------------------------------------------------
(* The client's sessions                                                    *)

\* A session that leaves the world lingers, or its Player is logged out.
LEMMA DelayFacts ==
    ASSUME SessionsInv, ForcePlayerLogoutDelay
    PROVE  \E P : /\ LogoutPlayers(P)
                  /\ disconnected' \subseteq 1 .. MaxSockets
                  /\ \A c \in Characters : \A n \in 1 .. MaxSockets :
                       Live(n) /\ c \notin P /\ owner[c] = Network(n) => n \in disconnected'
<1> DEFINE lingers == \E c \in PlayedBy(current) : where[c] = "world"
           P == IF lingers THEN {} ELSE PlayedBy(current)
<1>1. /\ LogoutPlayers(P)
      /\ disconnected' = IF lingers THEN disconnected \cup {current} ELSE disconnected
  BY DEF ForcePlayerLogoutDelay
<1>2. lingers => current \in 1 .. MaxSockets
  <2>1. \A c \in Characters : owner[c] = Network(0) => FALSE
    BY OwnersDiffer, BoundAssumption DEF SessionsInv, TypeOK
  <2> QED
    BY <2>1, BoundAssumption DEF SessionsInv, TypeOK, PlayedBy
<1>3. disconnected' \subseteq 1 .. MaxSockets
  BY <1>1, <1>2 DEF SessionsInv, TypeOK
<1>4. \A c \in Characters : \A n \in 1 .. MaxSockets :
        Live(n) /\ c \notin P /\ owner[c] = Network(n) => n \in disconnected'
  BY <1>1 DEF Live, PlayedBy
<1> HIDE DEF P
<1> QED
  BY <1>1, <1>3, <1>4

\* A handler of the network that logs out P, where the sessions of the other
\* Players live on.
LEMMA NetworkStep ==
    ASSUME SessionsInv, NEW P, LogoutPlayers(P), depth = 0,
           UNCHANGED <<registry, scope, holders, account, stopped, saved, discarded>>,
           counters'.token = counters.token,
           counters' \in [token : 0 .. MaxRequests, login : 0 .. MaxLogins,
                          socket : 0 .. MaxSockets],
           current' \in 0 .. MaxSockets, closed' \in BOOLEAN,
           login' \in {login, NoLogin}, login'.loading => current' = current,
           disconnected' \subseteq 1 .. MaxSockets,
           \A c \in Characters : \A n \in 1 .. MaxSockets :
               Live(n) /\ c \notin P /\ owner[c] = Network(n) => Live(n)'
    PROVE  SessionsInv' /\ StepIsFair
<1>1. UNCHANGED <<pending, active, elapsed, loading, depth, deferred, asked, banned, locked>>
  BY DEF registry, scope, account
<1>2. DestroySessions({}, {})
  BY <1>1, NothingDestroyed, NobodySaved
<1>3. NoLogin.loading = FALSE
  BY DEF NoLogin
<1>4. \A c \in Characters : current' # 0 /\ login'.loading /\ login'.guid = c =>
        current # 0 /\ login.loading /\ login.guid = c
  BY <1>3
<1>5. /\ Registry' /\ Scopes' /\ Owned' /\ HeadlessLoginIsAlone' /\ StepIsFair
      /\ NoHeadlessWhenBanned'
      /\ owner' \in [Characters -> OwnerRange]
      /\ where' \in [Characters -> {"nowhere", "world", "transfer", "stranded"}]
      /\ \A d \in Characters : where'[d] = "nowhere" <=> owner'[d] = NoOwner
  BY <1>1, <1>2, <1>4, Removal
<1>6. login' \in [guid : Characters \cup {Nobody}, token : 0 .. MaxLogins,
                  loading : BOOLEAN]
  <2>1. NoLogin \in [guid : Characters \cup {Nobody}, token : 0 .. MaxLogins,
                     loading : BOOLEAN]
    BY BoundAssumption DEF NoLogin
  <2> QED
    BY <2>1 DEF SessionsInv, TypeOK
<1>7. TypeOK'
  BY <1>1, <1>5, <1>6 DEF SessionsInv, TypeOK, OwnerRange
<1> QED
  BY <1>5, <1>7 DEF SessionsInv

\* Logging nobody out.
LEMMA NobodyLeaves ==
    ASSUME SessionsInv, UNCHANGED players PROVE LogoutPlayers({})
  BY DEF SessionsInv, TypeOK, players, LogoutPlayers

\* A new connection replaces the session of the account, or is refused.
LEMMA AddSessionInv ==
    ASSUME SessionsInv, AddSession PROVE SessionsInv' /\ StepIsFair
<1>1. /\ depth = 0 /\ counters.socket < MaxSockets
      /\ counters' = [counters EXCEPT !.socket = @ + 1]
      /\ UNCHANGED <<registry, scope, holders, account, stopped, saved, discarded>>
  BY DEF AddSession, WorldRuns
<1>2. /\ counters'.token = counters.token
      /\ counters' \in [token : 0 .. MaxRequests, login : 0 .. MaxLogins,
                        socket : 0 .. MaxSockets]
      /\ counters.socket + 1 \in 0 .. MaxSockets
  BY <1>1, BoundAssumption DEF SessionsInv, TypeOK
<1>3. current \in 0 .. MaxSockets /\ closed \in BOOLEAN /\ disconnected \subseteq 1 .. MaxSockets
  BY DEF SessionsInv, TypeOK
<1>4. CASE current # 0 /\ login.loading
  <2>1. UNCHANGED players /\ UNCHANGED <<current, closed, login, disconnected>>
    BY <1>4 DEF AddSession, network
  <2>2. LogoutPlayers({})
    BY <2>1, NobodyLeaves
  <2> QED
    BY <1>1, <1>2, <1>3, <2>1, <2>2, NetworkStep DEF Live
<1>5. CASE ~(current # 0 /\ login.loading)
  <2>1. /\ current' = counters.socket + 1 /\ closed' = FALSE /\ login' = NoLogin
        /\ ForcePlayerLogoutDelay
    BY <1>5 DEF AddSession
  <2>2. PICK P : /\ LogoutPlayers(P)
                 /\ disconnected' \subseteq 1 .. MaxSockets
                 /\ \A c \in Characters : \A n \in 1 .. MaxSockets :
                      Live(n) /\ c \notin P /\ owner[c] = Network(n) => n \in disconnected'
    BY <2>1, DelayFacts
  <2>3. ~login'.loading
    BY <2>1 DEF NoLogin
  <2>4. \A n : n \in disconnected' => Live(n)'
    BY DEF Live
  <2> QED
    BY <1>1, <1>2, <2>1, <2>2, <2>3, <2>4, NetworkStep
<1> QED
  BY <1>4, <1>5

\* A socket that closes leaves its session as it is.
LEMMA CloseSocketInv ==
    ASSUME SessionsInv, CloseSocket PROVE SessionsInv' /\ StepIsFair
<1>1. /\ depth = 0 /\ closed' = TRUE /\ UNCHANGED players
      /\ UNCHANGED <<current, login, disconnected, counters>>
      /\ UNCHANGED <<registry, scope, holders, account, stopped, saved, discarded>>
  BY DEF CloseSocket, WorldRuns
<1>2. LogoutPlayers({})
  BY <1>1, NobodyLeaves
<1>3. /\ current \in 0 .. MaxSockets /\ disconnected \subseteq 1 .. MaxSockets
      /\ counters \in [token : 0 .. MaxRequests, login : 0 .. MaxLogins,
                       socket : 0 .. MaxSockets]
  BY DEF SessionsInv, TypeOK
<1> QED
  BY <1>1, <1>2, <1>3, NetworkStep DEF Live

\* The session of a closed socket goes, its login request with it.
LEMMA UpdateClosedInv ==
    ASSUME SessionsInv, UpdateClosed PROVE SessionsInv' /\ StepIsFair
<1>1. /\ depth = 0 /\ current' = 0 /\ closed' = FALSE /\ login' = NoLogin
      /\ ForcePlayerLogoutDelay /\ UNCHANGED counters
      /\ UNCHANGED <<registry, scope, holders, account, stopped, saved, discarded>>
  BY DEF UpdateClosed, WorldRuns
<1>2. PICK P : /\ LogoutPlayers(P)
               /\ disconnected' \subseteq 1 .. MaxSockets
               /\ \A c \in Characters : \A n \in 1 .. MaxSockets :
                    Live(n) /\ c \notin P /\ owner[c] = Network(n) => n \in disconnected'
  BY <1>1, DelayFacts
<1>3. ~login'.loading
  BY <1>1 DEF NoLogin
<1>4. \A n : n \in disconnected' => Live(n)'
  BY DEF Live
<1>5. /\ 0 \in 0 .. MaxSockets
      /\ counters \in [token : 0 .. MaxRequests, login : 0 .. MaxLogins,
                       socket : 0 .. MaxSockets]
  BY BoundAssumption DEF SessionsInv, TypeOK
<1> QED
  BY <1>1, <1>2, <1>3, <1>4, <1>5, NetworkStep

\* A lingering session takes its Player with it.
LEMMA ExpireDisconnectedInv ==
    ASSUME SessionsInv, NEW n \in 1 .. MaxSockets, ExpireDisconnected(n)
    PROVE  SessionsInv' /\ StepIsFair
<1>1. /\ depth = 0 /\ disconnected' = disconnected \ {n} /\ LogoutPlayers(PlayedBy(n))
      /\ UNCHANGED <<current, closed, login, counters>>
      /\ UNCHANGED <<registry, scope, holders, account, stopped, saved, discarded>>
  BY DEF ExpireDisconnected, WorldRuns
<1>2. /\ current \in 0 .. MaxSockets /\ closed \in BOOLEAN
      /\ disconnected' \subseteq 1 .. MaxSockets
      /\ counters \in [token : 0 .. MaxRequests, login : 0 .. MaxLogins,
                       socket : 0 .. MaxSockets]
  BY <1>1 DEF SessionsInv, TypeOK
<1>3. \A c \in Characters : \A m \in 1 .. MaxSockets :
        Live(m) /\ c \notin PlayedBy(n) /\ owner[c] = Network(m) => Live(m)'
  BY <1>1 DEF Live, PlayedBy
<1> QED
  BY <1>1, <1>2, <1>3, NetworkStep

\* The client logs out and keeps its session.
LEMMA NetworkLogoutInv ==
    ASSUME SessionsInv, NetworkLogout PROVE SessionsInv' /\ StepIsFair
<1>1. /\ depth = 0 /\ LogoutPlayers(PlayedBy(current))
      /\ UNCHANGED <<current, closed, login, disconnected, counters>>
      /\ UNCHANGED <<registry, scope, holders, account, stopped, saved, discarded>>
  BY DEF NetworkLogout, WorldRuns, network
<1>2. /\ current \in 0 .. MaxSockets /\ closed \in BOOLEAN
      /\ disconnected \subseteq 1 .. MaxSockets
      /\ counters \in [token : 0 .. MaxRequests, login : 0 .. MaxLogins,
                       socket : 0 .. MaxSockets]
  BY DEF SessionsInv, TypeOK
<1> QED
  BY <1>1, <1>2, NetworkStep DEF Live

\* The client's login cancels a headless login on its way, so none is left when
\* the client is loading.
LEMMA HandlePlayerLoginOpcodeInv ==
    ASSUME SessionsInv, NEW c \in Characters, HandlePlayerLoginOpcode(c)
    PROVE  SessionsInv' /\ StepIsFair
<1>1. PICK yields \in YieldChoices(c) :
        LET out == {d \in {c} : Cancels(d, yields)} IN
        /\ DestroySessions(out, IF yields THEN out ELSE {})
        /\ LogoutPlayers({d \in out : HasPlayer(d)})
        /\ discarded' = IF out # {} /\ ~yields
                        THEN discarded \cup Entries(c) ELSE discarded
        /\ IF Dispatches(c, yields)
           THEN LET t == counters.login + 1 IN
                /\ counters' = [counters EXCEPT !.login = t]
                /\ login' = [guid |-> c, token |-> t, loading |-> TRUE]
                /\ holders' = holders \cup
                      {[transport |-> "network", guid |-> c, token |-> t]}
           ELSE UNCHANGED <<counters, login, holders>>
  BY DEF HandlePlayerLoginOpcode
<1> DEFINE out == {d \in {c} : Cancels(d, yields)}
           S == IF yields THEN out ELSE {}
           P == {d \in out : HasPlayer(d)}
<1>2. /\ DestroySessions(out, S) /\ LogoutPlayers(P)
      /\ discarded' = IF out # {} /\ ~yields THEN discarded \cup Entries(c) ELSE discarded
  BY <1>1
<1>3. /\ depth = 0 /\ counters.login < MaxLogins
      /\ UNCHANGED <<elapsed, scope, current, closed, disconnected, account, stopped>>
  BY DEF HandlePlayerLoginOpcode, WorldRuns
<1>4. UNCHANGED <<depth, deferred, asked, banned, locked>>
  BY <1>3 DEF scope, account
<1>5. /\ counters'.token = counters.token
      /\ counters' \in [token : 0 .. MaxRequests, login : 0 .. MaxLogins,
                        socket : 0 .. MaxSockets]
      /\ login' \in [guid : Characters \cup {Nobody}, token : 0 .. MaxLogins,
                     loading : BOOLEAN]
      /\ holders' \subseteq [transport : {"headless", "network"}, guid : Characters,
                              token : Nat \ {0}]
      /\ login' = login \/ login'.guid = c
  <2>1. CASE Dispatches(c, yields)
    <3>1. /\ counters' = [counters EXCEPT !.login = counters.login + 1]
          /\ login' = [guid |-> c, token |-> counters.login + 1, loading |-> TRUE]
          /\ holders' = holders \cup
                {[transport |-> "network", guid |-> c, token |-> counters.login + 1]}
      BY <1>1, <2>1
    <3>2. counters.login + 1 \in 0 .. MaxLogins /\ counters.login + 1 \in Nat \ {0}
      BY <1>3, BoundAssumption DEF SessionsInv, TypeOK
    <3> QED
      BY <3>1, <3>2 DEF SessionsInv, TypeOK
  <2>2. CASE ~Dispatches(c, yields)
    <3>1. UNCHANGED <<counters, login, holders>>
      BY <1>1, <2>2
    <3> QED
      BY <3>1 DEF SessionsInv, TypeOK
  <2> QED
    BY <2>1, <2>2
<1>6. Entries(c)' \cap loading' = {}
  <2>1. out \in SUBSET Characters /\ S \in SUBSET Characters
    OBVIOUS
  <2>2. Calm /\ \A d \in out : Entries(d)' = {}
    BY <1>2, <1>5, <2>1, DestroyFacts
  <2>3. c \notin out => Entries(c) \cap loading = {}
    BY DEF Cancels, GetState, Entries
  <2> QED
    BY <2>2, <2>3 DEF Calm
<1>7. \A t \in discarded' : t \in discarded \/ (S = {} /\ \E d \in out : t \in Entries(d))
  BY <1>2
<1>8. /\ out \in SUBSET Characters /\ S \in SUBSET Characters
      /\ {d \in out : HasPlayer(d)} \subseteq P
  OBVIOUS
<1> HIDE DEF out, S, P
<1>9. /\ Registry' /\ Scopes' /\ Owned' /\ HeadlessLoginIsAlone' /\ StepIsFair
      /\ NoHeadlessWhenBanned'
      /\ pending' \in [Characters -> 0 .. MaxRequests]
      /\ active' \in [Characters -> 0 .. MaxRequests]
      /\ loading' \subseteq Requests /\ saved' \subseteq Requests
      /\ discarded' \subseteq Requests
      /\ owner' \in [Characters -> OwnerRange]
      /\ where' \in [Characters -> {"nowhere", "world", "transfer", "stranded"}]
      /\ \A d \in Characters : where'[d] = "nowhere" <=> owner'[d] = NoOwner
  <2>1. \A d \in Characters : current' # 0 /\ login'.loading /\ login'.guid = d =>
          \/ current # 0 /\ login.loading /\ login.guid = d
          \/ Entries(d)' \cap loading' = {}
    BY <1>3, <1>5, <1>6
  <2>2. \A d \in Characters : \A n \in 1 .. MaxSockets :
          Live(n) /\ d \notin P /\ owner[d] = Network(n) => Live(n)'
    BY <1>3 DEF Live
  <2>3. UNCHANGED scope /\ counters'.token = counters.token /\ (banned' => banned)
    BY <1>3, <1>4, <1>5
  <2> QED
    BY <1>2, <1>3, <1>7, <1>8, <2>1, <2>2, <2>3, Removal
<1>10. TypeOK'
  BY <1>3, <1>4, <1>5, <1>9 DEF SessionsInv, TypeOK, OwnerRange
<1> QED
  BY <1>9, <1>10 DEF SessionsInv

\* A client's login holder: it is dropped, the client is kicked, or the client
\* takes a Player over.  No headless login is on its way then.
LEMMA HandlePlayerLoginInv ==
    ASSUME SessionsInv, NEW h \in holders, HandlePlayerLogin(h)
    PROVE  SessionsInv' /\ StepIsFair
<1> DEFINE c == h.guid
<1>1. /\ depth = 0 /\ holders' = holders \ {h} /\ c \in Characters
      /\ UNCHANGED <<pending, elapsed, loading, scope, current, disconnected,
                     counters, account, stopped, saved, discarded>>
  BY DEF HandlePlayerLogin, WorldRuns, SessionsInv, TypeOK
<1>2. UNCHANGED <<depth, deferred, asked, banned, locked>>
  BY <1>1 DEF scope, account
<1>3. /\ login' \in [guid : Characters \cup {Nobody}, token : 0 .. MaxLogins,
                     loading : BOOLEAN]
      /\ login'.loading => login' = login
      /\ closed' \in BOOLEAN
  <2>1. login' = login \/ login' = [login EXCEPT !.loading = FALSE]
    BY DEF HandlePlayerLogin
  <2>2. closed' = closed \/ closed' = TRUE
    BY DEF HandlePlayerLogin
  <2> QED
    BY <2>1, <2>2 DEF SessionsInv, TypeOK
<1>4. CASE UNCHANGED <<active, players>>
  <2>1. LogoutPlayers({})
    BY <1>4, NobodyLeaves
  <2>2. DestroySessions({}, {})
    BY <1>1, <1>4, NothingDestroyed, NobodySaved
  <2>3. /\ Registry' /\ Scopes' /\ Owned' /\ HeadlessLoginIsAlone' /\ StepIsFair
        /\ NoHeadlessWhenBanned'
    BY <1>1, <1>2, <1>3, <2>1, <2>2, Removal DEF Live
  <2>4. TypeOK'
    BY <1>1, <1>2, <1>3, <1>4 DEF SessionsInv, TypeOK, players
  <2> QED
    BY <2>3, <2>4 DEF SessionsInv
<1>5. CASE ~UNCHANGED <<active, players>>
  <2>1. /\ current # 0 /\ IsLoginRequest(h) /\ PlayedBy(current) = {} /\ login.loading
    BY <1>5 DEF HandlePlayerLogin
  <2>2. /\ owner' = [owner EXCEPT ![c] = Network(current)]
        /\ (where' = where /\ where[c] = "world") \/ where' = [where EXCEPT ![c] = "world"]
        /\ active' = active \/ active' = [active EXCEPT ![c] = 0]
    BY <1>5, <2>1 DEF HandlePlayerLogin, ReclaimForNetwork
  <2>3. current \in 1 .. MaxSockets
    BY <2>1, BoundAssumption DEF SessionsInv, TypeOK
  <2>4. Entries(c) \cap loading = {}
    BY <1>1, <2>1 DEF SessionsInv, HeadlessLoginIsAlone, IsLoginRequest
  <2>5. /\ active' \in [Characters -> 0 .. MaxRequests]
        /\ \A d \in Characters : active'[d] = 0 \/ active'[d] = active[d]
        /\ \A d \in Characters \ {c} : active'[d] = active[d]
    BY <1>1, <2>2, BoundAssumption DEF SessionsInv, TypeOK
  <2>6. Calm
    BY <1>1, <2>5 DEF Calm, Entries, SessionsInv, Registry
  <2>7. /\ owner' \in [Characters -> OwnerRange] /\ owner'[c] = Network(current)
        /\ \A d \in Characters \ {c} : owner'[d] = owner[d]
    <3>1. owner \in [Characters -> OwnerRange] /\ Network(current) \in OwnerRange
      BY <2>3 DEF SessionsInv, TypeOK, OwnerRange
    <3> QED
      BY <1>1, <2>2, <3>1
  <2>8. /\ where' \in [Characters -> {"nowhere", "world", "transfer", "stranded"}]
        /\ where'[c] = "world" /\ \A d \in Characters \ {c} : where'[d] = where[d]
    BY <1>1, <2>2 DEF SessionsInv, TypeOK
  <2>9. TypeOK'
    <3>1. \A d \in Characters : where'[d] = "nowhere" <=> owner'[d] = NoOwner
      BY <2>7, <2>8, OwnersDiffer DEF SessionsInv, TypeOK
    <3> QED
      BY <1>1, <1>2, <1>3, <2>5, <2>7, <2>8, <3>1 DEF SessionsInv, TypeOK, OwnerRange
  <2>10. Registry' /\ Scopes'
    <3>1. discarded \subseteq Issued
      BY DEF SessionsInv, Registry
    <3> QED
      BY <1>1, <2>6, <3>1, WorldStep
  <2>11. HeadlessLoginIsAlone'
    <3>1. Entries(c)' \cap loading' = {}
      BY <1>1, <2>4, <2>6 DEF Calm
    <3> QED
      BY <1>1, <1>3, <2>6, <2>7, <3>1, AloneStays
  <2>12. NoHeadlessWhenBanned'
    BY <1>2, <2>6, <2>7, OwnersDiffer, BannedStays
  <2>13. Owned'
    <3>1. \A n : Live(n)' <=> Live(n)
      BY <1>1 DEF Live
    <3>2. Live(current)
      BY <2>1 DEF Live
    <3>3. \A d \in Characters \ {c} : HasPlayer(d)' <=> HasPlayer(d)
      BY <2>5, <2>7 DEF HasPlayer
    <3>4. ASSUME NEW d \in Characters, owner'[d] # NoOwner
          PROVE  \/ HasPlayer(d)'
                 \/ \E n \in 1 .. MaxSockets : Live(n)' /\ owner'[d] = Network(n)
      BY <2>3, <2>7, <3>1, <3>2, <3>3, <3>4 DEF SessionsInv, Owned
    <3>5. \A d \in Characters \ {c} : owner'[d] # Network(current)
      BY <2>1, <2>7 DEF PlayedBy
    <3>6. \A d, e \in Characters : \A n \in 1 .. MaxSockets :
            owner'[d] = Network(n) /\ owner'[e] = Network(n) => d = e
      BY <2>7, <3>5, OwnersDiffer DEF SessionsInv, Owned
    <3> QED
      BY <3>4, <3>6 DEF Owned
  <2>14. StepIsFair
    BY <1>1, <1>2, <2>6 DEF StepIsFair, Calm
  <2> QED
    BY <2>9, <2>10, <2>11, <2>12, <2>13, <2>14 DEF SessionsInv
<1> QED
  BY <1>4, <1>5

-----------------------------------------------------------------------------
(* The manager's handlers                                                   *)

\* A headless holder finds its session and gives it a Player, or is refused.
LEMMA HandleLoginCallbackInv ==
    ASSUME SessionsInv, NEW h \in holders, HandleLoginCallback(h)
    PROVE  SessionsInv' /\ StepIsFair
<1> DEFINE c == h.guid
<1>1. /\ depth = 0 /\ holders' = holders \ {h} /\ c \in Characters
      /\ UNCHANGED <<scope, network, counters, account, stopped>>
  BY DEF HandleLoginCallback, WorldRuns, SessionsInv, TypeOK
<1>2. UNCHANGED <<depth, deferred, asked, current, closed, login, disconnected,
                  banned, locked>>
  BY <1>1 DEF scope, account, network
<1>3. \A n : Live(n)' <=> Live(n)
  BY <1>2 DEF Live
<1>4. CASE FindEntry(h) /\ Refused(h) = {} /\ owner[c] = NoOwner
  <2>1. /\ pending' = [pending EXCEPT ![c] = 0]
        /\ active' = [active EXCEPT ![c] = h.token]
        /\ elapsed' = [elapsed EXCEPT ![c] = IF pending[c] = 0 THEN @ ELSE 0]
        /\ loading' = loading \ {h.token}
        /\ UNCHANGED <<saved, discarded>>
    BY <1>4 DEF HandleLoginCallback
  <2>2. \/ UNCHANGED players
        \/ /\ owner' = [owner EXCEPT ![c] = Headless(h.token)]
           /\ where' = [where EXCEPT ![c] = "world"]
    BY <1>4 DEF HandleLoginCallback
  <2>3. h.token \in Entries(c) /\ h.token \in Requests /\ ~banned
    <3>1. h.token \in Entries(c)
      BY <1>4 DEF FindEntry
    <3>2. ~banned
      BY <1>1, <1>4 DEF Refused
    <3> QED
      BY <1>1, <3>1, <3>2, BoundAssumption DEF SessionsInv, TypeOK, Entries, Requests
  <2>4. /\ pending' \in [Characters -> 0 .. MaxRequests]
        /\ active' \in [Characters -> 0 .. MaxRequests]
        /\ pending'[c] = 0 /\ active'[c] = h.token
        /\ \A d \in Characters \ {c} : pending'[d] = pending[d] /\ active'[d] = active[d]
    BY <1>1, <2>1, <2>3, BoundAssumption DEF SessionsInv, TypeOK, Requests
  <2>5. elapsed' \in [Characters -> 0 .. Grace - 1]
    BY <1>1, <2>1, GraceAssumption DEF SessionsInv, TypeOK
  <2>6. Calm /\ loading' \subseteq Requests
    BY <1>1, <2>1, <2>3, <2>4 DEF Calm, Entries, SessionsInv, Registry, TypeOK
  <2>7. /\ owner' \in [Characters -> OwnerRange]
        /\ owner'[c] \in {NoOwner, Headless(h.token)}
        /\ \A d \in Characters \ {c} : owner'[d] = owner[d]
    <3>1. owner \in [Characters -> OwnerRange] /\ Headless(h.token) \in OwnerRange
      BY <2>3 DEF SessionsInv, TypeOK, OwnerRange
    <3> QED
      BY <1>1, <1>4, <2>2, <3>1 DEF players
  <2>8. /\ where' \in [Characters -> {"nowhere", "world", "transfer", "stranded"}]
        /\ \A d \in Characters : where'[d] = "nowhere" <=> owner'[d] = NoOwner
    <3>1. CASE UNCHANGED players
      BY <3>1 DEF SessionsInv, TypeOK, players
    <3>2. CASE /\ owner' = [owner EXCEPT ![c] = Headless(h.token)]
               /\ where' = [where EXCEPT ![c] = "world"]
      <4>1. /\ where' \in [Characters -> {"nowhere", "world", "transfer", "stranded"}]
            /\ where'[c] = "world" /\ owner'[c] = Headless(h.token)
            /\ \A d \in Characters \ {c} : where'[d] = where[d]
        BY <1>1, <3>2 DEF SessionsInv, TypeOK
      <4> QED
        BY <2>7, <4>1, OwnersDiffer DEF SessionsInv, TypeOK
    <3> QED
      BY <2>2, <3>1, <3>2
  <2>9. TypeOK'
    BY <1>1, <1>2, <2>1, <2>4, <2>5, <2>6, <2>7, <2>8 DEF SessionsInv, TypeOK, OwnerRange
  <2>10. Registry' /\ Scopes'
    <3>1. discarded \subseteq Issued
      BY DEF SessionsInv, Registry
    <3> QED
      BY <1>1, <2>1, <2>6, <3>1, WorldStep
  <2>11. HeadlessLoginIsAlone'
    <3>1. Entries(c)' \cap loading' = {}
      BY <2>1, <2>4 DEF Entries
    <3> QED
      BY <1>2, <2>6, <2>7, <3>1, AloneStays
  <2>12. NoHeadlessWhenBanned'
    BY <1>2, <2>3 DEF NoHeadlessWhenBanned
  <2>13. Owned'
    <3>1. owner'[c] = NoOwner \/ HasPlayer(c)'
      BY <2>3, <2>4, <2>7 DEF HasPlayer, Entries
    <3> QED
      BY <1>3, <2>4, <2>7, <3>1, OwnedStays
  <2>14. StepIsFair
    BY <1>2, <2>1, <2>6 DEF StepIsFair, Calm
  <2> QED
    BY <2>9, <2>10, <2>11, <2>12, <2>13, <2>14 DEF SessionsInv
<1>5. CASE ~(FindEntry(h) /\ Refused(h) = {} /\ owner[c] = NoOwner)
  <2> DEFINE C == Refused(h)
             S == IF banned THEN C ELSE {}
             P == {d \in C : HasPlayer(d)}
  <2>1. /\ DestroySessions(C, S) /\ LogoutPlayers(P) /\ UNCHANGED elapsed
        /\ discarded' = IF banned \/ C = {} THEN discarded ELSE discarded \cup {h.token}
    BY <1>5 DEF HandleLoginCallback
  <2>2. C \in SUBSET Characters /\ (~banned => C \subseteq {c})
    BY <1>1 DEF Refused
  <2>3. C # {} => h.token \in Entries(c)
    BY DEF Refused, FindEntry
  <2>4. \A t \in discarded' : t \in discarded \/ (S = {} /\ \E d \in C : t \in Entries(d))
    <3> HIDE DEF C
    <3> QED
      BY <2>1, <2>2, <2>3
  <2>5. S \in SUBSET Characters /\ {d \in C : HasPlayer(d)} \subseteq P
    BY <2>2
  <2> HIDE DEF C, S, P
  <2>6. /\ Registry' /\ Scopes' /\ Owned' /\ HeadlessLoginIsAlone' /\ StepIsFair
        /\ NoHeadlessWhenBanned'
        /\ pending' \in [Characters -> 0 .. MaxRequests]
        /\ active' \in [Characters -> 0 .. MaxRequests]
        /\ loading' \subseteq Requests /\ saved' \subseteq Requests
        /\ discarded' \subseteq Requests
        /\ owner' \in [Characters -> OwnerRange]
        /\ where' \in [Characters -> {"nowhere", "world", "transfer", "stranded"}]
        /\ \A d \in Characters : where'[d] = "nowhere" <=> owner'[d] = NoOwner
    BY <1>1, <1>2, <1>3, <2>1, <2>2, <2>4, <2>5, Removal
  <2>7. TypeOK'
    BY <1>1, <1>2, <2>1, <2>6 DEF SessionsInv, TypeOK, OwnerRange
  <2> QED
    BY <2>6, <2>7 DEF SessionsInv
<1> QED
  BY <1>4, <1>5

\* Pending entries become active ones, or go.
LEMMA PromotePendingInv ==
    ASSUME SessionsInv, PromotePending PROVE SessionsInv' /\ StepIsFair
<1> DEFINE waits == {c \in Characters : pending[c] # 0}
           rejected == {c \in waits : active[c] # 0 \/ owner[c] # NoOwner}
<1>1. /\ depth = 0
      /\ pending' = [c \in Characters |-> 0]
      /\ active' = [c \in Characters |->
                       IF c \in waits \ rejected THEN pending[c] ELSE active[c]]
      /\ elapsed' = [c \in Characters |->
                       IF c \in waits \ rejected THEN 0 ELSE elapsed[c]]
      /\ loading' = loading \ {pending[c] : c \in rejected}
      /\ UNCHANGED <<scope, players, network, holders, counters, account, stopped,
                     saved, discarded>>
  BY DEF PromotePending, WorldRuns
<1>2. UNCHANGED <<owner, where, depth, deferred, asked, current, closed, login,
                  disconnected, banned, locked>>
  BY <1>1 DEF scope, account, network, players
<1>3. \A c \in waits \ rejected : c \in Characters /\ active[c] = 0
  OBVIOUS
<1> HIDE DEF waits, rejected
<1>4. /\ pending' \in [Characters -> 0 .. MaxRequests]
      /\ active' \in [Characters -> 0 .. MaxRequests]
      /\ \A c \in Characters : pending'[c] = 0 /\ active'[c] \in {pending[c], active[c]}
      /\ \A c \in Characters : active[c] # 0 => active'[c] = active[c]
  BY <1>1, <1>3, BoundAssumption DEF SessionsInv, TypeOK
<1>5. elapsed' \in [Characters -> 0 .. Grace - 1]
  BY <1>1, GraceAssumption DEF SessionsInv, TypeOK
<1>6. Calm /\ loading' \subseteq Requests
  BY <1>1, <1>4 DEF Calm, Entries, SessionsInv, TypeOK
<1>7. TypeOK'
  BY <1>1, <1>2, <1>4, <1>5, <1>6 DEF SessionsInv, TypeOK
<1>8. Registry' /\ Scopes'
  <2>1. discarded \subseteq Issued
    BY DEF SessionsInv, Registry
  <2> QED
    BY <1>1, <1>6, <2>1, WorldStep
<1>9. HeadlessLoginIsAlone'
  BY <1>2, <1>6, AloneStays
<1>10. NoHeadlessWhenBanned'
  BY <1>2, <1>6, BannedStays
<1>11. Owned'
  BY <1>2, <1>4, OwnedStays DEF HasPlayer, Live
<1>12. StepIsFair
  BY <1>1, <1>2, <1>6 DEF StepIsFair, Calm
<1> QED
  BY <1>7, <1>8, <1>9, <1>10, <1>11, <1>12 DEF SessionsInv

-----------------------------------------------------------------------------
(* The module's calls                                                       *)

\* A new request keeps the registry: its token has not been issued before, and
\* its character had no entry.
LEMMA NewRequest ==
    ASSUME SessionsInv, NEW c \in Characters, counters.token < MaxRequests,
           ValidateStart(c), counters' = [counters EXCEPT !.token = NextRequestToken],
           Entries(c)' \subseteq {NextRequestToken}, pending'[c] = 0 \/ active'[c] = 0,
           \A d \in Characters \ {c} : pending'[d] = pending[d] /\ active'[d] = active[d],
           loading' \subseteq loading \cup {NextRequestToken},
           discarded' \subseteq discarded \cup {NextRequestToken},
           asked' \subseteq asked \cup {NextRequestToken}, UNCHANGED banned
    PROVE  /\ Registry' /\ NoHeadlessWhenBanned'
           /\ Entries(c) = {} /\ pending[c] = 0 /\ active[c] = 0 /\ owner[c] = NoOwner
           /\ ~(current # 0 /\ login.loading /\ login.guid = c)
           /\ deferred[c] = NoStop
           /\ NextRequestToken \in Requests /\ NextRequestToken \notin Issued
           /\ \A d \in Characters \ {c} : Entries(d)' = Entries(d)
           /\ counters' \in [token : 0 .. MaxRequests, login : 0 .. MaxLogins,
                             socket : 0 .. MaxSockets]
           /\ loading' \subseteq Requests /\ discarded' \subseteq Requests
           /\ asked' \subseteq Requests
<1>1. /\ Entries(c) = {} /\ owner[c] = NoOwner /\ ~banned
      /\ ~(current # 0 /\ login.loading /\ login.guid = c)
  BY DEF ValidateStart, Unclaimed
<1>2. pending[c] = 0 /\ active[c] = 0
  BY <1>1 DEF Entries
<1>3. deferred[c] = NoStop
  BY <1>1 DEF SessionsInv, Scopes
<1>4. /\ counters'.token = NextRequestToken
      /\ counters' \in [token : 0 .. MaxRequests, login : 0 .. MaxLogins,
                        socket : 0 .. MaxSockets]
      /\ NextRequestToken \in Requests /\ NextRequestToken \notin Issued
      /\ Issued' = Issued \cup {NextRequestToken}
  <2>1. /\ counters.token \in 0 .. MaxRequests
        /\ counters \in [token : 0 .. MaxRequests, login : 0 .. MaxLogins,
                         socket : 0 .. MaxSockets]
    BY DEF SessionsInv, TypeOK
  <2>2. NextRequestToken \in Requests /\ NextRequestToken \in 0 .. MaxRequests
    BY <2>1, BoundAssumption DEF NextRequestToken, Requests
  <2>3. /\ counters'.token = NextRequestToken
        /\ counters' \in [token : 0 .. MaxRequests, login : 0 .. MaxLogins,
                          socket : 0 .. MaxSockets]
    BY <2>1, <2>2
  <2>4. /\ NextRequestToken \notin Issued
        /\ Issued' = Issued \cup {NextRequestToken}
    BY <2>1, <2>3, BoundAssumption DEF NextRequestToken, Issued
  <2> QED
    BY <2>2, <2>3, <2>4
<1>5. \A d \in Characters \ {c} : Entries(d)' = Entries(d)
  BY DEF Entries
<1>6. Registry'
  BY <1>2, <1>4, <1>5 DEF SessionsInv, Registry
<1>7. loading' \subseteq Requests /\ discarded' \subseteq Requests /\ asked' \subseteq Requests
  BY <1>4 DEF SessionsInv, TypeOK
<1>8. NoHeadlessWhenBanned'
  BY <1>1 DEF NoHeadlessWhenBanned
<1> QED
  BY <1>1, <1>2, <1>3, <1>4, <1>5, <1>6, <1>7, <1>8

\* Start: an entry that is loading, or a request that failed at once.
LEMMA StartInv ==
    ASSUME SessionsInv, NEW c \in Characters, Start(c)
    PROVE  SessionsInv' /\ StepIsFair
<1> DEFINE t == NextRequestToken
<1>1. /\ counters.token < MaxRequests /\ ValidateStart(c)
      /\ counters' = [counters EXCEPT !.token = t]
      /\ UNCHANGED <<active, elapsed, scope, players, network, account, stopped,
                     saved, discarded>>
  BY DEF Start
<1>2. UNCHANGED <<owner, where, depth, deferred, asked, current, closed, login,
                  disconnected, banned, locked>>
  BY <1>1 DEF scope, account, network, players
<1>3. \/ UNCHANGED <<pending, loading, holders>>
      \/ /\ pending' = [pending EXCEPT ![c] = t]
         /\ loading' = loading \cup {t}
         /\ holders' = holders \cup {[transport |-> "headless", guid |-> c, token |-> t]}
  BY DEF Start
<1>4. Entries(c) = {} /\ pending[c] = 0 /\ active[c] = 0
  BY <1>1 DEF ValidateStart, Unclaimed, Entries
<1>5. t \in Requests /\ t \in Nat \ {0}
  BY <1>1, BoundAssumption DEF SessionsInv, TypeOK, NextRequestToken, Requests
<1> HIDE DEF t
<1>6. /\ pending' \in [Characters -> 0 .. MaxRequests]
      /\ pending'[c] \in {0, t} /\ \A d \in Characters \ {c} : pending'[d] = pending[d]
      /\ holders' \subseteq [transport : {"headless", "network"}, guid : Characters,
                              token : Nat \ {0}]
      /\ loading' \subseteq loading \cup {t}
  BY <1>3, <1>4, <1>5, BoundAssumption DEF SessionsInv, TypeOK, Requests
<1>7. Entries(c)' \subseteq {t}
  BY <1>1, <1>4, <1>6 DEF Entries
<1>8. /\ Registry' /\ NoHeadlessWhenBanned' /\ owner[c] = NoOwner
      /\ ~(current # 0 /\ login.loading /\ login.guid = c)
      /\ t \notin Issued /\ \A d \in Characters \ {c} : Entries(d)' = Entries(d)
      /\ counters' \in [token : 0 .. MaxRequests, login : 0 .. MaxLogins,
                        socket : 0 .. MaxSockets]
      /\ loading' \subseteq Requests
  BY <1>1, <1>2, <1>4, <1>6, <1>7, NewRequest DEF t
<1>9. TypeOK'
  BY <1>1, <1>2, <1>6, <1>8 DEF SessionsInv, TypeOK
<1>10. Scopes'
  BY <1>1, <1>2, <1>4, <1>7, <1>8 DEF SessionsInv, Scopes, Registry
<1>11. HeadlessLoginIsAlone'
  <2>1. \A d \in Characters \ {c} : t \notin Entries(d)
    BY <1>8 DEF SessionsInv, Registry
  <2> QED
    BY <1>1, <1>2, <1>4, <1>6, <1>8, <2>1 DEF SessionsInv, HeadlessLoginIsAlone
<1>12. Owned'
  BY <1>1, <1>2, OwnedStays DEF Live
<1>13. StepIsFair
  BY <1>1, <1>2, <1>7, <1>8 DEF StepIsFair, t
<1> QED
  BY <1>8, <1>9, <1>10, <1>11, <1>12, <1>13 DEF SessionsInv

\* A prepared holder: the Player is there, or the entry is on its way out.
LEMMA StartPreparedInv ==
    ASSUME SessionsInv, NEW c \in Characters, StartPrepared(c)
    PROVE  SessionsInv' /\ StepIsFair
<1> DEFINE t == NextRequestToken
<1>1. /\ counters.token < MaxRequests /\ ValidateStart(c)
      /\ counters' = [counters EXCEPT !.token = t]
      /\ elapsed' = [elapsed EXCEPT ![c] = 0]
      /\ UNCHANGED <<pending, loading, network, holders, account, stopped, saved>>
  BY DEF StartPrepared
<1>2. UNCHANGED <<current, closed, login, disconnected, banned, locked>>
  BY <1>1 DEF account, network
<1>3. Entries(c) = {} /\ pending[c] = 0 /\ active[c] = 0 /\ owner[c] = NoOwner
  BY <1>1 DEF ValidateStart, Unclaimed, Entries
<1>4. t \in Requests /\ t # 0
  BY <1>1, BoundAssumption DEF SessionsInv, TypeOK, NextRequestToken, Requests
<1>5. \/ /\ active' = [active EXCEPT ![c] = t]
         /\ owner' = [owner EXCEPT ![c] = Headless(t)]
         /\ where' = [where EXCEPT ![c] = "world"]
         /\ UNCHANGED <<scope, discarded>>
      \/ /\ discarded' = discarded \cup {t} /\ depth > 0
         /\ active' = [active EXCEPT ![c] = t]
         /\ deferred' = [deferred EXCEPT ![c] = DeferStop(c, t, FALSE)]
         /\ asked' = asked \cup {t} /\ UNCHANGED <<depth, players>>
      \/ /\ discarded' = discarded \cup {t}
         /\ UNCHANGED <<active, deferred, asked, depth, players>>
  BY DEF StartPrepared
<1> HIDE DEF t
<1>6. /\ active' \in [Characters -> 0 .. MaxRequests]
      /\ active'[c] \in {0, t} /\ \A d \in Characters \ {c} : active'[d] = active[d]
  <2>1. active' = active \/ active' = [active EXCEPT ![c] = t]
    BY <1>5
  <2>2. active \in [Characters -> 0 .. MaxRequests] /\ t \in 0 .. MaxRequests
    BY <1>4, BoundAssumption DEF SessionsInv, TypeOK, Requests
  <2> QED
    BY <1>3, <2>1, <2>2
<1>7. Entries(c)' \subseteq {t}
  BY <1>1, <1>3, <1>6 DEF Entries
<1>8. /\ depth' = depth /\ asked' \subseteq asked \cup {t}
      /\ discarded' \subseteq discarded \cup {t}
  BY <1>5 DEF scope
<1>9. /\ Registry' /\ NoHeadlessWhenBanned'
      /\ ~(current # 0 /\ login.loading /\ login.guid = c) /\ deferred[c] = NoStop
      /\ t \notin Issued /\ \A d \in Characters \ {c} : Entries(d)' = Entries(d)
      /\ counters' \in [token : 0 .. MaxRequests, login : 0 .. MaxLogins,
                        socket : 0 .. MaxSockets]
      /\ discarded' \subseteq Requests /\ asked' \subseteq Requests
  BY <1>1, <1>2, <1>3, <1>6, <1>7, <1>8, NewRequest DEF t
<1>10. DeferStop(c, t, FALSE) = [token |-> t, save |-> FALSE]
  BY <1>9 DEF DeferStop
<1>11. /\ deferred' \in [Characters -> [token : 0 .. MaxRequests, save : BOOLEAN]]
       /\ \A d \in Characters \ {c} : deferred'[d] = deferred[d]
       /\ \/ deferred'[c] = NoStop /\ t \notin asked' /\ (t \in discarded' => Entries(c)' = {})
          \/ /\ depth > 0 /\ Entries(c)' = {t}
             /\ deferred'[c].token = t /\ deferred'[c].save = FALSE
  <2>1. t \notin asked /\ t \notin discarded
    BY <1>9 DEF SessionsInv, Registry
  <2>2. CASE UNCHANGED <<scope, discarded>>
    BY <1>9, <2>1, <2>2 DEF SessionsInv, TypeOK, scope
  <2>3. CASE /\ discarded' = discarded \cup {t}
             /\ UNCHANGED <<active, deferred, asked, depth, players>>
    <3>1. Entries(c)' = {}
      BY <1>1, <1>3, <2>3 DEF Entries
    <3> QED
      BY <1>9, <2>1, <2>3, <3>1 DEF SessionsInv, TypeOK
  <2>4. CASE /\ discarded' = discarded \cup {t} /\ depth > 0
             /\ active' = [active EXCEPT ![c] = t]
             /\ deferred' = [deferred EXCEPT ![c] = DeferStop(c, t, FALSE)]
             /\ asked' = asked \cup {t} /\ UNCHANGED <<depth, players>>
    <3>1. active'[c] = t
      BY <2>4 DEF SessionsInv, TypeOK
    <3>2. Entries(c)' = {t}
      BY <1>1, <1>3, <1>4, <3>1 DEF Entries
    <3>3. /\ deferred'[c] = [token |-> t, save |-> FALSE]
          /\ \A d \in Characters \ {c} : deferred'[d] = deferred[d]
          /\ deferred' \in [Characters -> [token : 0 .. MaxRequests, save : BOOLEAN]]
      <4>1. /\ deferred \in [Characters -> [token : 0 .. MaxRequests, save : BOOLEAN]]
            /\ t \in 0 .. MaxRequests
        BY <1>4, BoundAssumption DEF SessionsInv, TypeOK, Requests
      <4>2. deferred' = [deferred EXCEPT ![c] = [token |-> t, save |-> FALSE]]
        BY <1>10, <2>4
      <4> QED
        BY <4>1, <4>2
    <3>4. deferred'[c].token = t /\ deferred'[c].save = FALSE
      BY <3>3
    <3> QED
      BY <2>4, <3>2, <3>3, <3>4
  <2> QED
    BY <1>5, <2>2, <2>3, <2>4
<1>12. /\ owner' \in [Characters -> OwnerRange]
       /\ owner'[c] = NoOwner \/ (owner'[c] = Headless(t) /\ active'[c] = t)
       /\ \A d \in Characters \ {c} : owner'[d] = owner[d]
       /\ where' \in [Characters -> {"nowhere", "world", "transfer", "stranded"}]
       /\ \A d \in Characters : where'[d] = "nowhere" <=> owner'[d] = NoOwner
  <2>1. CASE UNCHANGED players
    BY <1>3, <2>1 DEF SessionsInv, TypeOK, players, OwnerRange
  <2>2. CASE /\ active' = [active EXCEPT ![c] = t]
             /\ owner' = [owner EXCEPT ![c] = Headless(t)]
             /\ where' = [where EXCEPT ![c] = "world"]
    <3>1. owner \in [Characters -> OwnerRange] /\ Headless(t) \in OwnerRange
      BY <1>4 DEF SessionsInv, TypeOK, OwnerRange
    <3>2. /\ owner' \in [Characters -> OwnerRange]
          /\ owner'[c] = Headless(t) /\ active'[c] = t
          /\ \A d \in Characters \ {c} : owner'[d] = owner[d]
      BY <2>2, <3>1 DEF SessionsInv, TypeOK
    <3>3. /\ where' \in [Characters -> {"nowhere", "world", "transfer", "stranded"}]
          /\ where'[c] = "world" /\ \A d \in Characters \ {c} : where'[d] = where[d]
      BY <2>2 DEF SessionsInv, TypeOK
    <3> QED
      BY <3>2, <3>3, OwnersDiffer DEF SessionsInv, TypeOK
  <2> QED
    BY <1>5, <2>1, <2>2
<1>13. TypeOK'
  <2>1. elapsed' \in [Characters -> 0 .. Grace - 1]
    BY <1>1, GraceAssumption DEF SessionsInv, TypeOK
  <2> QED
    BY <1>1, <1>2, <1>6, <1>8, <1>9, <1>11, <1>12, <2>1 DEF SessionsInv, TypeOK, OwnerRange
<1>14. Scopes'
  <2>1. depth' = 0 => asked' = {} /\ \A d \in Characters : deferred'[d] = NoStop
    BY <1>5, <1>8, <1>11 DEF SessionsInv, Scopes, scope
  <2>2. /\ deferred'[c] # NoStop => deferred'[c].token \in Entries(c)'
        /\ \A u \in Entries(c)' :
             /\ u \in asked' => deferred'[c].token = u
             /\ u \in discarded' => deferred'[c].token = u /\ ~deferred'[c].save
    BY <1>7, <1>11
  <2>3. ASSUME NEW d \in Characters \ {c}
        PROVE  /\ deferred'[d] # NoStop => deferred'[d].token \in Entries(d)'
               /\ \A u \in Entries(d)' :
                    /\ u \in asked' => deferred'[d].token = u
                    /\ u \in discarded' => deferred'[d].token = u /\ ~deferred'[d].save
    <3>1. Entries(d)' = Entries(d) /\ t \notin Entries(d) /\ deferred'[d] = deferred[d]
      BY <1>9, <1>11, <2>3 DEF SessionsInv, Registry
    <3> QED
      BY <1>8, <2>3, <3>1 DEF SessionsInv, Scopes
  <2> QED
    BY <2>1, <2>2, <2>3 DEF Scopes
<1>15. HeadlessLoginIsAlone'
  <2>1. t \notin loading /\ Entries(c)' \cap loading' = {}
    BY <1>1, <1>7, <1>9 DEF SessionsInv, Registry
  <2> QED
    BY <1>1, <1>2, <1>6, <1>9, <1>12, <2>1 DEF SessionsInv, HeadlessLoginIsAlone
<1>16. Owned'
  <2>1. owner'[c] = NoOwner \/ HasPlayer(c)'
    BY <1>4, <1>12 DEF HasPlayer
  <2> QED
    BY <1>2, <1>6, <1>12, <2>1, OwnedStays DEF Live
<1>17. StepIsFair
  BY <1>1, <1>7, <1>8, <1>9 DEF StepIsFair, t
<1> QED
  BY <1>9, <1>13, <1>14, <1>15, <1>16, <1>17 DEF SessionsInv

\* What a deferred stop becomes when the character's only entry t is stopped.
LEMMA DeferFacts ==
    ASSUME SessionsInv, NEW c \in Characters, NEW t \in Entries(c), NEW save \in BOOLEAN,
           Entries(c) = {t}
    PROVE  /\ DeferStop(c, t, save) \in [token : 0 .. MaxRequests, save : BOOLEAN]
           /\ DeferStop(c, t, save).token = t
           /\ DeferStop(c, t, save).save => save
           /\ t \in discarded => ~DeferStop(c, t, save).save
<1>1. t \in 0 .. MaxRequests /\ t # 0
  BY DEF SessionsInv, TypeOK, Entries
<1>2. deferred[c] \in [token : 0 .. MaxRequests, save : BOOLEAN]
  BY DEF SessionsInv, TypeOK
<1>3. t \in discarded => deferred[c].token = t /\ ~deferred[c].save
  BY DEF SessionsInv, Scopes
<1>4. CASE deferred[c] = NoStop
  <2>1. DeferStop(c, t, save) = [token |-> t, save |-> save]
    BY <1>4 DEF DeferStop
  <2>2. t \notin discarded
    BY <1>1, <1>3, <1>4 DEF NoStop
  <2> QED
    BY <1>1, <2>1, <2>2
<1>5. CASE deferred[c] # NoStop
  <2>1. DeferStop(c, t, save) = [deferred[c] EXCEPT !.save = deferred[c].save /\ save]
    BY <1>5 DEF DeferStop
  <2>2. deferred[c].token = t
    BY <1>5 DEF SessionsInv, Scopes
  <2>3. /\ DeferStop(c, t, save).token = t
        /\ DeferStop(c, t, save).save = (deferred[c].save /\ save)
        /\ DeferStop(c, t, save) \in [token : 0 .. MaxRequests, save : BOOLEAN]
    BY <1>2, <2>1, <2>2
  <2> QED
    BY <1>3, <2>3
<1> QED
  BY <1>4, <1>5

\* Stop: at once, or deferred to the end of the scope.
LEMMA StopInv ==
    ASSUME SessionsInv, NEW c \in Characters, NEW save \in BOOLEAN, Stop(c, save)
    PROVE  SessionsInv' /\ StepIsFair
<1>1. /\ Entries(c) # {}
      /\ discarded' = IF save THEN discarded ELSE discarded \cup Entries(c)
      /\ UNCHANGED <<network, holders, counters, account, stopped>>
  BY DEF Stop
<1>2. UNCHANGED <<current, closed, login, disconnected, banned, locked>>
  BY <1>1 DEF account, network
<1>3. \A n : Live(n)' <=> Live(n)
  BY <1>2 DEF Live
<1>4. CASE depth > 0
  <2>1. PICK t \in Entries(c) :
          /\ deferred' = [deferred EXCEPT ![c] = DeferStop(c, t, save)]
          /\ asked' = asked \cup {t}
    BY <1>4 DEF Stop
  <2>2. UNCHANGED <<pending, active, elapsed, loading, depth, owner, where, saved>>
    BY <1>4 DEF Stop, registry, players
  <2>3. Entries(c) = {t} /\ t \in Requests
    BY BoundAssumption DEF SessionsInv, Registry, TypeOK, Entries, Requests
  <2>4. /\ deferred' \in [Characters -> [token : 0 .. MaxRequests, save : BOOLEAN]]
        /\ deferred'[c] = DeferStop(c, t, save)
        /\ \A d \in Characters \ {c} : deferred'[d] = deferred[d]
    <3>1. DeferStop(c, t, save) \in [token : 0 .. MaxRequests, save : BOOLEAN]
      BY <2>3, DeferFacts
    <3> QED
      BY <2>1, <3>1 DEF SessionsInv, TypeOK
  <2>5. \A d \in Characters : Entries(d)' = Entries(d)
    BY <2>2 DEF Entries
  <2>6. TypeOK'
    <3>1. asked' \subseteq Requests /\ discarded' \subseteq Requests
      BY <1>1, <2>1, <2>3 DEF SessionsInv, TypeOK
    <3> QED
      BY <1>1, <1>2, <2>2, <2>4, <3>1 DEF SessionsInv, TypeOK
  <2>7. Registry'
    <3>1. Issued' = Issued
      BY <1>1 DEF Issued
    <3>2. Entries(c) \subseteq Issued /\ discarded \subseteq Issued /\ asked \subseteq Issued
      BY DEF SessionsInv, Registry
    <3>3. discarded' \subseteq Issued /\ asked' \subseteq Issued
      BY <1>1, <2>1, <3>2
    <3> QED
      BY <2>2, <2>5, <3>1, <3>3 DEF SessionsInv, Registry
  <2>8. Scopes'
    <3>1. depth' # 0
      BY <1>4, <2>2 DEF SessionsInv, TypeOK
    <3>2. /\ deferred'[c].token \in Entries(c)'
          /\ \A u \in Entries(c)' :
               /\ deferred'[c].token = u
               /\ u \in discarded' => ~deferred'[c].save
      BY <1>1, <2>3, <2>4, <2>5, DeferFacts
    <3>3. ASSUME NEW d \in Characters \ {c}
          PROVE  /\ deferred'[d] # NoStop => deferred'[d].token \in Entries(d)'
                 /\ \A u \in Entries(d)' :
                      /\ u \in asked' => deferred'[d].token = u
                      /\ u \in discarded' => deferred'[d].token = u /\ ~deferred'[d].save
      <4>1. /\ Entries(d)' = Entries(d) /\ deferred'[d] = deferred[d]
            /\ Entries(c) \cap Entries(d) = {}
        BY <2>4, <2>5, <3>3 DEF SessionsInv, Registry
      <4>2. \A u \in Entries(d) : (u \in asked' => u \in asked)
                                 /\ (u \in discarded' => u \in discarded)
        BY <1>1, <2>1, <4>1
      <4> QED
        BY <3>3, <4>1, <4>2 DEF SessionsInv, Scopes
    <3> QED
      BY <3>1, <3>2, <3>3 DEF Scopes
  <2>9. HeadlessLoginIsAlone' /\ NoHeadlessWhenBanned'
    BY <1>2, <2>2, <2>5 DEF SessionsInv, HeadlessLoginIsAlone, NoHeadlessWhenBanned
  <2>10. Owned'
    BY <1>3, <2>2, OwnedStays
  <2>11. StepIsFair
    BY <2>2, <2>5, <1>4 DEF StepIsFair
  <2> QED
    BY <2>6, <2>7, <2>8, <2>9, <2>10, <2>11 DEF SessionsInv
<1>5. CASE ~(depth > 0)
  <2> DEFINE S == IF save THEN {c} ELSE {}
             P == {d \in {c} : HasPlayer(d)}
  <2>1. /\ DestroySessions({c}, S) /\ LogoutPlayers(P) /\ UNCHANGED <<elapsed, scope>>
    BY <1>5 DEF Stop
  <2>2. depth = 0 /\ UNCHANGED <<depth, deferred, asked>>
    BY <1>5, <2>1, BoundAssumption DEF SessionsInv, TypeOK, scope
  <2>3. \A t \in discarded' : t \in discarded \/ (S = {} /\ \E d \in {c} : t \in Entries(d))
    BY <1>1
  <2>4. {c} \in SUBSET Characters /\ S \in SUBSET Characters
    OBVIOUS
  <2>5. {d \in {c} : HasPlayer(d)} \subseteq P
    OBVIOUS
  <2> HIDE DEF S, P
  <2>6. /\ Registry' /\ Scopes' /\ Owned' /\ HeadlessLoginIsAlone' /\ StepIsFair
        /\ NoHeadlessWhenBanned'
        /\ pending' \in [Characters -> 0 .. MaxRequests]
        /\ active' \in [Characters -> 0 .. MaxRequests]
        /\ loading' \subseteq Requests /\ saved' \subseteq Requests
        /\ discarded' \subseteq Requests
        /\ owner' \in [Characters -> OwnerRange]
        /\ where' \in [Characters -> {"nowhere", "world", "transfer", "stranded"}]
        /\ \A d \in Characters : where'[d] = "nowhere" <=> owner'[d] = NoOwner
    BY <1>1, <1>2, <1>3, <2>1, <2>2, <2>3, <2>4, <2>5, Removal
  <2>7. TypeOK'
    BY <1>1, <1>2, <2>1, <2>2, <2>6 DEF SessionsInv, TypeOK, OwnerRange
  <2> QED
    BY <2>6, <2>7 DEF SessionsInv
<1> QED
  BY <1>4, <1>5

\* A nested scope changes nothing but the depth.
LEMMA BeginStopDeferralInv ==
    ASSUME SessionsInv, BeginStopDeferral PROVE SessionsInv' /\ StepIsFair
<1>1. /\ depth < MaxDepth /\ depth' = depth + 1
      /\ UNCHANGED <<pending, active, elapsed, loading, deferred, asked, owner, where,
                     current, closed, login, disconnected, holders, counters, banned,
                     locked, stopped, saved, discarded>>
  BY DEF BeginStopDeferral, registry, players, network, account
<1>2. depth \in Nat /\ depth' # 0 /\ depth' \in 0 .. MaxDepth
  BY <1>1, BoundAssumption DEF SessionsInv, TypeOK
<1>3. \A d \in Characters : (Entries(d)' = Entries(d)) /\ (HasPlayer(d)' <=> HasPlayer(d))
  BY <1>1 DEF Entries, HasPlayer
<1>4. \A n : Live(n)' <=> Live(n)
  BY <1>1 DEF Live
<1>5. TypeOK'
  BY <1>1, <1>2 DEF SessionsInv, TypeOK
<1>6. Registry' /\ Scopes' /\ HeadlessLoginIsAlone' /\ NoHeadlessWhenBanned'
  BY <1>1, <1>2, <1>3 DEF SessionsInv, Registry, Scopes, HeadlessLoginIsAlone,
     NoHeadlessWhenBanned, Issued
<1>7. Owned'
  BY <1>1, <1>4, OwnedStays
<1>8. StepIsFair
  BY <1>1, <1>2, <1>3 DEF StepIsFair
<1> QED
  BY <1>5, <1>6, <1>7, <1>8 DEF SessionsInv

\* When the outermost scope closes, the stops that were deferred are due.
LEMMA EndStopDeferralInv ==
    ASSUME SessionsInv, EndStopDeferral PROVE SessionsInv' /\ StepIsFair
<1>1. /\ depth > 0 /\ depth' = depth - 1
      /\ UNCHANGED <<network, holders, counters, account, stopped, discarded>>
  BY DEF EndStopDeferral
<1>2. UNCHANGED <<current, closed, login, disconnected, banned, locked>>
  BY <1>1 DEF account, network
<1>3. depth \in Nat /\ depth' \in 0 .. MaxDepth
  BY <1>1, BoundAssumption DEF SessionsInv, TypeOK
<1>4. \A n : Live(n)' <=> Live(n)
  BY <1>2 DEF Live
<1>5. CASE depth > 1
  <2>1. UNCHANGED <<pending, active, elapsed, loading, owner, where, saved, deferred, asked>>
    BY <1>5 DEF EndStopDeferral, registry, players
  <2>2. \A d \in Characters : Entries(d)' = Entries(d)
    BY <2>1 DEF Entries
  <2>3. TypeOK'
    BY <1>1, <1>2, <1>3, <2>1 DEF SessionsInv, TypeOK
  <2>4. depth' # 0
    BY <1>1, <1>3, <1>5
  <2>5. Registry' /\ Scopes' /\ HeadlessLoginIsAlone' /\ NoHeadlessWhenBanned'
    BY <1>1, <1>2, <2>1, <2>2, <2>4 DEF SessionsInv, Registry, Scopes, HeadlessLoginIsAlone,
       NoHeadlessWhenBanned, Issued
  <2>6. Owned'
    BY <1>4, <2>1, OwnedStays
  <2>7. StepIsFair
    BY <2>1, <2>2, <2>4 DEF StepIsFair
  <2> QED
    BY <2>3, <2>5, <2>6, <2>7 DEF SessionsInv
<1>6. CASE ~(depth > 1)
  <2> DEFINE due == {c \in Characters : StopIsDue(c)}
             S == {c \in due : deferred[c].save}
             P == {c \in due : HasPlayer(c)}
  <2>1. /\ DestroySessions(due, S) /\ LogoutPlayers(P)
        /\ deferred' = [c \in Characters |-> NoStop] /\ asked' = {} /\ UNCHANGED elapsed
    BY <1>6 DEF EndStopDeferral
  <2>2. due \in SUBSET Characters /\ S \in SUBSET Characters
    OBVIOUS
  <2>3. /\ Calm /\ Owned'
        /\ \A c \in due : Entries(c)' = {}
        /\ \A c \in Characters : owner'[c] \in {NoOwner, owner[c]}
    <3>1. {c \in due : HasPlayer(c)} \subseteq P
      OBVIOUS
    <3> HIDE DEF due, S, P
    <3> QED
      BY <1>1, <1>4, <2>1, <2>2, <3>1, RemoveFacts
  <2>4. ASSUME NEW c \in Characters, NEW t \in Entries(c)', t \in asked \/ t \in discarded
        PROVE  FALSE
    <3>1. t \in Entries(c) /\ deferred[c].token = t
      BY <2>3, <2>4 DEF Calm, SessionsInv, Scopes
    <3>2. t # 0
      BY <3>1 DEF Entries
    <3>3. c \in due
      BY <3>1, <3>2 DEF StopIsDue, NoStop
    <3> QED
      BY <2>3, <3>3
  <2>5. /\ pending' \in [Characters -> 0 .. MaxRequests]
        /\ active' \in [Characters -> 0 .. MaxRequests]
        /\ loading' \subseteq Requests /\ saved' \subseteq Requests
    BY <1>1, <2>1, <2>2, DestroyFacts
  <2>6. /\ owner' \in [Characters -> OwnerRange]
        /\ where' \in [Characters -> {"nowhere", "world", "transfer", "stranded"}]
        /\ \A c \in Characters : where'[c] = "nowhere" <=> owner'[c] = NoOwner
    BY <2>1, LogoutFacts
  <2>7. /\ deferred' \in [Characters -> [token : 0 .. MaxRequests, save : BOOLEAN]]
        /\ \A c \in Characters : deferred'[c] = NoStop
    BY <2>1, BoundAssumption DEF NoStop
  <2>8. TypeOK'
    BY <1>1, <1>2, <1>3, <2>1, <2>5, <2>6, <2>7 DEF SessionsInv, TypeOK, OwnerRange
  <2>9. Registry'
    <3>1. Issued' = Issued
      BY <1>1 DEF Issued
    <3> QED
      BY <1>1, <2>1, <2>3, <3>1 DEF SessionsInv, Registry, Calm
  <2>10. Scopes'
    BY <1>1, <2>1, <2>4, <2>7 DEF Scopes
  <2>11. HeadlessLoginIsAlone' /\ NoHeadlessWhenBanned'
    BY <1>2, <2>3, AloneStays, BannedStays
  <2>12. (saved' \ saved) \cap discarded' = {}
    <3>1. saved' = saved \cup SavedBy(S)
      BY <2>1 DEF DestroySessions
    <3>2. ASSUME NEW t \in SavedBy(S), t \in discarded PROVE FALSE
      <4>1. PICK c \in S : t \in Entries(c)
        BY SavedFacts
      <4>2. c \in Characters /\ deferred[c].save
        OBVIOUS
      <4> QED
        BY <3>2, <4>1, <4>2 DEF SessionsInv, Scopes
    <3> QED
      BY <1>1, <3>1, <3>2
  <2>13. StepIsFair
    BY <2>3, <2>4, <2>12 DEF StepIsFair, Calm
  <2> QED
    BY <2>3, <2>8, <2>9, <2>10, <2>11, <2>13 DEF SessionsInv
<1> QED
  BY <1>5, <1>6

-----------------------------------------------------------------------------
(* The remaining steps                                                      *)

\* A step that changes at most the ban, the locks and where Players are.
LEMMA OutsideStep ==
    ASSUME SessionsInv, banned' \in BOOLEAN, banned' => banned, locked' \subseteq Characters,
           UNCHANGED <<pending, active, elapsed, loading, depth, deferred, asked, owner,
                       current, closed, login, disconnected, holders, counters,
                       stopped, saved, discarded>>,
           where' \in [Characters -> {"nowhere", "world", "transfer", "stranded"}],
           \A c \in Characters : where'[c] = "nowhere" <=> owner[c] = NoOwner
    PROVE  SessionsInv' /\ StepIsFair
<1>1. \A d \in Characters : (Entries(d)' = Entries(d)) /\ (HasPlayer(d)' <=> HasPlayer(d))
  BY DEF Entries, HasPlayer
<1>2. TypeOK'
  BY DEF SessionsInv, TypeOK
<1>3. Registry' /\ Scopes' /\ HeadlessLoginIsAlone' /\ NoHeadlessWhenBanned'
  BY <1>1 DEF SessionsInv, Registry, Scopes, HeadlessLoginIsAlone, NoHeadlessWhenBanned, Issued
<1>4. Owned'
  BY OwnedStays DEF Live
<1>5. StepIsFair
  BY <1>1 DEF StepIsFair
<1> QED
  BY <1>2, <1>3, <1>4, <1>5 DEF SessionsInv

\* Lifting a ban.
LEMMA UnbanInv ==
    ASSUME SessionsInv, Unban PROVE SessionsInv' /\ StepIsFair
<1>1. /\ banned' = FALSE
      /\ UNCHANGED <<pending, active, elapsed, loading, depth, deferred, asked, owner, where,
                     current, closed, login, disconnected, holders, counters, locked,
                     stopped, saved, discarded>>
  BY DEF Unban, registry, scope, players, network
<1>2. /\ locked' \subseteq Characters
      /\ where' \in [Characters -> {"nowhere", "world", "transfer", "stranded"}]
      /\ \A c \in Characters : where'[c] = "nowhere" <=> owner[c] = NoOwner
  BY <1>1 DEF SessionsInv, TypeOK
<1> QED
  BY <1>1, <1>2, OutsideStep

\* Locking and unlocking a character.
LEMMA ToggleLockInv ==
    ASSUME SessionsInv, NEW c \in Characters, ToggleLock(c) PROVE SessionsInv' /\ StepIsFair
<1>1. /\ locked' = IF c \in locked THEN locked \ {c} ELSE locked \cup {c}
      /\ UNCHANGED <<pending, active, elapsed, loading, depth, deferred, asked, owner, where,
                     current, closed, login, disconnected, holders, counters, banned,
                     stopped, saved, discarded>>
  BY DEF ToggleLock, registry, scope, players, network
<1>2. /\ locked' \subseteq Characters /\ banned \in BOOLEAN
      /\ where' \in [Characters -> {"nowhere", "world", "transfer", "stranded"}]
      /\ \A d \in Characters : where'[d] = "nowhere" <=> owner[d] = NoOwner
  BY <1>1 DEF SessionsInv, TypeOK
<1> QED
  BY <1>1, <1>2, OutsideStep

\* A far transfer moves a Player and gives it to nobody.
LEMMA TransferInv ==
    ASSUME SessionsInv, NEW c \in Characters,
           NEW from \in {"world", "transfer", "stranded"},
           NEW to \in {"world", "transfer", "stranded"}, Transfer(c, from, to)
    PROVE  SessionsInv' /\ StepIsFair
<1>1. /\ where[c] = from /\ where' = [where EXCEPT ![c] = to]
      /\ UNCHANGED <<pending, active, elapsed, loading, depth, deferred, asked, owner,
                     current, closed, login, disconnected, holders, counters, banned, locked,
                     stopped, saved, discarded>>
  BY DEF Transfer, registry, scope, network, account
<1>2. /\ locked' \subseteq Characters /\ banned \in BOOLEAN
      /\ where' \in [Characters -> {"nowhere", "world", "transfer", "stranded"}]
      /\ \A d \in Characters : where'[d] = "nowhere" <=> owner[d] = NoOwner
  BY <1>1 DEF SessionsInv, TypeOK
<1> QED
  BY <1>1, <1>2, OutsideStep

\* A step of somebody else.
LEMMA StutterInv ==
    ASSUME SessionsInv, UNCHANGED vars PROVE SessionsInv' /\ StepIsFair
<1>1. UNCHANGED <<pending, active, elapsed, loading, depth, deferred, asked, owner, where,
                  current, closed, login, disconnected, holders, counters, banned, locked,
                  stopped, saved, discarded>>
  BY DEF vars, registry, scope, players, network, account
<1>2. /\ locked \subseteq Characters /\ banned \in BOOLEAN
      /\ where \in [Characters -> {"nowhere", "world", "transfer", "stranded"}]
      /\ \A d \in Characters : where[d] = "nowhere" <=> owner[d] = NoOwner
  BY DEF SessionsInv, TypeOK
<1> QED
  BY <1>1, <1>2, OutsideStep

\* The manager starts without entries.
LEMMA InitInv ==
    ASSUME Init PROVE SessionsInv
<1> USE DEF Init
<1>1. TypeOK
  <2>1. NoOwner \in OwnerRange
    BY DEF OwnerRange
  <2>2. owner \in [Characters -> OwnerRange]
    BY <2>1
  <2>3. deferred \in [Characters -> [token : 0 .. MaxRequests, save : BOOLEAN]]
    BY BoundAssumption DEF NoStop
  <2>4. login \in [guid : Characters \cup {Nobody}, token : 0 .. MaxLogins, loading : BOOLEAN]
    BY BoundAssumption DEF NoLogin
  <2>5. /\ pending \in [Characters -> 0 .. MaxRequests]
        /\ active \in [Characters -> 0 .. MaxRequests]
        /\ elapsed \in [Characters -> 0 .. Grace - 1]
        /\ where \in [Characters -> {"nowhere", "world", "transfer", "stranded"}]
    BY BoundAssumption, GraceAssumption
  <2>6. \A c \in Characters : where[c] = "nowhere" /\ owner[c] = NoOwner
    OBVIOUS
  <2>7. /\ depth \in 0 .. MaxDepth /\ current \in 0 .. MaxSockets
        /\ counters \in [token : 0 .. MaxRequests, login : 0 .. MaxLogins,
                         socket : 0 .. MaxSockets]
    BY BoundAssumption
  <2> QED
    BY <2>2, <2>3, <2>4, <2>5, <2>6, <2>7 DEF TypeOK, OwnerRange
<1>2. \A c \in Characters : Entries(c) = {}
  BY DEF Entries
<1>3. Registry /\ Scopes
  BY <1>2 DEF Registry, Scopes
<1>4. Owned
  BY OwnersDiffer DEF Owned
<1>5. HeadlessLoginIsAlone /\ NoHeadlessWhenBanned
  BY <1>2 DEF HeadlessLoginIsAlone, NoHeadlessWhenBanned
<1> QED
  BY <1>1, <1>3, <1>4, <1>5 DEF SessionsInv

\* Every step keeps the invariant and is fair to the requests.
LEMMA NextInv ==
    ASSUME SessionsInv, [Next]_vars PROVE SessionsInv' /\ StepIsFair
<1>1. ASSUME NEW c \in Characters, Start(c) \/ StartPrepared(c)
      PROVE  SessionsInv' /\ StepIsFair
  BY <1>1, StartInv, StartPreparedInv
<1>2. ASSUME NEW c \in Characters, NEW save \in BOOLEAN, Stop(c, save)
      PROVE  SessionsInv' /\ StepIsFair
  BY <1>2, StopInv
<1>3. CASE BeginStopDeferral \/ EndStopDeferral
  BY <1>3, BeginStopDeferralInv, EndStopDeferralInv
<1>4. CASE Deliver
  BY <1>4, HandleLoginCallbackInv, HandlePlayerLoginInv DEF Deliver
<1>5. CASE PromotePending \/ BanAccount \/ Unban \/ Shutdown
  BY <1>5, PromotePendingInv, BanAccountInv, UnbanInv, ShutdownInv
<1>6. CASE UpdateAny
  BY <1>6, UpdateInv DEF UpdateAny
<1>7. ASSUME NEW c \in Characters, ToggleLock(c) \/ InstantLogout(c)
      PROVE  SessionsInv' /\ StepIsFair
  BY <1>7, ToggleLockInv, InstantLogoutInv
<1>8. CASE Transfers
  <2>1. PICK c \in Characters : \/ Transfer(c, "world", "transfer")
                                \/ Transfer(c, "transfer", "world")
                                \/ Transfer(c, "transfer", "stranded")
                                \/ Transfer(c, "stranded", "world")
    BY <1>8 DEF Transfers
  <2> QED
    BY <2>1, TransferInv
<1>9. CASE AddSession \/ CloseSocket \/ UpdateClosed \/ NetworkLogout
  BY <1>9, AddSessionInv, CloseSocketInv, UpdateClosedInv, NetworkLogoutInv
<1>10. ASSUME NEW n \in 1 .. MaxSockets, ExpireDisconnected(n)
       PROVE  SessionsInv' /\ StepIsFair
  BY <1>10, ExpireDisconnectedInv
<1>11. ASSUME NEW c \in Characters, HandlePlayerLoginOpcode(c)
       PROVE  SessionsInv' /\ StepIsFair
  BY <1>11, HandlePlayerLoginOpcodeInv
<1>12. CASE UNCHANGED vars
  BY <1>12, StutterInv
<1> QED
  BY <1>1, <1>2, <1>3, <1>4, <1>5, <1>6, <1>7, <1>8, <1>9, <1>10, <1>11, <1>12 DEF Next

-----------------------------------------------------------------------------
(* Theorems                                                                 *)

\* SessionsInv holds in every reachable state: what HeadlessSessionMgr and the
\* login handlers keep between two calls of the world thread.
THEOREM Invariance == Spec => []SessionsInv
<1>1. Init => SessionsInv
  BY InitInv
<1>2. SessionsInv /\ [Next]_vars => SessionsInv'
  BY NextInv
<1> QED
  BY <1>1, <1>2, PTL DEF Spec

\* No order of reclaim, replacement, stop, ban and late holders leaves a Player
\* without a session, or a client with two.
THEOREM PlayersAreOwned == Spec => []EveryPlayerIsOwned
<1>1. SessionsInv => EveryPlayerIsOwned
  <2> SUFFICES ASSUME SessionsInv PROVE EveryPlayerIsOwned
    OBVIOUS
  <2>1. ASSUME NEW n \in 1 .. MaxSockets PROVE Cardinality(PlayedBy(n)) <= 1
    <3>1. CASE PlayedBy(n) = {}
      BY <3>1, FS_EmptySet
    <3>2. CASE PlayedBy(n) # {}
      <4>1. PICK c : c \in PlayedBy(n)
        BY <3>2
      <4>2. PlayedBy(n) = {c}
        BY <4>1 DEF PlayedBy, SessionsInv, Owned
      <4>3. Cardinality({c}) = 1
        BY FS_Singleton
      <4> QED
        BY <4>2, <4>3
    <3> QED
      BY <3>1, <3>2
  <2> QED
    BY <2>1 DEF EveryPlayerIsOwned, SessionsInv, Owned
<1> QED
  BY <1>1, Invariance, PTL

\* While a headless login is on its way nobody plays its character and no client
\* is loading it: ValidateStart and HandlePlayerLoginOpcode exclude each other.
THEOREM LoginsAreAlone == Spec => []HeadlessLoginIsAlone
<1>1. SessionsInv => HeadlessLoginIsAlone
  BY DEF SessionsInv
<1> QED
  BY <1>1, Invariance, PTL

\* A banned account has no headless session, also not one that a holder on its
\* way brings back.
THEOREM BanIsComplete == Spec => []NoHeadlessWhenBanned
<1>1. SessionsInv => NoHeadlessWhenBanned
  BY DEF SessionsInv
<1> QED
  BY <1>1, Invariance, PTL

\* A character whose deletion was asked for is not saved by any later logout.
THEOREM DeletionsHold == Spec => DeletionIsNotSaved
<1>1. SessionsInv /\ [Next]_vars => [(saved' \ saved) \cap discarded' = {}]_vars
  BY NextInv DEF StepIsFair
<1> QED
  BY <1>1, Invariance, PTL DEF Spec, DeletionIsNotSaved

\* EndStopDeferral of the outermost scope removes every request stopped in it.
THEOREM DeferredStopsAreApplied == Spec => DeferredStopsApply
<1>1. SessionsInv /\ [Next]_vars =>
        [depth = 1 /\ depth' = 0 => \A c \in Characters : asked \cap Entries(c)' = {}]_vars
  BY NextInv DEF StepIsFair
<1> QED
  BY <1>1, Invariance, PTL DEF Spec, DeferredStopsApply

\* A request without an entry has none later, and its Player does not come back:
\* a holder finds its own request only.
THEOREM StopsAreFinal == Spec => StoppedStaysStopped
<1>1. SessionsInv /\ [Next]_vars =>
        [\A t \in 1 .. counters.token :
            (\A c \in Characters : t \notin Entries(c)) =>
                \A c \in Characters : t \notin Entries(c)' /\ owner'[c] # Headless(t)]_vars
  <2> SUFFICES ASSUME SessionsInv, [Next]_vars, NEW t \in 1 .. counters.token,
                      \A c \in Characters : t \notin Entries(c), NEW c \in Characters
               PROVE  t \notin Entries(c)' /\ owner'[c] # Headless(t)
    OBVIOUS
  <2>1. SessionsInv' /\ StepIsFair
    BY NextInv
  <2>2. t # NextRequestToken
    BY BoundAssumption DEF NextRequestToken, SessionsInv, TypeOK
  <2>3. t \notin Entries(c)'
    BY <2>1, <2>2 DEF StepIsFair
  <2>4. ASSUME owner'[c] = Headless(t) PROVE FALSE
    <3>1. HasPlayer(c)'
      BY <2>1, <2>4, OwnersDiffer DEF SessionsInv, Owned
    <3>2. active'[c] = t /\ active'[c] # 0
      BY <2>4, <3>1, OwnersDiffer DEF HasPlayer
    <3> QED
      BY <2>3, <3>2 DEF Entries
  <2> QED
    BY <2>3, <2>4
<1> QED
  BY <1>1, Invariance, PTL DEF Spec, StoppedStaysStopped
=============================================================================

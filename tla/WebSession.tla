------------------------------- MODULE WebSession -------------------------------
(***************************************************************************)
(* The dashboard's session (keyspot-sdk/apps/web): the cookie NextAuth     *)
(* keeps for the browser, the session each tab has copied from it, and the *)
(* API data each tab caches.  lib/auth.ts refreshes the access token when  *)
(* the cookie is read; hooks/useApi.ts reads with the tab's copy of the    *)
(* token and invalidates what a mutation has changed.                      *)
(*                                                                         *)
(* NextAuth, React Query and the browser are external.  Of NextAuth: every *)
(* answer to a request for the session or for a page under /dashboard sets *)
(* the cookie; signOut awaits its POST before it leaves the page.  Of      *)
(* React Query 5: what a query starts with, when it is stored, and what an *)
(* invalidation does.  A behaviour follows one query, as queries do not    *)
(* meet: of the key that mutations invalidate or of one they leave alone;  *)
(* no key names the user.  The API server's tokens are only as old as they *)
(* say (Accounts models it).                                               *)
(***************************************************************************)
EXTENDS Naturals, FiniteSets

CONSTANTS
  Users, Tabs, None,
  Readers,       (* the tabs on a page that reads and changes data          *)
  Keys,          (* the keys of queries that are followed                   *)
  AccessLife,    (* ACCESS_TOKEN_EXPIRY of the server, 15 minutes           *)
  EarlyLife,     (* accessTokenExpires, 14 minutes                          *)
  RefreshLife,   (* REFRESH_TOKEN_EXPIRY, 30 days                           *)
  MaxTime,       (* bound on the clock                                      *)
  MaxAsking,     (* bound on requests to the web server at once             *)
  MaxActs        (* bound on sign-ins, sign-outs and mutations              *)

ASSUME WebAssumption ==
  /\ None \notin Users
  /\ IsFiniteSet(Tabs) /\ Readers \subseteq Tabs
  /\ Keys \subseteq {"apiKeys", "quotas"}
  /\ {AccessLife, EarlyLife, RefreshLife, MaxTime, MaxAsking, MaxActs} \subseteq Nat
  /\ 0 < EarlyLife /\ EarlyLife < AccessLife /\ AccessLife <= RefreshLife

Slots == Tabs \X {"session", "page"}

VARIABLES
  now, acts,
  cookie,     (* the browser's token: None or a token                       *)
  signing,    (* the sign-in in progress: None or [token, timed]            *)
  asking,     (* per tab, its requests for the session and for a page       *)
  leaving,    (* the tabs that have signed out and still show their page    *)
  page,       (* per tab, its session: None or [user, token], the token as  *)
              (* it was when it was handed over                             *)
  away,       (* the readers that show another page for the moment          *)
  key,        (* the query's key                                            *)
  data,       (* per tab, the cached answer: None or                        *)
              (* [user, seen, fresh, kept]                                  *)
  query,      (* per tab, the read in progress: None or [user, seen, kept]; *)
              (* kept: an invalidation may have left it alone               *)
  mutation,   (* per tab, the user of a mutation in progress, or None       *)
  server,     (* per user, how often the data on the server has changed     *)
  owner,      (* history: who signed in last and has not signed out         *)
  late,       (* history: the cookie comes of one from before that          *)
  handed,     (* history: readers whose user changed without a page load    *)
  done        (* history: per tab, the last own change that was answered    *)

requesting == <<now, acts, cookie, signing, asking, leaving, page, owner, late, handed>>
caching    == <<away, key, data, query, mutation, server, done>>
browsing   == <<requesting, caching>>

Unloaded == [t \in Tabs |-> None]

WebInit ==
  /\ now = 0 /\ acts = 0
  /\ cookie = None /\ signing = None
  /\ asking = [s \in Slots |-> None] /\ leaving = {} /\ away = {}
  /\ page = Unloaded /\ mutation = Unloaded
  /\ key \in Keys /\ data = Unloaded /\ query = Unloaded
  /\ server = [u \in Users |-> 0]
  /\ owner = None /\ late = FALSE /\ handed = {}
  /\ done = [t \in Tabs |-> 0]

-------------------------------------------------------------------------------
(* What the API issues; accessTokenExpires is not part of it.              *)
Issued(u) ==
  [user |-> u, access |-> now + AccessLife, refresh |-> now + RefreshLife,
   due |-> 0, failed |-> FALSE]

(* The API's answer has been awaited and parsed: 14 minutes from now.      *)
Timed(token) == [token EXCEPT !.due = now + EarlyLife]

Failed(token) == [token EXCEPT !.failed = TRUE]

(* The session callback: the refresh token stays in the cookie.  Answers   *)
(* were slow when the API's, with this one since the cookie was read, have *)
(* taken more than the minute between the two lifetimes.                   *)
Session(answer) ==
  LET token == answer.token
      slow  == token.due + now > token.access + answer.since
  IN  IF token = None THEN None
      ELSE [user |-> token.user,
            token |-> IF token.failed THEN "failed"
                      ELSE IF now < token.access THEN "usable"
                      ELSE IF slow THEN "slow" ELSE "expired"]

(* The tab's SessionProvider takes over a session; its cache stays.        *)
Shows(t, session) ==
  /\ page' = [page EXCEPT ![t] = session]
  /\ handed' = IF t \in Readers /\ page[t] # None
                   /\ (session = None \/ session.user # page[t].user)
                 THEN handed \cup {t} ELSE handed

Act == acts < MaxActs /\ acts' = acts + 1

(* A sign-in or sign-out has reached the cookie; what was asked for with   *)
(* an older one is on its way.                                             *)
Owned(u) ==
  /\ owner' = u
  /\ late' = FALSE
  /\ asking' = [s \in Slots |->
       IF asking[s] = None THEN None ELSE [asking[s] EXCEPT !.late = TRUE]]

(* The login page: authorize posts, the API issues ...                     *)
SignIn(u) ==
  /\ Act
  /\ signing = None
  /\ signing' = [token |-> Issued(u), timed |-> FALSE]
  /\ UNCHANGED <<now, cookie, asking, leaving, page, owner, late, handed, caching>>

(* ... the jwt callback gets the user ...                                  *)
SignInTimed ==
  /\ signing # None /\ ~ signing.timed
  /\ signing' = [token |-> Timed(signing.token), timed |-> TRUE]
  /\ UNCHANGED <<now, acts, cookie, asking, leaving, page, owner, late, handed, caching>>

(* ... and the browser its cookie.  The tab's own session follows by       *)
(* FetchSession.  Registering ends the same way.                           *)
SignedIn ==
  /\ signing # None /\ signing.timed
  /\ cookie' = signing.token
  /\ signing' = None
  /\ Owned(signing.token.user)
  /\ UNCHANGED <<now, acts, leaving, page, handed, caching>>

(* A document is loaded anew: what the tab held and waited for is gone.    *)
Reloaded(t) ==
  /\ page' = [page EXCEPT ![t] = None]
  /\ data' = [data EXCEPT ![t] = None]
  /\ query' = [query EXCEPT ![t] = None]
  /\ mutation' = [mutation EXCEPT ![t] = None]
  /\ asking' = [asking EXCEPT ![<<t, "session">>] = None, ![<<t, "page">>] = None]
  /\ leaving' = leaving \ {t}
  /\ handed' = handed \ {t}
  /\ done' = [done EXCEPT ![t] = 0]

(* A plausible bug: only the page is left.                                 *)
SignOut_PageOnly(t) ==
  /\ Act
  /\ page[t] # None /\ t \notin leaving
  /\ leaving' = leaving \cup {t}
  /\ Owned(None)
  /\ UNCHANGED <<now, cookie, signing, page, handed, caching>>

(* The POST of signOut is answered, and the cookie cleared; the page and   *)
(* its requests are still there ...                                        *)
SignOut(t) ==
  /\ Act
  /\ page[t] # None /\ t \notin leaving
  /\ cookie' = None
  /\ leaving' = leaving \cup {t}
  /\ Owned(None)
  /\ UNCHANGED <<now, signing, page, handed, caching>>

(* ... until the login page has been loaded.                               *)
Left(t) ==
  /\ t \in leaving
  /\ Reloaded(t)
  /\ UNCHANGED <<now, acts, cookie, signing, away, key, server, owner, late>>

(* A tab asks for the session (on mount, on focus, after a sign-in, by     *)
(* update()) or for a page, with the cookie there is.                      *)
Ask(s) ==
  /\ asking[s] = None
  /\ Cardinality({r \in Slots : asking[r] # None}) < MaxAsking
  /\ asking' = [asking EXCEPT ![s] =
       [sent |-> cookie, at |-> "sent", token |-> None, late |-> late, since |-> 0]]
  /\ UNCHANGED <<now, acts, cookie, signing, leaving, page, owner, late, handed, caching>>

(* The web server has its answer.                                          *)
Answer(s, token) ==
  /\ asking' = [asking EXCEPT ![s] =
       [sent |-> None, at |-> "answered", token |-> token, late |-> @.late, since |-> now]]
  /\ UNCHANGED <<now, acts, cookie, signing, leaving, page, owner, late, handed, caching>>

Asked(s, at) == asking[s] # None /\ asking[s].at = at

Due(s) == asking[s].sent # None /\ now >= asking[s].sent.due

(* No cookie, or a token that is not due.                                  *)
Kept(s) ==
  /\ Asked(s, "sent")
  /\ ~ Due(s)
  /\ Answer(s, asking[s].sent)

(* refreshAccessToken: the API accepts the refresh token and issues.       *)
RefreshIssued(s) ==
  /\ Asked(s, "sent") /\ Due(s) /\ now <= asking[s].sent.refresh
  /\ asking' = [asking EXCEPT ![s] =
       [@ EXCEPT !.at = "issued", !.token = Issued(asking[s].sent.user)]]
  /\ UNCHANGED <<now, acts, cookie, signing, leaving, page, owner, late, handed, caching>>

Refreshed(s) ==
  /\ Asked(s, "issued")
  /\ Answer(s, Timed(asking[s].token))

(* The refresh token has expired, or the API or its answer is lost.        *)
RefreshFails(s) ==
  /\ Asked(s, "sent") \/ Asked(s, "issued")
  /\ Due(s)
  /\ Answer(s, Failed(asking[s].sent))

(* The answer sets the cookie, whatever has become of it meanwhile.        *)
CookieSet(answer) ==
  IF answer.token = None THEN UNCHANGED <<cookie, late>>
  ELSE cookie' = answer.token /\ late' = answer.late

SessionArrives(t) ==
  LET s == <<t, "session">>
  IN  /\ Asked(s, "answered")
      /\ CookieSet(asking[s])
      /\ Shows(t, Session(asking[s]))
      /\ asking' = [asking EXCEPT ![s] = None]
      /\ UNCHANGED <<now, acts, signing, leaving, owner, caching>>

(* The client takes a lost answer for no session.                          *)
SessionLost(t) ==
  LET s == <<t, "session">>
  IN  /\ asking[s] # None
      /\ Shows(t, None)
      /\ asking' = [asking EXCEPT ![s] = None]
      /\ UNCHANGED <<now, acts, cookie, signing, leaving, owner, late, caching>>

(* The page, or the login page without a session (middleware.ts): a        *)
(* document, or what the router asks for, which leaves the tab as it is.   *)
PageArrives(t) ==
  LET s == <<t, "page">>
  IN  /\ Asked(s, "answered")
      /\ CookieSet(asking[s])
      /\ \/ Reloaded(t) /\ UNCHANGED <<away, key, server>>
         \/ /\ asking' = [asking EXCEPT ![s] = None]
            /\ UNCHANGED <<leaving, page, handed, caching>>
      /\ UNCHANGED <<now, acts, signing, owner>>

-------------------------------------------------------------------------------
(* A query starts when its page is shown, there is a token and no fresh    *)
(* answer; its user is the tab's.                                          *)
Query(t) ==
  /\ page[t] # None /\ t \notin away /\ query[t] = None
  /\ data[t] # None => ~ data[t].fresh
  /\ query' = [query EXCEPT ![t] =
       [user |-> page[t].user, seen |-> None, kept |-> data[t] = None]]
  /\ UNCHANGED <<requesting, away, key, data, mutation, server, done>>

ServerReads(t) ==
  /\ query[t] # None /\ query[t].seen = None
  /\ query' = [query EXCEPT ![t].seen = server[query[t].user]]
  /\ UNCHANGED <<requesting, away, key, data, mutation, server, done>>

(* The token has expired, or no answer: an error beside the data there was.*)
ReadFails(t) ==
  /\ query[t] # None
  /\ query' = [query EXCEPT ![t] = None]
  /\ UNCHANGED <<requesting, away, key, data, mutation, server, done>>

(* The answer is stored under its key, whoever the tab's user is now.      *)
QueryDone(t) ==
  /\ query[t] # None /\ query[t].seen # None
  /\ data' = [data EXCEPT ![t] =
       [user |-> query[t].user, seen |-> query[t].seen, fresh |-> TRUE, kept |-> query[t].kept]]
  /\ query' = [query EXCEPT ![t] = None]
  /\ UNCHANGED <<requesting, away, key, mutation, server, done>>

(* staleTime has passed.                                                   *)
GoesStale(t) ==
  /\ data[t] # None /\ data[t].fresh
  /\ data' = [data EXCEPT ![t].fresh = FALSE]
  /\ UNCHANGED <<requesting, away, key, query, mutation, server, done>>

(* The router shows another page; a read in progress goes on, and no       *)
(* invalidation cancels what no page shows.                                *)
LeavePage(t) ==
  /\ t \notin away
  /\ away' = away \cup {t}
  /\ query' = [query EXCEPT ![t] = IF @ = None THEN None ELSE [@ EXCEPT !.kept = TRUE]]
  /\ UNCHANGED <<requesting, key, data, mutation, server, done>>

ReturnToPage(t) ==
  /\ t \in away
  /\ away' = away \ {t}
  /\ UNCHANGED <<requesting, key, data, query, mutation, server, done>>

(* A key is created or revoked: the server has done it, its answer is on   *)
(* the way.                                                                *)
Mutate(t) ==
  /\ Act
  /\ page[t] # None /\ t \notin away /\ mutation[t] = None
  /\ server' = [server EXCEPT ![page[t].user] = @ + 1]
  /\ mutation' = [mutation EXCEPT ![t] = page[t].user]
  /\ UNCHANGED <<now, cookie, signing, asking, leaving, page, owner, late, handed,
                 away, key, data, query, done>>

Stale(answer) == IF answer = None THEN None ELSE [answer EXCEPT !.fresh = FALSE]

(* A plausible bug: the data that is shown is marked, a read in progress   *)
(* stays.                                                                  *)
Invalidated_ShownOnly(t) ==
  /\ data' = IF key = "apiKeys" THEN [data EXCEPT ![t] = Stale(@)] ELSE data
  /\ UNCHANGED query

(* onSuccess: invalidateQueries(['apiKeys']).  A read in progress is       *)
(* cancelled for a new one if there is data and a page shows it.           *)
Invalidated(t) ==
  IF key = "apiKeys"
    THEN /\ data' = [data EXCEPT ![t] = Stale(@)]
         /\ query' = IF data[t] # None /\ t \notin away
                       THEN [query EXCEPT ![t] = None] ELSE query
    ELSE UNCHANGED <<data, query>>

MutationDone(t) ==
  /\ mutation[t] # None
  /\ mutation' = [mutation EXCEPT ![t] = None]
  /\ Invalidated(t)
  /\ done' = [done EXCEPT ![t] = server[mutation[t]]]
  /\ UNCHANGED <<requesting, away, key, server>>

(* Its answer is lost: nothing is invalidated.                             *)
MutationFails(t) ==
  /\ mutation[t] # None
  /\ mutation' = [mutation EXCEPT ![t] = None]
  /\ UNCHANGED <<requesting, away, key, data, query, server, done>>

Tick ==
  /\ now < MaxTime
  /\ now' = now + 1
  /\ UNCHANGED <<acts, cookie, signing, asking, leaving, page, owner, late, handed, caching>>

WebNext ==
  \/ Tick \/ SignInTimed \/ SignedIn
  \/ \E u \in Users : SignIn(u)
  \/ \E t \in Tabs :
       SignOut(t) \/ Left(t) \/ SessionArrives(t) \/ SessionLost(t) \/ PageArrives(t)
  \/ \E s \in Slots :
       Ask(s) \/ Kept(s) \/ RefreshIssued(s) \/ Refreshed(s) \/ RefreshFails(s)
  \/ \E t \in Readers :
       \/ Query(t) \/ ServerReads(t) \/ ReadFails(t) \/ QueryDone(t) \/ GoesStale(t)
       \/ LeavePage(t) \/ ReturnToPage(t)
       \/ Mutate(t) \/ MutationDone(t) \/ MutationFails(t)

WebSpec == WebInit /\ [][WebNext]_browsing

-------------------------------------------------------------------------------
(* A session without an error carried, when it was handed to the page, a   *)
(* token the API accepts, however many tabs refresh, fail and overwrite    *)
(* each other's cookie, unless the answers it went through took more than  *)
(* the minute that accessTokenExpires leaves.                              *)
HandedTokensWork ==
  \A t \in Tabs : page[t] # None => page[t].token # "expired"

(* The cookie is that of the last sign-in, and none after a sign-out,      *)
(* unless it comes of a cookie sent before it and answered after it.       *)
CookieIsOwners ==
  ~ late /\ cookie # None => cookie.user = owner

(* The session that a page is handed works, and is of who signed in.       *)
SessionSound == HandedTokensWork /\ CookieIsOwners

(* A tab shows its user only the user's own data, unless the tab's user    *)
(* changed without a page load (the query keys do not name the user).      *)
OwnData ==
  \A t \in Readers \ handed :
    page[t] # None /\ data[t] # None => data[t].user = page[t].user

(* Once a mutation is answered, no keys that count as fresh are older than *)
(* it: a read that overtook the mutation is not stored after it, if there  *)
(* were keys to show and their page was not left meanwhile.                *)
ReadsOwnWrites ==
  key = "apiKeys" => \A t \in Readers \ handed :
    data[t] # None /\ data[t].fresh /\ ~ data[t].kept /\ mutation[t] = None =>
      data[t].seen >= done[t]

(* A tab shows the data of its user, and no older than the user's changes. *)
TabShowsOwn == OwnData /\ ReadsOwnWrites

===============================================================================

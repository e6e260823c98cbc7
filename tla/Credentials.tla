---------------------------- MODULE Credentials ----------------------------
(***************************************************************************)
(* fx-auth's file store of provider credentials, shared by the processes   *)
(* of a user, the two providers of fx-provider that log in, refresh and    *)
(* list models with it, and the registry of one process.                   *)
(*                                                                         *)
(* A worker is a blocking thread in one authenticate, logout_all, gateway  *)
(* or refresh_models.  A token is a number.  Time is the set of access     *)
(* tokens within REFRESH_SKEW_MS of their expiry.  The authorization       *)
(* server takes a refresh token once, or leaves it as it is.               *)
(***************************************************************************)
EXTENDS Naturals, FiniteSets

CONSTANTS
  Workers,
  Here,       \* the workers of the process whose registry is modelled
  Catalogs,   \* the sets of models the catalog service may list
  Default,    \* DEFAULT_MODEL of the provider with a live catalog
  BuiltIn,    \* its models before a refresh
  MaxUses,    \* bound: operations
  MaxTokens,  \* bound: tokens issued
  MaxLosses   \* bound: answers lost, writes failed, processes killed

Providers == {"codex", "vercel"}

VARIABLES
  file,      \* <provider>.json, replaced as a whole
  holder,    \* <provider>.lock
  worker,
  live,      \* the refresh tokens the authorization server takes
  stale,     \* the access tokens that have to be refreshed
  next,      \* the next token
  listed,    \* ProviderRegistry.models of the provider "vercel"
  accepted,  \* VercelProvider.accepted_model_ids
  rejected,  \* history: a refresh token was refused by the server
  uses, losses

credentialVars == <<file, holder, worker, live, stale, next, listed, accepted, rejected, uses, losses>>
registry == <<listed, accepted>>
server == <<live, stale, next, rejected>>
bounds == <<uses, losses>>

Nobody == "nobody"
None == [access |-> 0, refresh |-> 0]
Idle == [op |-> "none", at |-> "idle", on |-> "codex", cred |-> None, catalog |-> {}]

At(w, at) == worker' = [worker EXCEPT ![w].at = at]
Ended(w) == worker' = [worker EXCEPT ![w] = Idle]
Release(w) == holder' = [holder EXCEPT ![worker[w].on] = Nobody]
Fault == losses < MaxLosses /\ losses' = losses + 1 /\ UNCHANGED uses

\* What the constants are: the built-in models have the default, and there are the
\* two tokens of the beginning.
ASSUME CredentialsAssumption ==
  /\ Default \in BuiltIn /\ Nobody \notin Workers
  /\ MaxTokens \in Nat \ {0, 1} /\ MaxUses \in Nat /\ MaxLosses \in Nat

-----------------------------------------------------------------------------
(* FileCredentialStore.                                                    *)

\* ProviderRegistry::authenticate, logout_all, gateway and refresh_models.
Begin(w, op, p) ==
  /\ uses < MaxUses /\ uses' = uses + 1
  /\ worker[w].at = "idle"
  /\ worker' = [worker EXCEPT ![w] = [Idle EXCEPT
                  !.op = op, !.on = p, !.at = IF op = "login" THEN "login" ELSE "lock"]]
  /\ UNCHANGED <<file, holder, server, registry, losses>>

\* read_credential: with the whole file or none.
Read(p) == file[p]

\* acquire: the lock, then the file is read.
Acquire(w) ==
  LET p == worker[w].on
  IN  /\ worker[w].at = "lock" /\ holder[p] = Nobody
      /\ holder' = [holder EXCEPT ![p] = w]
      /\ worker' = [worker EXCEPT ![w].at = "held",
                      ![w].cred = IF worker[w].op = "login" THEN @ ELSE Read(p)]
      /\ UNCHANGED <<file, server, registry, bounds>>

\* logout_all goes on with the next provider after a failure; everything else ends.
Failed(w) ==
  IF worker[w].op = "logout" /\ worker[w].on = "codex"
  THEN worker' = [worker EXCEPT ![w].at = "lock", ![w].on = "vercel"]
  ELSE Ended(w)

\* Mutant: after the timeout the lease is taken all the same.
LockTimeoutHeld(w) ==
  /\ worker[w].at = "lock" /\ holder[worker[w].on] # Nobody
  /\ worker' = [worker EXCEPT ![w].at = "held", ![w].cred = Read(worker[w].on)]
  /\ UNCHANGED <<file, holder, server, registry, bounds>>
LockTimeout(w) ==
  /\ worker[w].at = "lock" /\ holder[worker[w].on] # Nobody
  /\ Failed(w)
  /\ UNCHANGED <<file, holder, server, registry, bounds>>

Replace(w) == file' = [file EXCEPT ![worker[w].on] = worker[w].cred]

\* FileCredentialLease::delete, and the lease is dropped.
Logout(w) ==
  /\ worker[w].op = "logout" /\ worker[w].at = "held"
  /\ file' = [file EXCEPT ![worker[w].on] = None]
  /\ Release(w) /\ Failed(w)
  /\ UNCHANGED <<server, registry, bounds>>

\* A lease ends in an error of the file system, and changes nothing.
StoreFails(w) ==
  /\ worker[w].at = "held" /\ worker[w].op \in {"login", "logout"}
  /\ Fault
  /\ Release(w) /\ Failed(w)
  /\ UNCHANGED <<file, server, registry>>

-----------------------------------------------------------------------------
(* Logging in: nothing is locked while the user is in the browser.         *)

Issue(w) ==
  /\ next <= MaxTokens /\ next' = next + 1
  /\ live' = live \cup {next}
  /\ worker' = [worker EXCEPT ![w].at = "lock",
                              ![w].cred = [access |-> next, refresh |-> next]]
  /\ UNCHANGED <<file, holder, stale, registry, rejected, bounds>>

\* Codex: the first request to the callback's path decides (others are answered 404).
BrowserLogin(w) ==
  /\ worker[w].at = "login" /\ worker[w].on = "codex"
  /\ Issue(w)

\* Vercel: polled while authorization_pending or slow_down, then a team is selected.
DeviceLogin(w) ==
  /\ worker[w].at = "login" /\ worker[w].on = "vercel"
  /\ Issue(w)

LoginFails(w, p) ==
  /\ worker[w].at = "login" /\ worker[w].on = p
  /\ Ended(w)
  /\ UNCHANGED <<file, holder, server, registry, bounds>>

\* A callback with an error or the wrong state, none before AUTH_TIMEOUT, no exchange.
CallbackFails(w) == LoginFails(w, "codex")

\* Denied, expired, no answer in time, or the configured team is not the account's.
DeviceFails(w) == LoginFails(w, "vercel")

\* authenticate saves, and then the registry refreshes the provider's catalog.
SaveLogin(w) ==
  /\ worker[w].op = "login" /\ worker[w].at = "held"
  /\ Replace(w) /\ Release(w)
  /\ worker' = [worker EXCEPT ![w] = IF w \in Here /\ @.on = "vercel"
                  THEN [Idle EXCEPT !.op = "refresh", !.on = "vercel", !.at = "lock"]
                  ELSE Idle]
  /\ UNCHANGED <<server, registry, bounds>>

-----------------------------------------------------------------------------
(* resolve_auth, for a gateway or for a catalog.                           *)

\* Mutant: the lease is dropped before the refresh.
ResolveUnlocked(w) ==
  LET cred == worker[w].cred
  IN  /\ worker[w].op \in {"gateway", "refresh"} /\ worker[w].at = "held"
      /\ Release(w)
      /\ IF cred # None /\ cred.access \in stale THEN At(w, "expired")
         ELSE IF worker[w].op = "gateway" THEN Ended(w) ELSE At(w, "authed")
      /\ UNCHANGED <<file, server, registry, bounds>>

\* No credential, one that is good, or one to refresh, for which the lease is kept.
Resolve(w) ==
  LET cred == worker[w].cred
  IN  /\ worker[w].op \in {"gateway", "refresh"} /\ worker[w].at = "held"
      /\ IF cred # None /\ cred.access \in stale
         THEN At(w, "expired") /\ UNCHANGED holder
         ELSE /\ Release(w)
              /\ IF cred = None /\ worker[w].on = "codex" THEN At(w, "ambient")
                 ELSE IF cred = None \/ worker[w].op = "gateway" THEN Ended(w)
                 ELSE At(w, "authed")
      /\ UNCHANGED <<file, server, registry, bounds>>

\* Codex: the login of the codex program is read, and never written.
Ambient(w) ==
  /\ worker[w].at = "ambient"
  /\ Ended(w)
  /\ UNCHANGED <<file, holder, server, registry, bounds>>

\* An answer without a refresh token leaves the previous one in use.
RefreshTokens(old) == {old, next}

\* The server answers with new tokens; it may keep the refresh token.
Refreshed(w) ==
  LET old == worker[w].cred.refresh
  IN  /\ worker[w].at = "expired" /\ old \in live
      /\ next <= MaxTokens /\ next' = next + 1
      /\ \E refresh \in RefreshTokens(old) :
           /\ live' = (live \ {old}) \cup {refresh}
           /\ worker' = [worker EXCEPT ![w].at = "answered",
                                       ![w].cred = [access |-> next, refresh |-> refresh]]
      /\ UNCHANGED <<file, holder, stale, registry, rejected, bounds>>

\* The server does not know the token, or is not reached.
RefreshFails(w) ==
  /\ worker[w].at = "expired"
  /\ rejected' = (rejected \/ worker[w].cred.refresh \notin live)
  /\ Release(w) /\ Ended(w)
  /\ UNCHANGED <<file, live, stale, next, registry, bounds>>

\* Mutant: the new tokens are used and not saved.
SaveRefreshedNot(w) ==
  /\ worker[w].at = "answered"
  /\ Release(w)
  /\ IF worker[w].op = "gateway" THEN Ended(w) ELSE At(w, "authed")
  /\ UNCHANGED <<file, server, registry, bounds>>
SaveRefreshed(w) ==
  /\ worker[w].at = "answered"
  /\ Replace(w) /\ Release(w)
  /\ IF worker[w].op = "gateway" THEN Ended(w) ELSE At(w, "authed")
  /\ UNCHANGED <<server, registry, bounds>>

\* The new tokens are lost: the answer has no account, or the write fails.
RefreshedLost(w) ==
  /\ worker[w].at = "answered"
  /\ Fault
  /\ Release(w) /\ Ended(w)
  /\ UNCHANGED <<file, server, registry>>

-----------------------------------------------------------------------------
(* refresh_models and the registry.                                        *)

\* What is left of an answer has to hold the default model.
Usable(models) == Default \in models

\* The catalog of the team or, when that is refused, the public one.
Fetched(w, models) ==
  /\ worker[w].at = "authed"
  /\ IF Usable(models)
     THEN worker' = [worker EXCEPT ![w].at = "fetched", ![w].catalog = models]
     ELSE Ended(w)
  /\ UNCHANGED <<file, holder, server, registry, bounds>>

\* Mutant: the accepted models are replaced.
AcceptOnly(w) ==
  /\ worker[w].at = "fetched"
  /\ accepted' = worker[w].catalog
  /\ At(w, "accepted")
  /\ UNCHANGED <<file, holder, server, listed, bounds>>
Accept(w) ==
  /\ worker[w].at = "fetched"
  /\ accepted' = accepted \cup worker[w].catalog
  /\ At(w, "accepted")
  /\ UNCHANGED <<file, holder, server, listed, bounds>>

\* replace_provider_models.
List(w) ==
  /\ worker[w].at = "accepted"
  /\ listed' = IF Default \in worker[w].catalog THEN worker[w].catalog ELSE listed
  /\ Ended(w)
  /\ UNCHANGED <<file, holder, server, accepted, bounds>>

-----------------------------------------------------------------------------
Expire(p) ==
  /\ file[p] # None /\ file[p].access \notin stale
  /\ stale' = stale \cup {file[p].access}
  /\ UNCHANGED <<file, holder, worker, live, next, registry, rejected, bounds>>

\* Another process dies; its lock goes with it.
Killed(w) ==
  /\ w \notin Here /\ worker[w].at # "idle"
  /\ Fault
  /\ holder' = [p \in Providers |-> IF holder[p] = w THEN Nobody ELSE holder[p]]
  /\ Ended(w)
  /\ UNCHANGED <<file, server, registry>>

\* register: the models known without a network, the default among them.
Registered == BuiltIn

CredentialsInit ==
  /\ file = [p \in Providers |-> IF p = "codex" THEN [access |-> 1, refresh |-> 1]
                                 ELSE [access |-> 2, refresh |-> 2]]
  /\ holder = [p \in Providers |-> Nobody]
  /\ worker = [w \in Workers |-> Idle]
  /\ live = {1, 2} /\ stale = {} /\ next = 3 /\ rejected = FALSE
  /\ listed = Registered /\ accepted = Registered
  /\ uses = 0 /\ losses = 0

\* What a worker does on its own; the rest is the user's, the network's or a fault.
Step(w) ==
  \/ Acquire(w) \/ LockTimeout(w) \/ Logout(w) \/ BrowserLogin(w) \/ DeviceLogin(w)
  \/ CallbackFails(w) \/ DeviceFails(w) \/ SaveLogin(w) \/ Resolve(w) \/ Ambient(w) \/ Refreshed(w) \/ RefreshFails(w)
  \/ SaveRefreshed(w) \/ (\E models \in Catalogs : Fetched(w, models)) \/ Accept(w) \/ List(w)

CredentialsNext ==
  \/ \E w \in Workers :
       \/ \E p \in Providers : Begin(w, "gateway", p) \/ Begin(w, "login", p)
       \/ Begin(w, "logout", "codex")
       \/ w \in Here /\ Begin(w, "refresh", "vercel")
       \/ Step(w) \/ StoreFails(w) \/ RefreshedLost(w) \/ Killed(w)
  \/ \E p \in Providers : Expire(p)

CredentialsSpec == CredentialsInit /\ [][CredentialsNext]_credentialVars

-----------------------------------------------------------------------------
Token == 0 .. MaxTokens + 1
Credential == [access : Token, refresh : Token]

\* The types of the store, the workers and the registry; a lease is held by its worker.
CredentialsTypeOK ==
  /\ file \in [Providers -> Credential]
  /\ \A w \in Workers :
       /\ worker[w].at \in {"idle", "lock", "held", "login", "ambient", "expired", "answered",
                            "authed", "fetched", "accepted"}
       /\ worker[w].on \in Providers /\ worker[w].cred \in Credential
       /\ worker[w].at \in {"held", "expired", "answered"} => holder[worker[w].on] = w
  /\ holder \in [Providers -> Workers \cup {Nobody}]
  /\ live \subseteq Token /\ stale \subseteq Token /\ next \in Token
  /\ uses \in 0 .. MaxUses /\ losses \in 0 .. MaxLosses

\* The saved refresh token is one the server takes, or its successor is with the worker
\* that holds the lease: two processes never spend the same token, whoever logs in, logs
\* out or refreshes meanwhile.  Only a lost answer can leave a spent token in the file.
SavedTokenIsLive ==
  losses = 0 =>
    /\ ~rejected
    /\ \A p \in Providers :
         \/ file[p] = None \/ file[p].refresh \in live
         \/ \E w \in Workers : holder[p] = w /\ worker[w].at = "answered"

\* A refresh replaces the credential it read and nothing else: it brings no credential
\* back that a logout deleted, and overwrites no later login.
RefreshReplacesItsOwn ==
  [][\A w \in Workers :
       worker[w].at = "answered" /\ file'[worker[w].on] # file[worker[w].on]
         /\ file'[worker[w].on] = worker[w].cred
         => file[worker[w].on] # None /\ file[worker[w].on].access \in stale]_credentialVars

\* A model the registry lists can be used: its provider accepts it, through refreshes
\* that overtake each other; and the default model stays listed.
ListedIsAccepted == listed \subseteq accepted /\ Default \in listed
=============================================================================

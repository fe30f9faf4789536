------------------------ MODULE ConfigurationServer ------------------------
(***************************************************************************)
(* What the secure process lets administrators, browsers and calling       *)
(* agents do with its ConfigurationStore: the routes of config/            *)
(* auth_routes.ts and config/routes.ts, and the token endpoint and the     *)
(* authentication of oauth/.  Passwords, signatures, cross-site tokens and *)
(* the encryption of the document are taken to do their work: only a       *)
(* request that passes those checks changes anything.                      *)
(*                                                                         *)
(* Registration, login and the token endpoint wait (for scrypt, for a key  *)
(* import and a signature check) between looking at the document and       *)
(* changing it; every change itself, write included, is one synchronous    *)
(* piece of code.  The process may die at any moment and start again from  *)
(* the file, and writes may fail.                                          *)
(***************************************************************************)
EXTENDS ConfigurationStore, RequestLimiter

CONSTANTS
    Assertions,     \* client assertions: [client, jti, iat, exp]
    Tolerance,      \* clockTolerance of jwtVerify; 5 s
    MaxTokenAge,    \* maxTokenAge of jwtVerify; 300 s
    SessionLife,    \* CONFIGURATION_SESSION_SECONDS; 12 h
    Bounds          \* how often at most: [ticks, requests, failures, restarts]

ASSUME ServerAssumption ==
    /\ \A a \in Assertions : a.client \in Clients /\ a.iat \in Nat /\ a.exp \in Nat
    /\ {Tolerance, MaxTokenAge, SessionLife} \subseteq Nat
    /\ Bounds \in [{"ticks", "requests", "failures", "restarts"} -> Nat]

VARIABLES
    now,            \* the clock
    registering,    \* administrators whose password is being hashed
    loggingIn,      \* logins whose password is being hashed
    issuing,        \* per assertion, token requests that check it
    table,          \* the RequestLimiter of the token endpoint
    diskWorks,      \* whether writes succeed
    left,           \* what is left of Bounds
    (* What the callers were told.                                         *)
    registered,     \* administrators a registration or login answered for
    logins,         \* sessions made, in order: [token, expiresAt]
    handed,         \* sessions a browser was given
    leaving,        \* sessions a logout was asked for
    loggedOut,      \* sessions a logout was confirmed for
    removed,        \* clients whose deletion was confirmed
    accepted,       \* per assertion, how often it was accepted
    served          \* per client, times of its token requests not limited

waits == <<registering, loggingIn, issuing>>
sessionsTold == <<logins, handed, leaving, loggedOut>>
told == <<registered, sessionsTold, removed, accepted>>
limits == <<table, served>>
clock == <<now, diskWorks>>
vars == <<storeVars, waits, told, clock, limits, left>>

KeyOfAssertion(a) == <<a.client, a.jti>>

ServerTypeOK ==
    /\ DocumentOK(memory, { KeyOfAssertion(a) : a \in Assertions })
    /\ DocumentOK(disk, { KeyOfAssertion(a) : a \in Assertions })
    /\ registering \subseteq Administrators
    /\ loggingIn \in 0..Bounds.requests
    /\ issuing \in [Assertions -> 0..Bounds.requests]
    /\ DOMAIN table = Clients /\ Cardinality(KeysOf(table)) <= MaxKeys
    /\ handed \subseteq Sessions /\ loggedOut \subseteq leaving

Init ==
    /\ StoreInit
    /\ now = 0 /\ diskWorks = TRUE
    /\ registering = {} /\ loggingIn = 0
    /\ issuing = [a \in Assertions |-> 0]
    /\ table = [c \in Clients |-> <<>>]
    /\ left = Bounds
    /\ registered = {} /\ logins = <<>> /\ handed = {}
    /\ leaving = {} /\ loggedOut = {} /\ removed = {}
    /\ accepted = [a \in Assertions |-> 0]
    /\ served = [c \in Clients |-> <<>>]

-----------------------------------------------------------------------------
NoAdministratorYet == memory.administrator = NoAdministrator

Spend(what) == left[what] > 0 /\ left' = [left EXCEPT ![what] = @ - 1]
Asked == Spend("requests")

(* A write of the document to d, by the state of the disk.                 *)
Stored(d) == IF diskWorks THEN Written(d) ELSE WriteFails(d)

NewSession(token) == [token |-> token, expiresAt |-> now + SessionLife]
NeverUsed(token) == \A i \in DOMAIN logins : logins[i].token # token

(* POST /config/auth/register, up to the hash of the password.             *)
Register(a) ==
    /\ Asked
    /\ NoAdministratorYet
    /\ a \notin registering
    /\ registering' = registering \cup {a}
    /\ UNCHANGED <<storeVars, loggingIn, issuing, told, clock, limits>>

(* The registration goes on: setAdministrator() looks again, answers 409   *)
(* when another one was first, and the new administrator gets a session.   *)
RegistrationTooLate(a) ==
    /\ a \in registering
    /\ ~NoAdministratorYet
    /\ registering' = registering \ {a}
    /\ UNCHANGED <<storeVars, loggingIn, issuing, told, clock, limits, left>>

(* Wrong variant: setAdministrator() does not look again.                  *)
FinishRegisterBlind(a, token) ==
    /\ a \in registering
    /\ NeverUsed(token)
    /\ registering' = registering \ {a}
    /\ diskWorks
    /\ Written(WithSession(WithAdministrator(memory, a), token, now + SessionLife, now))
    /\ registered' = registered \cup {a}
    /\ logins' = Append(logins, NewSession(token))
    /\ handed' = handed \cup {token}
    /\ UNCHANGED <<loggingIn, issuing, leaving, loggedOut, removed, accepted,
                   clock, limits, left>>

(* The first registration that comes so far, in both writes' cases.        *)
FinishRegister(a, token) ==
    LET d1 == WithAdministrator(memory, a)
        d2 == WithSession(d1, token, now + SessionLife, now)
    IN
    /\ a \in registering
    /\ NoAdministratorYet
    /\ NeverUsed(token)
    /\ registering' = registering \ {a}
    /\ \/ ~diskWorks /\ WriteFails(d1) /\ UNCHANGED <<registered, logins, handed>>
       \/ /\ ~diskWorks
          /\ memory' = d2 /\ disk' \in {d1, d2}
          /\ logins' = Append(logins, NewSession(token))
          /\ UNCHANGED <<registered, handed>>
       \/ /\ diskWorks
          /\ Written(d2)
          /\ registered' = registered \cup {a}
          /\ logins' = Append(logins, NewSession(token))
          /\ handed' = handed \cup {token}
    /\ UNCHANGED <<loggingIn, issuing, leaving, loggedOut, removed, accepted,
                   clock, limits, left>>

(* POST /config/auth/session with the right name and password: the         *)
(* credentials are read, the password is hashed, a session is added.       *)
(* Credentials in memory never change in a process, so those that were     *)
(* read are still the ones there.                                          *)
Login ==
    /\ ~NoAdministratorYet
    /\ Asked
    /\ loggingIn' = loggingIn + 1
    /\ UNCHANGED <<storeVars, registering, issuing, told, clock, limits>>

FinishLogin(token) ==
    LET d == WithSession(memory, token, now + SessionLife, now) IN
    /\ loggingIn > 0
    /\ NeverUsed(token)
    /\ loggingIn' = loggingIn - 1
    /\ logins' = Append(logins, NewSession(token))
    /\ Stored(d)
    /\ IF diskWorks
       THEN /\ registered' = registered \cup {memory.administrator}
            /\ handed' = handed \cup {token}
       ELSE UNCHANGED <<registered, handed>>
    /\ UNCHANGED <<registering, issuing, leaving, loggedOut, removed, accepted,
                   clock, limits, left>>

(* configurationPrincipal(): a session is let in.                          *)
SessionAccepted(token) == ~NoAdministratorYet /\ HasSession(memory, token, now)

(* Wrong variant: the file keeps the session until the next write.         *)
LogoutInMemory(token) ==
    /\ token \in handed
    /\ SessionAccepted(token)
    /\ leaving' = leaving \cup {token}
    /\ diskWorks /\ WrittenLater(WithoutSession(memory, token))
    /\ loggedOut' = loggedOut \cup {token}
    /\ UNCHANGED <<waits, registered, logins, handed, removed, accepted,
                   clock, limits, left>>

(* DELETE /config/auth/session.                                            *)
Logout(token) ==
    LET d == WithoutSession(memory, token) IN
    /\ token \in handed
    /\ SessionAccepted(token)
    /\ leaving' = leaving \cup {token}
    /\ Stored(d)
    /\ loggedOut' = IF diskWorks THEN loggedOut \cup {token} ELSE loggedOut
    /\ UNCHANGED <<waits, registered, logins, handed, removed, accepted,
                   clock, limits, left>>

-----------------------------------------------------------------------------
(* PUT /config/provider, with a key, without one, or with one of blanks.   *)
(* The last two need a stored key of the same provider; without one that   *)
(* is kept, but one of blanks takes its place.                             *)
SetProvider(p, key) ==
    /\ Asked
    /\ ~NoAdministratorYet
    /\ ProviderReadable(memory)
    /\ key # "given" => HasKeyOf(memory, p)
    /\ Stored(WithProvider(memory, [settings |-> p, blankKey |-> key = "blank"]))
    /\ UNCHANGED <<waits, told, clock, limits>>

(* DELETE /config/provider.                                                *)
DeleteProvider ==
    /\ Asked
    /\ memory.provider # NoProvider
    /\ Stored(WithoutProvider(memory))
    /\ UNCHANGED <<waits, told, clock, limits>>

(* POST /config/clients, after normalizePublicKey().  A failed write is    *)
(* answered like a bad key, and the client stays in memory.                *)
AddClient(c) ==
    /\ c \notin removed /\ c \notin memory.clients \cup disk.clients
    /\ Asked
    /\ Stored(WithClient(memory, c))
    /\ UNCHANGED <<waits, told, clock, limits>>

(* DELETE /config/clients/:clientId of a client that is there.             *)
DeleteClient(c) ==
    LET d == WithoutClient(memory, c) IN
    /\ HasClient(memory, c)
    /\ Asked
    /\ Stored(d)
    /\ removed' = IF diskWorks THEN removed \cup {c} ELSE removed
    /\ UNCHANGED <<waits, registered, sessionsTold, accepted, clock, limits>>

-----------------------------------------------------------------------------
(* issue() of a well-formed request, up to the lookup of the client.       *)
Checked(a) ==
    issuing' = IF HasClient(memory, a.client) THEN [issuing EXCEPT ![a] = @ + 1] ELSE issuing

(* POST /a2a/oauth/token: the limiter, then issue().                       *)
RequestToken(a) ==
    /\ Asked
    /\ table' = Consume(table, a.client, now)
    /\ IF Admits(table, a.client, now)
       THEN /\ served' = [served EXCEPT ![a.client] = Append(@, now)]
            /\ Checked(a)
       ELSE UNCHANGED <<served, issuing>>
    /\ UNCHANGED <<storeVars, registering, loggingIn, told, clock>>

(* jwtVerify() and the checks of issue(), all of one moment.               *)
Timely(a) ==
    /\ a.exp > now - Tolerance
    /\ a.iat <= now + Tolerance
    /\ now - a.iat <= MaxTokenAge + Tolerance

(* Wrong variant: the digest is kept until the assertion expires, but an   *)
(* assertion is accepted for the tolerance longer.                         *)
StoredUntilExpiry(a) == a.exp

StoredUntil(a) == a.exp + Tolerance

(* The rest of issue(): a timely assertion is accepted when its digest     *)
(* can be stored.  The token is handed out when the write was successful.  *)
FinishToken(a) ==
    LET key == KeyOfAssertion(a)
        d == WithAssertion(memory, key, StoredUntil(a), now)
    IN
    /\ issuing[a] > 0
    /\ issuing' = [issuing EXCEPT ![a] = @ - 1]
    /\ \/ /\ Timely(a) /\ Unused(memory, key, now)
          /\ Stored(d)
          /\ accepted' = IF diskWorks THEN [accepted EXCEPT ![a] = @ + 1] ELSE accepted
       \/ /\ ~(Timely(a) /\ Unused(memory, key, now))
          /\ UNCHANGED <<storeVars, accepted>>
    /\ UNCHANGED <<registering, loggingIn, registered, sessionsTold, removed, clock, limits, left>>

(* authenticate(): a token that is genuine and not too old is admitted     *)
(* when its client is still there.                                         *)
TokenAdmitted(c) == HasClient(memory, c)

-----------------------------------------------------------------------------
Tick ==
    /\ Spend("ticks")
    /\ now' = now + 1
    /\ UNCHANGED <<storeVars, waits, told, limits, diskWorks>>

(* The volume fills up, or is emptied.                                     *)
DiskFails ==
    /\ diskWorks /\ Spend("failures")
    /\ diskWorks' = FALSE
    /\ UNCHANGED <<storeVars, waits, told, limits, now>>

DiskRecovers ==
    /\ ~diskWorks
    /\ diskWorks' = TRUE
    /\ UNCHANGED <<storeVars, waits, told, limits, now, left>>

(* The process ends, by a signal or a crash, and starts again.             *)
Restart ==
    /\ Spend("restarts")
    /\ Reload
    /\ registering' = {} /\ loggingIn' = 0
    /\ issuing' = [a \in Assertions |-> 0]
    /\ table' = [c \in Clients |-> <<>>]
    /\ served' = [c \in Clients |-> <<>>]
    /\ UNCHANGED <<told, clock>>

Next ==
    \/ \E a \in Administrators :
          \/ Register(a)
          \/ RegistrationTooLate(a)
          \/ \E t \in Sessions : FinishRegister(a, t)
    \/ Login
    \/ \E t \in Sessions : FinishLogin(t) \/ Logout(t)
    \/ \E p \in Providers, key \in {"given", "none", "blank"} : SetProvider(p, key)
    \/ DeleteProvider
    \/ \E c \in Clients : AddClient(c) \/ DeleteClient(c)
    \/ \E a \in Assertions : RequestToken(a) \/ FinishToken(a)
    \/ Tick \/ DiskFails \/ DiskRecovers \/ Restart

Spec == Init /\ [][Next]_vars

-----------------------------------------------------------------------------
(* No assertion buys two tokens, whatever is restarted, fails or is asked  *)
(* at the same time (docs/USAGE.md:303).                                   *)
AcceptedOnce == \A a \in Assertions : accepted[a] <= 1

(* Two visitors may register at once, and a write may fail: never are two  *)
(* different administrators told that they are registered, and the one who *)
(* was told is the one a restart reads (docs/USAGE.md:72).                 *)
OneAdministrator ==
    /\ ServerTypeOK
    /\ Cardinality(registered) <= 1
    /\ \A a \in registered : memory.administrator = a /\ disk.administrator = a

(* After the logout of a session or the deletion of a client was confirmed *)
(* it is never let in again, not even after a restart.                     *)
RevokedStaysOut ==
    /\ \A t \in loggedOut : ~SessionAccepted(t) /\ ~HasSession(disk, t, now)
    /\ \A c \in removed : ~TokenAdmitted(c) /\ c \notin disk.clients

(* A session that a browser was given is let in until it expires, logs out *)
(* or is pushed out by MaxSessions newer ones.                             *)
SessionsKept ==
    \A i \in DOMAIN logins :
        LET t == logins[i].token IN
        (t \in handed \ leaving /\ now < logins[i].expiresAt
         /\ Len(logins) - i < MaxSessions) => SessionAccepted(t)

(* Of the requests of a client that one process did not limit, at most     *)
(* Limit are in any window, though keys are dropped from a full table.     *)
WindowKept ==
    \A c \in Clients : \A i, j \in DOMAIN served[c] :
        (i <= j /\ served[c][j] - served[c][i] < Window) => j - i < Limit
=============================================================================

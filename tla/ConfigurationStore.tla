------------------------- MODULE ConfigurationStore -------------------------
(***************************************************************************)
(* ConfigurationStore (config/store.ts): one document, held in memory and  *)
(* kept in secure-config.json.  Every operation changes the document in    *)
(* memory and then writes the whole of it: to a temporary file, by a       *)
(* rename, then a chmod.  A write that throws therefore leaves the memory  *)
(* changed and the file either old or, when only the chmod fails, new.     *)
(* The file is read once, by the constructor.                              *)
(***************************************************************************)
EXTENDS Integers, Sequences, FiniteSets, Filters

CONSTANTS
    Administrators,   \* credentials a registration may choose
    Sessions,         \* tokens of browser sessions, each used once
    Providers,        \* provider settings: [name, model]
    Clients,          \* client ids, each used once
    MaxSessions,      \* sessions kept; 8 in the code
    MaxAssertions     \* digests of assertions kept; 10,000 in the code

CONSTANTS NoAdministrator, NoProvider   \* the absent optional fields

(* The provider of a document, and whether its key is but blanks.           *)
StoredProviders == [settings : Providers, blankKey : BOOLEAN]

ASSUME StoreAssumption ==
    /\ MaxSessions \in Nat \ {0}
    /\ MaxAssertions \in Nat \ {0}
    /\ NoAdministrator \notin Administrators
    /\ NoProvider \notin StoredProviders

VARIABLES
    memory,   \* this.document
    disk      \* what a restart reads

storeVars == <<memory, disk>>

(* What the constructor writes when there is no file.                      *)
FreshDocument ==
    [administrator |-> NoAdministrator, provider |-> NoProvider,
     sessions |-> <<>>, clients |-> {}, assertions |-> {}]

DocumentOK(d, AssertionKeys) ==
    /\ d.administrator \in Administrators \cup {NoAdministrator}
    /\ d.provider \in StoredProviders \cup {NoProvider}
    /\ d.sessions \in Seq([token : Sessions, expiresAt : Nat])
    /\ Len(d.sessions) <= MaxSessions
    /\ d.clients \subseteq Clients
    /\ d.assertions \subseteq [key : AssertionKeys, expiresAt : Nat]
    /\ Cardinality(d.assertions) <= MaxAssertions

StoreInit == memory = FreshDocument /\ disk = FreshDocument

-----------------------------------------------------------------------------
(* The changes of the document.                                            *)

WithAdministrator(d, a) == [d EXCEPT !.administrator = a]

(* filter() by the time of expiry, or by the token.                        *)
LiveSessions(d, now) ==
    Kept(d.sessions, [token : Sessions, expiresAt : {e \in Nat : e > now}])

(* Wrong variant: the newest sessions are cut off instead of the oldest.   *)
OldestKept(live) ==
    IF Len(live) < MaxSessions THEN live ELSE SubSeq(live, 1, MaxSessions - 1)

(* slice(-7).                                                              *)
NewestKept(live) ==
    IF Len(live) < MaxSessions THEN live
    ELSE SubSeq(live, 2 + Len(live) - MaxSessions, Len(live))

WithSession(d, token, expiresAt, now) ==
    [d EXCEPT !.sessions = Append(NewestKept(LiveSessions(d, now)),
                                  [token |-> token, expiresAt |-> expiresAt])]

HasSession(d, token, now) ==
    \E i \in DOMAIN d.sessions : d.sessions[i].token = token
                                 /\ d.sessions[i].expiresAt > now

WithoutSession(d, token) ==
    [d EXCEPT !.sessions = Kept(@, [token : Sessions \ {token}, expiresAt : Nat])]

(* provider(): it throws at a key of blanks.                               *)
ProviderReadable(d) == d.provider # NoProvider => ~d.provider.blankKey
HasKeyOf(d, p) == d.provider # NoProvider /\ d.provider.settings.name = p.name

WithProvider(d, p) == [d EXCEPT !.provider = p]
WithoutProvider(d) == [d EXCEPT !.provider = NoProvider]

(* client().                                                               *)
HasClient(d, c) == c \in d.clients

WithClient(d, c) == [d EXCEPT !.clients = @ \cup {c}]
WithoutClient(d, c) == [d EXCEPT !.clients = @ \ {c}]

(* consumeAssertion(): whether the digest is taken, and the document then. *)
LiveAssertions(d, now) == { x \in d.assertions : x.expiresAt >= now }

Unused(d, key, now) ==
    /\ \A x \in LiveAssertions(d, now) : x.key # key
    /\ Cardinality(LiveAssertions(d, now)) < MaxAssertions

WithAssertion(d, key, expiresAt, now) ==
    [d EXCEPT !.assertions =
        LiveAssertions(d, now) \cup {[key |-> key, expiresAt |-> expiresAt]}]

-----------------------------------------------------------------------------
(* write(): the document has been changed to d in memory.                  *)
Written(d) == memory' = d /\ disk' = d
WriteFails(d) == memory' = d /\ disk' \in {disk, d}

(* Wrong variant: the file is not written.                                 *)
WrittenLater(d) == memory' = d /\ disk' = disk

(* A new process: the constructor parses the file.                         *)
Reload == memory' = disk /\ disk' = disk
=============================================================================

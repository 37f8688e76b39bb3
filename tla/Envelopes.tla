------------------------------ MODULE Envelopes ------------------------------
(***************************************************************************)
(* Envelopes, as the transport and the file manager see them: an identity, *)
(* the kinds of item they carry, and whether their session item is a       *)
(* session init.  An envelope carries at most one item of each kind, so an *)
(* item is named by <<envelope id, kind>>.                                 *)
(***************************************************************************)
EXTENDS Naturals

CONSTANTS
    EnvId,      \* the envelopes of the model
    Content,    \* [EnvId -> Contents]: what the client put into each of them
    Sid,        \* session ids
    Corrupt     \* envelopes whose file cannot be deserialized

ItemType == {"event", "session", "transaction", "attachment", "client_report"}

Contents ==
    [types: SUBSET (ItemType \ {"client_report"}), sid: Sid, init: BOOLEAN, spans: Nat]

ASSUME ContentAssumption ==
    /\ Content \in [EnvId -> Contents]
    /\ Corrupt \subseteq EnvId

Envelope == [id: EnvId, types: SUBSET ItemType, init: BOOLEAN]

(* The envelope as the client hands it over.                               *)
Fresh(id) == [id |-> id, types |-> Content[id].types, init |-> Content[id].init]

(* sentryDataCategoryForEnvelopItemType.                                   *)
Category == {"error", "session", "transaction", "attachment", "default", "span"}

CategoryOf ==
    [ty \in ItemType |->
        CASE ty = "event"         -> "error"
          [] ty = "session"       -> "session"
          [] ty = "transaction"   -> "transaction"
          [] ty = "attachment"    -> "attachment"
          [] ty = "client_report" -> "default"]

(* envelopeWithData: what is read back from a file, unless it is corrupt.  *)
Readable(env) == env.id \notin Corrupt

(* The items of an envelope, by name.                                      *)
ItemsOf(env) == {env.id} \X env.types

-----------------------------------------------------------------------------
(* The envelopes directory: a function from file names to envelopes.  A    *)
(* name is a natural number, because uniqueAscendingJsonName makes names   *)
(* that sort by creation (the clock does not run backwards).               *)

(* allFilesInFolder sorts the names, so the oldest envelope comes first.   *)
Oldest(dir) == CHOOSE n \in DOMAIN dir : \A m \in DOMAIN dir : n <= m

(* _non_thread_safe_removeFileAtPath: removing a missing file is harmless. *)
Without(dir, name) == [n \in DOMAIN dir \ {name} |-> dir[n]]

With(dir, name, env) ==
    [n \in DOMAIN dir \cup {name} |-> IF n = name THEN env ELSE dir[n]]

-----------------------------------------------------------------------------
(* SentryMigrateSessionInit, for the oldest file, the one to be deleted.   *)

HoldsInit(env) == Readable(env) /\ "session" \in env.types /\ env.init

SameSession(env, other) ==
    /\ Readable(other)
    /\ "session" \in other.types
    /\ Content[other.id].sid = Content[env.id].sid

(* The files setInitFlagOnNextEnvelopeWithSameSessionId would accept.      *)
Successors(dir) ==
    {n \in DOMAIN dir \ {Oldest(dir)} : SameSession(dir[Oldest(dir)], dir[n])}

(* Mutant: the init moves to the last file of the session.                 *)
NextWithSameSession_Last(dir) ==
    CHOOSE n \in Successors(dir) : \A m \in Successors(dir) : n >= m

(* It takes the first of them.                                             *)
NextWithSameSession(dir) ==
    CHOOSE n \in Successors(dir) : \A m \in Successors(dir) : n <= m

(* The Boolean migrateSessionInit returns.                                 *)
DidMigrate(dir) == HoldsInit(dir[Oldest(dir)]) /\ Successors(dir) # {}

(* setInitFlag, then storeSessionInit rewrites the file in place.  When    *)
(* that write fails the file keeps its contents; the result of             *)
(* migrateSessionInit does not depend on it.                               *)
MigrateSessionInit(dir, writeSucceeds) ==
    IF DidMigrate(dir) /\ writeSucceeds
    THEN [dir EXCEPT ![NextWithSameSession(dir)] = [@ EXCEPT !.init = TRUE]]
    ELSE dir
=============================================================================

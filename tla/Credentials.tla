----------------------------- MODULE Credentials -----------------------------
(***************************************************************************)
(* The credential store and the commands that write it: auth login, auth   *)
(* logout, bootstrap, and the silent refresh of an SSO session inside any  *)
(* aws command.  They run as processes of one machine, without a lock.     *)
(* Each opens the store anew; a machine that opted in to the keyring falls *)
(* back to the file whenever the probe of the keyring fails or is slow.    *)
(*                                                                         *)
(* The file is replaced by a rename.  The keyring holds one entry for a    *)
(* provider and an index of their names, and is written entry by entry.    *)
(* A call may fail, or the process die, between any two steps.             *)
(***************************************************************************)
EXTENDS Integers, FiniteSets, FiniteSetsExt

CONSTANTS Terminals,      \* processes
          PolicyScopes,   \* SSM paths that share one project, hence one IAM user
          MaxCredRuns,    \* commands
          MaxMinted       \* access keys IAM creates

Accounts == {"aws", "doppler"}
SsoTokens == {"sso1", "sso2"}
Minted == {"key1", "key2", "key3"}
Creds == {"none", "oauth", "pasted"} \cup SsoTokens \cup Minted
StoreFile == [Accounts -> Creds]
NoCreds == [a \in Accounts |-> "none"]

ASSUME MintedAssumption == MaxMinted \in 0..Cardinality(Minted)

VARIABLES iam,        \* the IAM user of the project
          credFile,   \* credentials.yaml
          keychain,   \* the keyring's entries and index
          optedIn,    \* SKRET_KEYRING=keyring
          session,    \* session[t]: the command of t
          credRuns    \* commands started

kvars == <<iam, credFile, keychain, optedIn, session, credRuns>>

NoSession == [pc |-> "idle", acct |-> "aws", store |-> "file", f |-> NoCreds,
              seen |-> NoCreds, todo |-> {}, cred |-> "none", scope |-> "none", policySeen |-> "none"]

CredentialsInit ==
  /\ iam = [user |-> FALSE, policy |-> "none", keys |-> {}, minted |-> 0]
  /\ credFile = NoCreds
  /\ keychain = [entry |-> NoCreds, index |-> {}]
  /\ optedIn \in BOOLEAN
  /\ session = [t \in Terminals |-> NoSession]
  /\ credRuns = 0

SessionBecomes(t, s) == session' = [session EXCEPT ![t] = s]

-----------------------------------------------------------------------------
(* The two backends. *)

NewStore == {"file"} \cup (IF optedIn THEN {"keyring"} ELSE {})

(* Faulty variant: an unreadable file is taken for an empty store.         *)
fileBackend_read_lenient(content) == {content, NoCreds}

(* What a read of the file may return short of an error: a file that is    *)
(* missing is an empty store, one that cannot be read or parsed an error.  *)
fileBackend_read(content) == {content}

(* An entry the index names and the keyring lacks is skipped.              *)
keyringBackend_read(ring) == [a \in Accounts |-> IF a \in ring.index THEN ring.entry[a] ELSE "none"]

(* What a backend answers now.                                             *)
CredentialsIn(b) == IF b = "file" THEN credFile ELSE keyringBackend_read(keychain)

ReadStore(b) == IF b = "file" THEN fileBackend_read(credFile) ELSE {keyringBackend_read(keychain)}

(* Save reads the whole store and replaces one entry; the write follows.   *)
Store_Save(t) ==
  LET s == session[t] IN
  /\ s.pc = "save"
  /\ \E f \in ReadStore(s.store) :
       SessionBecomes(t, [s EXCEPT !.pc = "write", !.seen = CredentialsIn(s.store), !.f = [f EXCEPT ![s.acct] = s.cred]])
  /\ UNCHANGED <<iam, credFile, keychain, optedIn, credRuns>>

(* Delete of the file: read, drop the entry, write.                        *)
fileBackend_delete(t) ==
  LET s == session[t] IN
  /\ s.pc = "delete" /\ s.store = "file"
  /\ \E f \in fileBackend_read(credFile) :
       SessionBecomes(t, [s EXCEPT !.pc = "write", !.seen = credFile, !.f = [f EXCEPT ![s.acct] = "none"]])
  /\ UNCHANGED <<iam, credFile, keychain, optedIn, credRuns>>

(* Delete of the keyring: read, delete the entry, then write the rest.     *)
keyringBackend_delete(t) ==
  LET s == session[t] IN
  /\ s.store = "keyring"
  /\ \/ /\ s.pc = "delete"
        /\ SessionBecomes(t, [s EXCEPT !.pc = "remove", !.seen = CredentialsIn("keyring"),
                                  !.f = [keyringBackend_read(keychain) EXCEPT ![s.acct] = "none"]])
        /\ UNCHANGED keychain
     \/ /\ s.pc = "remove"
        /\ keychain' = [keychain EXCEPT !.entry[s.acct] = "none"]
        /\ SessionBecomes(t, [s EXCEPT !.pc = "write"])
  /\ UNCHANGED <<iam, credFile, optedIn, credRuns>>

fileBackend_write(t) ==
  /\ session[t].pc = "write" /\ session[t].store = "file"
  /\ credFile' = session[t].f
  /\ SessionBecomes(t, NoSession)
  /\ UNCHANGED <<iam, keychain, optedIn, credRuns>>

ListedNames(f) == {a \in Accounts : f[a] # "none"}

(* The entries in the map's order, which is any order, and then the index. *)
keyringBackend_write(t) ==
  LET s == session[t] IN
  /\ s.store = "keyring"
  /\ \/ /\ s.pc = "write"
        /\ SessionBecomes(t, [s EXCEPT !.pc = "entries", !.todo = ListedNames(s.f)])
        /\ UNCHANGED keychain
     \/ /\ s.pc = "entries"
        /\ \E a \in s.todo : /\ keychain' = [keychain EXCEPT !.entry[a] = s.f[a]]
                             /\ SessionBecomes(t, [s EXCEPT !.todo = @ \ {a}])
     \/ /\ s.pc = "entries" /\ s.todo = {}
        /\ keychain' = [keychain EXCEPT !.index = ListedNames(s.f)]
        /\ SessionBecomes(t, NoSession)
  /\ UNCHANGED <<iam, credFile, optedIn, credRuns>>

-----------------------------------------------------------------------------
(* The commands. *)

Starts(t, s) ==
  /\ session[t].pc = "idle" /\ credRuns < MaxCredRuns
  /\ credRuns' = credRuns + 1
  /\ SessionBecomes(t, s)
  /\ UNCHANGED <<iam, credFile, keychain, optedIn>>

(* Login: the provider's flow has returned a credential, which is saved.   *)
Login(t) ==
  \E b \in NewStore, a \in Accounts :
    \E c \in IF a = "aws" THEN {"pasted"} \cup SsoTokens ELSE {"oauth"} :
      Starts(t, [NoSession EXCEPT !.pc = "save", !.acct = a, !.store = b, !.cred = c])

Logout(t) ==
  \E b \in NewStore, a \in Accounts :
    Starts(t, [NoSession EXCEPT !.pc = "delete", !.acct = a, !.store = b])

(* An aws command takes the stored credential; only an SSO session is      *)
(* refreshed and written back.                                             *)
resolveStoredCredentials(t) ==
  \E b \in NewStore : \E f \in ReadStore(b) :
    /\ f["aws"] \in SsoTokens
    /\ Starts(t, [NoSession EXCEPT !.pc = "refresh", !.cred = f["aws"]])

(* A token that is not about to expire stays; otherwise the new one is     *)
(* saved through a store opened for it, over whatever is stored by then.   *)
refreshIfNeeded(t) ==
  LET s == session[t] IN
  /\ s.pc = "refresh"
  /\ \/ SessionBecomes(t, NoSession)
     \/ \E b \in NewStore, c \in SsoTokens \ {s.cred} :
          SessionBecomes(t, [s EXCEPT !.pc = "save", !.store = b, !.cred = c])
  /\ UNCHANGED <<iam, credFile, keychain, optedIn, credRuns>>

(* bootstrap: unless forced it stops at a stored access key; a store that  *)
(* cannot be read does not stop it.                                        *)
Bootstrap(t) ==
  \E scope \in PolicyScopes, force \in BOOLEAN, b \in NewStore, readable \in BOOLEAN :
    /\ ~force /\ readable => CredentialsIn(b)["aws"] \notin Minted \cup {"pasted"}
    /\ Starts(t, [NoSession EXCEPT !.pc = "user", !.scope = scope])

(* A call of a command fails, or the process dies.  A refresh that cannot  *)
(* be saved is not reported, a failed save of a new access key is.         *)
SessionFails(t) ==
  /\ session[t].pc # "idle"
  /\ SessionBecomes(t, NoSession)
  /\ UNCHANGED <<iam, credFile, keychain, optedIn, credRuns>>

-----------------------------------------------------------------------------
(* BootstrapFlow.Provision, one action for a call of IAM. *)

Provision_User(t) ==
  LET s == session[t] IN
  /\ s.pc = "user"
  /\ iam' = [iam EXCEPT !.user = TRUE]
  /\ SessionBecomes(t, [s EXCEPT !.pc = "policy"])
  /\ UNCHANGED <<credFile, keychain, optedIn, credRuns>>

(* Faulty variant: any error is taken for "there is none".                 *)
GetUserPolicy_lenient(policy) == {policy, "none"}

(* GetUserPolicy answers with the policy or that there is none; any other  *)
(* error ends the command.                                                 *)
GetUserPolicy(policy) == {policy}

Provision_CheckPolicy(t) ==
  LET s == session[t] IN
  /\ s.pc = "policy"
  /\ \E p \in GetUserPolicy(iam.policy) :
       SessionBecomes(t, IF p \in {"none", s.scope} THEN [s EXCEPT !.pc = "put", !.policySeen = iam.policy]
                    ELSE NoSession)   \* PolicyConflictError
  /\ UNCHANGED <<iam, credFile, keychain, optedIn, credRuns>>

Provision_PutPolicy(t) ==
  LET s == session[t] IN
  /\ s.pc = "put"
  /\ iam' = [iam EXCEPT !.policy = s.scope]
  /\ SessionBecomes(t, [s EXCEPT !.pc = "keys"])
  /\ UNCHANGED <<credFile, keychain, optedIn, credRuns>>

maxAccessKeys == 2

Provision_ListKeys(t) ==
  LET s == session[t] IN
  /\ s.pc = "keys"
  /\ SessionBecomes(t, IF Cardinality(iam.keys) >= maxAccessKeys THEN NoSession ELSE [s EXCEPT !.pc = "mint"])
  /\ UNCHANGED <<iam, credFile, keychain, optedIn, credRuns>>

NewKey == <<"key1", "key2", "key3">>[iam.minted + 1]

(* CreateAccessKey, whose answer may be lost; IAM enforces the limit too.  *)
Provision_CreateKey(t) ==
  LET s == session[t] IN
  /\ s.pc = "mint" /\ iam.minted < MaxMinted /\ Cardinality(iam.keys) < maxAccessKeys
  /\ iam' = [iam EXCEPT !.keys = @ \cup {NewKey}, !.minted = @ + 1]
  /\ \/ SessionBecomes(t, NoSession)
     \/ \E b \in NewStore : SessionBecomes(t, [s EXCEPT !.pc = "save", !.store = b, !.cred = NewKey])
  /\ UNCHANGED <<credFile, keychain, optedIn, credRuns>>

(* The administrator deletes a key.                                        *)
DeleteAccessKey ==
  /\ \E k \in iam.keys : iam' = [iam EXCEPT !.keys = @ \ {k}]
  /\ UNCHANGED <<credFile, keychain, optedIn, session, credRuns>>

CredentialsNext ==
  \/ \E t \in Terminals :
       \/ Login(t) \/ Logout(t) \/ Bootstrap(t) \/ resolveStoredCredentials(t) \/ refreshIfNeeded(t)
       \/ Store_Save(t) \/ fileBackend_delete(t) \/ keyringBackend_delete(t)
       \/ fileBackend_write(t) \/ keyringBackend_write(t) \/ SessionFails(t)
       \/ Provision_User(t) \/ Provision_CheckPolicy(t) \/ Provision_PutPolicy(t)
       \/ Provision_ListKeys(t) \/ Provision_CreateKey(t)
  \/ DeleteAccessKey

CredentialsSpec == CredentialsInit /\ [][CredentialsNext]_kvars

-----------------------------------------------------------------------------
(* Properties. *)

Kept(b) == IF b = "file" THEN credFile ELSE keychain.entry

StepsOn(t, b) == session[t].store = b /\ session'[t] # session[t]

(* A command for one provider leaves the stored credential of any other    *)
(* provider alone: Save, Delete and the refresh write the whole store, and *)
(* what they put back for the others is what the store answered when they  *)
(* read it, whichever backend they write and wherever they die.  The index *)
(* of the keyring is written by itself, after the entries; it lists the    *)
(* others that had a credential then.                                      *)
OtherCredentialsKept ==
  [][\A a \in Accounts :
       /\ \A b \in {"file", "keyring"} :
            Kept(b)'[a] # Kept(b)[a] =>
              \E t \in Terminals :
                StepsOn(t, b) /\ (session[t].acct = a \/ Kept(b)'[a] = session[t].seen[a])
       /\ (a \in keychain'.index) # (a \in keychain.index) =>
            \E t \in Terminals :
              /\ StepsOn(t, "keyring")
              /\ session[t].acct = a \/ (a \in keychain'.index <=> session[t].seen[a] # "none")]_kvars

(* Bootstrap refuses to overwrite the policy of another namespace: a       *)
(* policy is replaced by a different one only by a command that raced the  *)
(* other: at its own check there was no policy, or the one it puts.        *)
PolicyIsRespected ==
  [][iam'.policy # iam.policy =>
       \E t \in Terminals : /\ session[t].pc = "put" /\ session'[t].pc = "keys"
                            /\ session[t].policySeen \in {"none", iam'.policy}]_kvars

(* No command writes over the credential or the policy of another but in a *)
(* race it could not see.                                                  *)
OthersAreKept == OtherCredentialsKept /\ PolicyIsRespected
=============================================================================

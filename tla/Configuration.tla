----------------------------- MODULE Configuration -----------------------------
(***************************************************************************)
(* What a user hands to a Stack on its way to the Pulumi CLI, and what the *)
(* program exports on its way back: configuration, git credentials and     *)
(* outputs.                                                                *)
(*                                                                         *)
(* Configuration is declared in four fields of a Stack, becomes a list of  *)
(* items of the Workspace (UpdateConfig), is read by the Workspace         *)
(* controller (marshalConfigItem) and set by the agent (SetAllConfig).  Or *)
(* the items are those of a Workspace that a user wrote.  Git credentials  *)
(* are used by the operator, to resolve a branch, and by the init          *)
(* container of the pod.  Outputs go from the agent to a Secret and to the *)
(* status of the Stack.                                                    *)
(*                                                                         *)
(* A value is told apart by where it was declared.  A key is a spelling of *)
(* a name: with the namespace of the project or without, plain or escaped, *)
(* which is the path ["name"].  As a path, a name with a dot leads into    *)
(* another setting.                                                        *)
(***************************************************************************)
EXTENDS Naturals, Sequences, FiniteSets

CONSTANTS
    Names,      \* the names of settings, without the namespace of the project
    Dotted,     \* those that contain a dot
    Keys,       \* the spellings that are used, in the order of slices.Sorted
    Outputs,    \* the names of outputs
    SecretKey,  \* the key of a Secret that each becomes (secretKeyReplacementRegex)
    MaxEntries, \* bound: entries of a Stack's configuration
    MaxItems,   \* bound: items of a user's own Workspace
    MaxRounds   \* bound: runs of the program

Spellings == [name : Names, scoped : BOOLEAN, escaped : BOOLEAN]

ASSUME ConstantAssumption ==
    /\ Dotted \subseteq Names
    /\ Keys \in Seq(Spellings)
    /\ DOMAIN SecretKey = Outputs
    /\ MaxEntries \in Nat /\ MaxItems \in Nat /\ MaxRounds \in Nat

VARIABLES
    config,   \* the Stack: how each entry <<field, key>> is given
    creds,    \* the Stack: its git credentials
    pc,       \* how far the configuration has come
    listing,  \* the credentials the operator lists the remote's branches with
    fetching, \* the credentials the init container clones with
    items,    \* the items of the Workspace, each at the entry it was made of
    mounted,  \* the files that items refer to are there
    settings, \* the configuration in the pod's stack settings file
    exported, \* the outputs of the last run, with their secrecy
    secret,   \* the Secret made of them
    status,   \* the outputs in the status of the Stack
    round

gitVars    == <<creds, listing, fetching>>
configVars == <<config, items, mounted, settings>>
outputVars == <<exported, secret, status, round>>
vars == <<pc, gitVars, configVars, outputVars>>

-----------------------------------------------------------------------------
(* A Stack's configuration, and the items of a Workspace.                  *)

\* How a field gives a value: inline, as a string or structured; in a mounted
\* file, read as a string or as JSON; or by a reference that cannot be resolved.
Forms == [config     |-> {"string", "object"},
          configRef  |-> {"file", "jsonFile"},
          secrets    |-> {"string"},
          secretRefs |-> {"string", "file", "foreign", "incomplete"}]

IsSecretField(f) == f \in {"secrets", "secretRefs"}

\* Mutant: the secrets come first, so that plain values overwrite them.
PlaceSecretsFirst(f) ==
    CASE f = "secrets" -> 1 [] f = "secretRefs" -> 2 [] f = "config" -> 3 [] f = "configRef" -> 4 [] OTHER -> 0

\* UpdateConfig goes through the fields in this order, and through the keys of
\* each in theirs.
Place(f) ==
    CASE f = "config" -> 1 [] f = "configRef" -> 2 [] f = "secrets" -> 3 [] f = "secretRefs" -> 4 [] OTHER -> 0

Before(d, e) == Place(d[1]) < Place(e[1]) \/ (Place(d[1]) = Place(e[1]) /\ d[2] < e[2])

Configs ==
    UNION {{c \in [d -> UNION {Forms[f] : f \in DOMAIN Forms}] : \A e \in d : c[e] \in Forms[e[1]]} :
           d \in {e \in SUBSET ((DOMAIN Forms) \X (DOMAIN Keys)) : Cardinality(e) <= MaxEntries}}

Item(key, form, sec, path) == [key |-> key, form |-> form, secret |-> sec, path |-> path]

\* The items of a Workspace of the user's own may be paths.
OwnItems ==
    {Item(Keys[k], f, s, p) : k \in DOMAIN Keys, f \in {"string", "object", "file", "jsonFile"},
                              s \in BOOLEAN, p \in BOOLEAN}
OwnEntries(n) == {"own"} \X (1..n)

UpdateConfig ==
    [e \in DOMAIN config |-> Item(Keys[e[2]], config[e], IsSecretField(e[1]), FALSE)]

\* A Workspace has its items in a list that is a map by key.
Duplicates(its) == \E d, e \in DOMAIN its : d # e /\ its[d].key = its[e].key

\* A Secret of another namespace or a kind that is no longer read stalls the
\* Stack; a reference without a name is an error.
Unresolvable == \E e \in DOMAIN config : config[e] \in {"foreign", "incomplete"}

-----------------------------------------------------------------------------
(* Git credentials.                                                        *)

\* Those of gitAuthSecret are the keys it has; those of gitAuth are the ways it
\* lists, each by references to Secrets or not.
Credentials ==
    [named : BOOLEAN, keys : SUBSET {"ssh", "token", "username", "password"},
     ways : SUBSET {"ssh", "token", "app", "basic"}, noSecret : SUBSET {"ssh", "token", "app", "basic"}]
NoCredentials == [named |-> FALSE, keys |-> {}, ways |-> {}, noSecret |-> {}]

\* resolveResourceRef: only references to Secrets are supported.
Resolve(way, as) == IF way \in creds.noSecret THEN "error" ELSE as

\* resolveGitAuth and authMethod: gitAuthSecret hides gitAuth, and one way is used.
ResolveGitAuth ==
    IF creds.named
    THEN IF "ssh" \in creds.keys THEN "ssh"
         ELSE IF "token" \in creds.keys THEN "token"
         ELSE IF "username" \in creds.keys
              THEN IF "password" \in creds.keys THEN "basic" ELSE "error"
         ELSE "none"
    ELSE IF creds.ways = {} THEN "none"
    ELSE IF "ssh" \in creds.ways THEN Resolve("ssh", "ssh")
    ELSE IF "token" \in creds.ways THEN Resolve("token", "token")
    ELSE IF "app" \in creds.ways THEN Resolve("app", "installation token")
    ELSE Resolve("basic", "basic")

\* Mutant: the accessToken of the Secret is not passed on.
PodCredentialsWithoutToken ==
    (IF creds.named THEN creds.keys \ {"token"} ELSE {})
        \union (creds.ways \ ({"basic"} \union (creds.noSecret \intersect {"app"})))
        \union (IF "basic" \in creds.ways THEN {"username", "password"} ELSE {})

\* setupWorkspaceFromGitSource: both go to the Workspace, and from there to the
\* environment of the init container.
PodCredentials ==
    (IF creds.named THEN creds.keys ELSE {})
        \union (creds.ways \ ({"basic"} \union (creds.noSecret \intersect {"app"})))
        \union (IF "basic" \in creds.ways THEN {"username", "password"} ELSE {})

\* It follows references that resolveGitAuth may not have looked at.
NilReference == \E w \in creds.ways \ {"app"} : w \in creds.noSecret

\* runInit: the token of a GitHub App takes the place of another one; the
\* Automation API takes one way only.
RunInit(env) ==
    IF {"ssh", "username"} \subseteq env THEN "refused"
    ELSE IF "username" \in env /\ env \intersect {"token", "app"} # {} THEN "refused"
    ELSE IF "ssh" \in env THEN "ssh"
    ELSE IF "app" \in env THEN "installation token"
    ELSE IF "token" \in env THEN "token"
    ELSE IF "username" \in env THEN "basic" ELSE "none"

-----------------------------------------------------------------------------
(* The Stack controller.                                                   *)

Init ==
    /\ \/ config \in Configs /\ creds = NoCredentials /\ pc = "declared" /\ items = <<>>
       \/ /\ config = <<>> /\ pc = "declared" /\ items = <<>>
          /\ creds \in Credentials
          /\ creds.keys = {} \/ creds.named
          /\ creds.noSecret \subseteq creds.ways
       \/ /\ config = <<>> /\ creds = NoCredentials /\ pc = "applied"
          /\ items \in UNION {[OwnEntries(n) -> OwnItems] : n \in 1..MaxItems}
          /\ ~Duplicates(items)
    /\ listing = "none" /\ fetching = "none"
    /\ mounted \in BOOLEAN
    /\ settings = <<>>
    /\ exported = <<>> /\ secret = <<>> /\ status = <<>> /\ round = 0

\* Reconcile stops at credentials or references it cannot resolve.
SpecInvalid ==
    /\ pc = "declared"
    /\ ResolveGitAuth = "error" \/ Unresolvable
    /\ pc' = "stalled"
    /\ listing' = ResolveGitAuth
    /\ UNCHANGED <<creds, fetching, configVars, outputVars>>

\* A reference that is nil: the reconcile panics.
Panic ==
    /\ pc = "declared" /\ ResolveGitAuth # "error"
    /\ NilReference
    /\ pc' = "panicked"
    /\ listing' = ResolveGitAuth
    /\ UNCHANGED <<creds, fetching, configVars, outputVars>>

\* The branch is resolved, and the Workspace applied; ...
ApplyWorkspace ==
    /\ pc = "declared"
    /\ ResolveGitAuth # "error" /\ ~NilReference /\ ~Unresolvable
    /\ ~Duplicates(UpdateConfig)
    /\ listing' = ResolveGitAuth
    /\ items' = UpdateConfig
    /\ pc' = "applied"
    /\ UNCHANGED <<creds, fetching, config, mounted, settings, outputVars>>

\* ... unless the API server refuses a key that two of the fields declare.
ApplyRefused ==
    /\ pc = "declared"
    /\ ResolveGitAuth # "error" /\ ~NilReference /\ ~Unresolvable
    /\ Duplicates(UpdateConfig)
    /\ listing' = ResolveGitAuth
    /\ pc' = "refused"
    /\ UNCHANGED <<creds, fetching, configVars, outputVars>>

-----------------------------------------------------------------------------
(* The pod, the Workspace controller and the agent.                        *)

FetchSource ==
    /\ pc = "applied"
    /\ fetching' = RunInit(PodCredentials)
    /\ pc' = IF fetching' = "refused" THEN "stalled" ELSE "fetched"
    /\ UNCHANGED <<creds, listing, configVars, outputVars>>

\* marshalConfigItem refuses a path to a structured value, ...
MarshalFails == \E i \in DOMAIN items : items[i].path /\ items[i].form = "object"

HasJsonValue(item) == item.form \in {"object", "jsonFile"}
HasJson == \E i \in DOMAIN items : HasJsonValue(items[i])

\* ... and the agent a path to a JSON file, and a file that cannot be read.
UnmarshalFails ==
    \/ \E i \in DOMAIN items : items[i].path /\ HasJsonValue(items[i])
    \/ ~mounted /\ \E i \in DOMAIN items : items[i].form \in {"file", "jsonFile"}

\* With the namespace of the project filled in, both spellings are one.
ParseKey(k) == [name |-> k.name, escaped |-> k.escaped]

\* Mutant: keys that are no paths are not escaped.
EscapeNothing(item) == ParseKey(item.key)

\* unmarshalConfigItems: a key that is no path is escaped unless it already is.
Escape(item) == [name |-> item.key.name, escaped |-> ~item.path \/ item.key.escaped]

\* The setting that `pulumi config set-all --path' makes of a key, ...
SettingAt(k) == IF k.name \in Dotted /\ ~k.escaped THEN <<"inside", k.name>> ELSE <<"top", k.name>>

\* ... and `set-all --json', which takes it verbatim.
Verbatim(k) == <<IF k.escaped THEN "brackets" ELSE "top", k.name>>

Value(e) == [from |-> e, secret |-> items[e].secret, structured |-> HasJsonValue(items[e])]

LastOf(es) == CHOOSE e \in es : \A d \in es : d = e \/ Before(d, e)

\* The agent collects the items in a map: a later item replaces an earlier one.
Collect(key) ==
    [k \in {key[e] : e \in DOMAIN items} |-> Value(LastOf({e \in DOMAIN items : key[e] = k}))]

\* With a structured value among them, the keys are set as they are; otherwise
\* as paths, in the order in which Go goes through the map, which is any.
SetAllConfig ==
    /\ pc = "fetched"
    /\ ~MarshalFails /\ ~UnmarshalFails
    /\ \/ /\ HasJson
          /\ settings' = Collect([e \in DOMAIN items |-> Verbatim(items[e].key)])
       \/ /\ ~HasJson
          /\ LET map == Collect([e \in DOMAIN items |-> Escape(items[e])])
                 at  == {SettingAt(k) : k \in DOMAIN map}
             IN  \E last \in [at -> DOMAIN map] :
                    /\ \A s \in at : SettingAt(last[s]) = s
                    /\ settings' = [s \in at |-> map[last[s]]]
    /\ pc' = "ready"
    /\ UNCHANGED <<gitVars, config, items, mounted, outputVars>>

\* Nothing is set, and the Workspace is marked as stalled.
SetAllConfigFails ==
    /\ pc = "fetched"
    /\ MarshalFails \/ UnmarshalFails
    /\ pc' = "failed"
    /\ UNCHANGED <<gitVars, configVars, outputVars>>

\* The missing key of the Secret or ConfigMap is added, and an edit or a restart of
\* the operator has the Workspace reconciled again.
FileAppears ==
    /\ pc = "failed" /\ ~mounted
    /\ mounted' = TRUE
    /\ pc' = "fetched"
    /\ UNCHANGED <<gitVars, config, items, settings, outputVars>>

-----------------------------------------------------------------------------
(* Outputs.                                                                *)

\* A run of the program: its outputs, of which some are secret.
Up ==
    /\ pc = "ready" /\ round < MaxRounds
    /\ round' = round + 1
    /\ exported' \in UNION {[names -> BOOLEAN] : names \in SUBSET Outputs}
    /\ pc' = "ran"
    /\ UNCHANGED <<gitVars, configVars, secret, status>>

\* The keys that the annotation of the Secret says are secret.
Mask(outputs) == {SecretKey[n] : n \in {m \in DOMAIN outputs : outputs[m]}}

\* outputsToSecret: of two outputs with one key, either is kept.
OutputsToSecret ==
    /\ pc = "ran" /\ exported # <<>>
    /\ LET keys == {SecretKey[n] : n \in DOMAIN exported}
       IN  \E kept \in [keys -> DOMAIN exported] :
              /\ \A k \in keys : SecretKey[kept[k]] = k
              /\ secret' = [data |-> [k \in keys |-> <<kept[k], round>>], mask |-> Mask(exported)]
    /\ pc' = "reported"
    /\ UNCHANGED <<gitVars, configVars, exported, status, round>>

\* markStackSucceeded copies them, and "[secret]" in place of those that are secret.
\* A Secret that is not found, as it is deleted or not in the cache yet, has none.
MarkStackSucceeded ==
    /\ pc = "reported"
    /\ \/ status' = [k \in DOMAIN secret.data |-> IF k \in secret.mask THEN <<>> ELSE secret.data[k]]
       \/ status' = <<>>
    /\ pc' = "ready"
    /\ UNCHANGED <<gitVars, configVars, exported, secret, round>>

\* A run without outputs leaves those of the last one.
NoOutputs ==
    /\ pc = "ran" /\ exported = <<>>
    /\ pc' = "ready"
    /\ UNCHANGED <<gitVars, configVars, outputVars>>

Next ==
    \/ SpecInvalid \/ Panic \/ ApplyWorkspace \/ ApplyRefused
    \/ FetchSource \/ SetAllConfig \/ SetAllConfigFails \/ FileAppears
    \/ Up \/ OutputsToSecret \/ MarkStackSucceeded \/ NoOutputs

Spec == Init /\ [][Next]_vars

-----------------------------------------------------------------------------
(* Properties.                                                             *)

\* What an item is meant to set.
Meant(item) == IF item.path THEN SettingAt(ParseKey(item.key)) ELSE <<"top", item.key.name>>

\* The cases in which SetAllConfig takes a path or an escaped key for a plain one.
TakenVerbatim == HasJson /\ \E e \in DOMAIN items : items[e].path \/ items[e].key.escaped

\* What is declared is what is set, through all three programs: the settings are
\* those that were meant, each has the value of an item that was meant for it, and
\* is structured or a string as that item was (UpdateConfig, marshalConfigItem,
\* unmarshalConfigItems, unmarshalConfigItemsJson); except that next to a
\* structured value, paths and escaped keys are taken verbatim.
ConfigAsDeclared ==
    (pc = "ready" /\ ~TakenVerbatim) =>
        /\ DOMAIN settings = {Meant(items[e]) : e \in DOMAIN items}
        /\ \A s \in DOMAIN settings : \E e \in DOMAIN items :
              /\ Meant(items[e]) = s
              /\ settings[s] = Value(e)
        /\ DOMAIN config \subseteq DOMAIN items

\* What is secret stays secret: a setting that a Stack declares in one of its two
\* secret fields, under any spelling and whatever other fields say of it, is set as
\* a secret; and no value of a secret output gets into the status of the Stack,
\* even if its name collides with that of another output.
SecretsStaySecret ==
    /\ (pc = "ready" /\ ~TakenVerbatim) =>
          \A e \in DOMAIN items :
             IsSecretField(e[1]) => settings[Meant(items[e])].secret
    /\ pc = "ready" =>
          \A k \in DOMAIN status : \A n \in DOMAIN exported :
             exported[n] => status[k] # <<n, round>>

\* The operator and the pod authenticate alike: a pod that clones does so with the
\* credentials that the branch was resolved with, even if the Stack names several
\* modes, and if it names one, the pod does not refuse it and the reconcile does not
\* panic (resolveGitAuth, setupWorkspaceFromGitSource, runInit).
\*
\* This is less than stack_types.go:216-218 and 227-229 say, that of several modes
\* only one "will be considered": basic authentication beside another mode is listed
\* with, and then refused by the pod; and a nil reference of a mode that is not
\* considered panics.  Nor does it hold of a Stack with both gitAuthSecret and
\* gitAuth, or with both a token and a GitHub App, which the comments do not order.
SameCredentials ==
    LET modes == creds.ways \union (creds.keys \intersect {"ssh", "token", "username"})
        oneMode == \A v, w \in modes : v = w
        ordered == (~creds.named \/ creds.ways = {}) /\ ~({"token", "app"} \subseteq creds.ways)
    IN  ordered => /\ pc \in {"fetched", "ready"} => fetching = listing
                   /\ oneMode => pc # "panicked" /\ fetching # "refused"
=============================================================================

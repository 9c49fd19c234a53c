------------------------- MODULE Configuration_proofs -------------------------
(***************************************************************************)
(* Proofs about the conversions, for any names, keys and outputs, and any  *)
(* number of entries, items and runs.                                      *)
(***************************************************************************)
EXTENDS Configuration, WellFoundedInduction, TLAPS

-----------------------------------------------------------------------------
(* The last of several entries.                                            *)

LEMMA MinExists ==
    ASSUME NEW S \in SUBSET Nat, S # {}
    PROVE  \E m \in S : \A x \in S : m <= x
<1> DEFINE R == OpToRel(<, Nat)
<1>1. \A x, y \in Nat : x < y => <<x, y>> \in R
  BY DEF OpToRel
<1>2. IsWellFoundedOn(R, Nat)
  BY NatLessThanWellFounded
<1> HIDE DEF R
<1>3. PICK m \in S : \A y \in S : <<y, m>> \notin R
  BY <1>2, WFMin
<1>4. \A x \in S : ~(x < m)
  BY <1>1, <1>3
<1> QED
  BY <1>4

LEMMA MaxExists ==
    ASSUME NEW n \in Nat, NEW S \in SUBSET (1..n), S # {}
    PROVE  \E m \in S : \A x \in S : x <= m
<1> DEFINE T == {n - x : x \in S}
<1>1. T \in SUBSET Nat /\ T # {}
  <2>1. \A x \in S : n - x \in Nat
    OBVIOUS
  <2> QED
    BY <2>1
<1>2. \A x \in S : n - x \in T
  OBVIOUS
<1>3. \A t \in T : \E x \in S : t = n - x
  OBVIOUS
<1> HIDE DEF T
<1>4. PICK t \in T : \A u \in T : t <= u
  BY <1>1, MinExists
<1>5. PICK m \in S : t = n - m
  BY <1>3
<1>6. \A x \in S : x <= m
  BY <1>2, <1>4, <1>5
<1> QED
  BY <1>6

\* Entries of a Stack, or of a user's own Workspace.
Entries(n) == (DOMAIN Forms \union {"own"}) \X (1..n)

LEMMA PlaceType == \A f : Place(f) \in 0..4
BY DEF Place

LEMMA PlaceInjective == \A f, g \in DOMAIN Forms \union {"own"} : Place(f) = Place(g) => f = g
BY DEF Place, Forms

\* A nonempty set of entries has a last one, which UpdateConfig appends after the others.
LEMMA LastOfIsLast ==
    ASSUME NEW n \in Nat, NEW S \in SUBSET Entries(n), S # {}
    PROVE  LastOf(S) \in S /\ \A d \in S : d = LastOf(S) \/ Before(d, LastOf(S))
<1> DEFINE P == {Place(e[1]) + 1 : e \in S}
<1>1. P \in SUBSET (1..5) /\ P # {}
  BY PlaceType
<1>2. PICK p \in P : \A q \in P : q <= p
  BY <1>1, MaxExists
<1> DEFINE T == {e[2] : e \in {d \in S : Place(d[1]) + 1 = p}}
<1>3. T \in SUBSET (1..n) /\ T # {}
  BY DEF Entries
<1>4. PICK m \in T : \A x \in T : x <= m
  BY <1>3, MaxExists
<1>5. PICK e \in S : Place(e[1]) + 1 = p /\ e[2] = m
  OBVIOUS
<1>6. ASSUME NEW d \in S PROVE d = e \/ Before(d, e)
  <2>1. Place(d[1]) + 1 <= p
    BY <1>2
  <2>2. Place(d[1]) \in Nat /\ Place(e[1]) \in Nat /\ d[2] \in Nat /\ e[2] \in Nat
    BY PlaceType DEF Entries
  <2>3. CASE Place(d[1]) = Place(e[1])
    <3>1. d[2] <= e[2]
      BY <1>4, <1>5, <2>3
    <3>2. d[1] = e[1]
      BY <2>3, PlaceInjective DEF Entries
    <3>3. d[2] = e[2] => d = e
      BY <3>2 DEF Entries
    <3> QED
      BY <2>2, <2>3, <3>1, <3>3 DEF Before
  <2> QED
    BY <1>5, <2>1, <2>2, <2>3 DEF Before
<1> QED
  BY <1>6 DEF LastOf

-----------------------------------------------------------------------------
(* The invariant.                                                          *)

\* The entries of a Stack are of its fields, each with a key that is used.
Declared ==
    /\ \A e \in DOMAIN config : e \in (DOMAIN Forms) \X (1..Len(Keys))
    /\ creds \in Credentials
    /\ creds.keys = {} \/ creds.named
    /\ creds.noSecret \subseteq creds.ways

\* A reconcile that goes on has found credentials that it and the pod can read.
Resolved ==
    /\ listing = ResolveGitAuth
    /\ ResolveGitAuth # "error" /\ ~NilReference

\* The items are those of the Stack, or those of a user.
Listed ==
    \/ items = UpdateConfig
    \/ /\ DOMAIN config = {}
       /\ \E n \in 1..MaxItems : items \in [OwnEntries(n) -> OwnItems]

\* The settings are what the items mean, and an item of a secret field decides.
AsMeantBy(set) ==
    /\ DOMAIN set = {Meant(items[e]) : e \in DOMAIN items}
    /\ \A s \in DOMAIN set : \E e \in DOMAIN items : Meant(items[e]) = s /\ set[s] = Value(e)
    /\ \A e \in DOMAIN items : IsSecretField(e[1]) => set[Meant(items[e])].secret

AsMeant == ~TakenVerbatim => AsMeantBy(settings)

\* The annotation names the key of every output that is secret, ...
Masked ==
    \A k \in DOMAIN secret.data : \A n \in DOMAIN exported :
        exported[n] /\ secret.data[k] = <<n, round>> => k \in secret.mask

\* ... so that no value of one is copied.
Copied ==
    \A k \in DOMAIN status : \A n \in DOMAIN exported :
        exported[n] => status[k] # <<n, round>>

CInv ==
    /\ Declared
    /\ pc = "panicked" => ResolveGitAuth # "error" /\ NilReference
    /\ pc \in {"applied", "fetched", "failed", "ready", "ran", "reported"} => Resolved /\ Listed
    /\ pc \in {"fetched", "failed", "ready", "ran", "reported"} =>
          fetching = RunInit(PodCredentials) /\ fetching # "refused"
    /\ fetching = "refused" => RunInit(PodCredentials) = "refused" /\ ResolveGitAuth # "error"
    /\ pc \in {"ready", "ran", "reported"} => AsMeant
    /\ pc \notin {"ran", "reported"} => Copied
    /\ pc = "reported" => Masked

-----------------------------------------------------------------------------
(* What SetAllConfig sets.                                                 *)

\* The items of a Stack are no paths, and all are of its fields or all of a user's own.
LEMMA ItemsShape ==
    ASSUME Declared, Listed
    PROVE  /\ \E n \in Nat : DOMAIN items \in SUBSET Entries(n)
           /\ \A e \in DOMAIN items : items[e].key \in Spellings /\ items[e].path \in BOOLEAN
           /\ \/ \A e \in DOMAIN items : ~items[e].path /\ items[e].secret = IsSecretField(e[1])
              \/ \A e \in DOMAIN items : ~IsSecretField(e[1])
<1>0. Keys \in Seq(Spellings) /\ Len(Keys) \in Nat
  BY ConstantAssumption
<1>1. CASE items = UpdateConfig
  <2>1. DOMAIN items \in SUBSET Entries(Len(Keys))
    BY <1>1 DEF Declared, UpdateConfig, Entries
  <2>2. ASSUME NEW e \in DOMAIN items
        PROVE  items[e] = Item(Keys[e[2]], config[e], IsSecretField(e[1]), FALSE) /\ Keys[e[2]] \in Spellings
    BY <1>0, <1>1 DEF Declared, UpdateConfig
  <2>3. \A e \in DOMAIN items : items[e].key \in Spellings /\ items[e].path = FALSE
                                /\ items[e].secret = IsSecretField(e[1])
    BY <2>2 DEF Item
  <2>4. \E n \in Nat : DOMAIN items \in SUBSET Entries(n)
    BY <1>0, <2>1
  <2> QED
    BY <2>3, <2>4
<1>2. ASSUME NEW n \in 1..MaxItems, items \in [OwnEntries(n) -> OwnItems]
      PROVE  /\ DOMAIN items \in SUBSET Entries(n)
             /\ \A e \in DOMAIN items : items[e].key \in Spellings /\ items[e].path \in BOOLEAN
             /\ \A e \in DOMAIN items : ~IsSecretField(e[1])
  <2>1. DOMAIN items \in SUBSET Entries(n)
    BY <1>2 DEF OwnEntries, Entries
  <2>2. \A e \in DOMAIN items : e[1] = "own"
    BY <1>2 DEF OwnEntries
  <2>3. ASSUME NEW i \in OwnItems PROVE i.key \in Spellings /\ i.path \in BOOLEAN
    BY <1>0 DEF OwnItems, Item
  <2> QED
    BY <1>2, <2>1, <2>2, <2>3 DEF IsSecretField
<1> QED
  BY <1>1, <1>2, ConstantAssumption DEF Listed

\* Each key that is collected has the value of the last item with that key.
LEMMA CollectTakesLast ==
    ASSUME Declared, Listed, NEW key, DOMAIN key = DOMAIN items
    PROVE  /\ DOMAIN Collect(key) = {key[e] : e \in DOMAIN items}
           /\ \A k \in DOMAIN Collect(key) : \E e \in DOMAIN items :
                 /\ key[e] = k /\ Collect(key)[k] = Value(e)
                 /\ \A d \in DOMAIN items : key[d] = k => d = e \/ Before(d, e)
<1>1. PICK n \in Nat : DOMAIN items \in SUBSET Entries(n)
  BY ItemsShape
<1>2. ASSUME NEW k \in {key[e] : e \in DOMAIN items}
      PROVE  \E e \in DOMAIN items :
                 /\ key[e] = k /\ Collect(key)[k] = Value(e)
                 /\ \A d \in DOMAIN items : key[d] = k => d = e \/ Before(d, e)
  <2> DEFINE S == {e \in DOMAIN items : key[e] = k}
  <2>1. S \in SUBSET Entries(n) /\ S # {}
    BY <1>1
  <2>2. LastOf(S) \in S /\ \A d \in S : d = LastOf(S) \/ Before(d, LastOf(S))
    BY <2>1, LastOfIsLast
  <2>3. Collect(key)[k] = Value(LastOf(S))
    BY DEF Collect
  <2> QED
    BY <2>2, <2>3
<1> QED
  BY <1>2 DEF Collect

\* An item after one of a secret field is of a secret field.
LEMMA SecretFieldsComeLast ==
    ASSUME NEW n \in Nat, NEW d \in Entries(n), NEW e \in Entries(n), d = e \/ Before(d, e), IsSecretField(d[1])
    PROVE  IsSecretField(e[1])
<1>1. Place(d[1]) <= Place(e[1])
  BY PlaceType DEF Before
<1> QED
  BY <1>1 DEF IsSecretField, Place, Entries, Forms

LEMMA AsMeantNext ==
    ASSUME UNCHANGED items, ~TakenVerbatim => AsMeantBy(settings')
    PROVE  AsMeant'
<1>1. \A e \in DOMAIN items : Value(e)' = Value(e)
  BY DEF Value, HasJsonValue
<1>2. TakenVerbatim' <=> TakenVerbatim
  BY DEF TakenVerbatim, HasJson, HasJsonValue
<1> QED
  BY <1>1, <1>2 DEF AsMeant, AsMeantBy

\* The case without structured values.  A key that is collected is the escaped name
\* of an item that is no path, or the path of one, and the map may hold both.
LEMMA PathsAsMeant == ASSUME Declared, Listed, SetAllConfig, ~HasJson PROVE AsMeant'
<1> DEFINE Map == Collect([e \in DOMAIN items |-> Escape(items[e])])
           At  == {SettingAt(k) : k \in DOMAIN Map}
<1>1. /\ \E last \in [At -> DOMAIN Map] :
            (\A s \in At : SettingAt(last[s]) = s) /\ settings' = [s \in At |-> Map[last[s]]]
      /\ UNCHANGED items
  BY DEF SetAllConfig
<1>2. PICK map : map = Map
  OBVIOUS
<1> HIDE DEF Map
<1>3. PICK at : at = At
  OBVIOUS
<1> HIDE DEF At
<1>4. PICK last \in [at -> DOMAIN map] :
        (\A s \in at : SettingAt(last[s]) = s) /\ settings' = [s \in at |-> map[last[s]]]
  BY <1>1, <1>2, <1>3
<1>5. map = Collect([e \in DOMAIN items |-> Escape(items[e])])
  BY <1>2 DEF Map
<1>6. at = {SettingAt(k) : k \in DOMAIN map}
  BY <1>2, <1>3 DEF At
<1> DEFINE key == [e \in DOMAIN items |-> Escape(items[e])]
<1>7. /\ DOMAIN map = {key[e] : e \in DOMAIN items}
      /\ \A k \in DOMAIN map : \E e \in DOMAIN items :
            /\ key[e] = k /\ map[k] = Value(e)
            /\ \A d \in DOMAIN items : key[d] = k => d = e \/ Before(d, e)
  <2>1. DOMAIN key = DOMAIN items /\ map = Collect(key)
    BY <1>5
  <2> HIDE DEF key
  <2> QED
    BY ONLY <2>1, CollectTakesLast, Declared, Listed
<1>8. \A e \in DOMAIN items : items[e].key \in Spellings /\ items[e].path \in BOOLEAN
  BY ItemsShape
<1>9. ASSUME NEW e \in DOMAIN items PROVE SettingAt(key[e]) = Meant(items[e])
  <2>1. CASE items[e].path
    BY <2>1 DEF Escape, Meant, SettingAt, ParseKey
  <2>2. CASE ~items[e].path
    BY <2>2 DEF Escape, SettingAt, Meant
  <2> QED
    BY <2>1, <2>2
<1> HIDE DEF key
<1>10. at = {Meant(items[e]) : e \in DOMAIN items}
  <2>1. \A k \in DOMAIN map : \E e \in DOMAIN items : SettingAt(k) = Meant(items[e])
    BY <1>7, <1>9
  <2>2. \A e \in DOMAIN items : \E k \in DOMAIN map : SettingAt(k) = Meant(items[e])
    BY <1>7, <1>9
  <2>3. ASSUME NEW s \in at PROVE \E e \in DOMAIN items : s = Meant(items[e])
    BY <1>6, <2>1
  <2>4. ASSUME NEW e \in DOMAIN items PROVE Meant(items[e]) \in at
    BY <1>6, <2>2
  <2>5. \A s : s \in at <=> s \in {Meant(items[e]) : e \in DOMAIN items}
    BY ONLY <2>3, <2>4
  <2> QED
    BY <2>5
<1>11. ASSUME NEW s \in at
      PROVE  \E e \in DOMAIN items : Meant(items[e]) = s /\ map[last[s]] = Value(e)
  <2>1. last[s] \in DOMAIN map /\ SettingAt(last[s]) = s
    BY <1>4
  <2>2. PICK e \in DOMAIN items : key[e] = last[s] /\ map[last[s]] = Value(e)
    BY <1>7, <2>1
  <2> QED
    BY <1>9, <2>1, <2>2
<1>12. ASSUME NEW i \in DOMAIN items, IsSecretField(i[1])
      PROVE  map[last[Meant(items[i])]].secret
  <2>1. \A e \in DOMAIN items : ~items[e].path /\ items[e].secret = IsSecretField(e[1])
    BY <1>12, ItemsShape
  <2> DEFINE s == Meant(items[i])
  <2>2. s \in at /\ last[s] \in DOMAIN map /\ SettingAt(last[s]) = s
    BY <1>10, <1>4
  <2>3. PICK j \in DOMAIN items :
          /\ key[j] = last[s] /\ map[last[s]] = Value(j)
          /\ \A d \in DOMAIN items : key[d] = last[s] => d = j \/ Before(d, j)
    BY <1>7, <2>2
  <2>4. Meant(items[j]) = Meant(items[i])
    BY <1>9, <2>2, <2>3
  <2>5. key[j] = key[i]
    <3>1. items[i].key.name = items[j].key.name
      BY <2>1, <2>4 DEF Meant
    <3>2. \A e \in DOMAIN items :
            key[e] = [name |-> items[e].key.name, escaped |-> TRUE]
      BY <2>1 DEF Escape, key
    <3> QED
      BY <3>1, <3>2
  <2>6. i = j \/ Before(i, j)
    BY <2>3, <2>5
  <2>7. IsSecretField(j[1])
    <3>1. PICK n \in Nat : DOMAIN items \in SUBSET Entries(n)
      BY ItemsShape
    <3> QED
      BY <1>12, <2>6, <3>1, SecretFieldsComeLast
  <2>8. Value(j).secret
    BY <2>1, <2>7 DEF Value
  <2> QED
    BY <2>3, <2>8
<1>13. \A e \in DOMAIN items : Meant(items[e]) \in at
  BY <1>10
<1>14. AsMeantBy([s \in at |-> map[last[s]]])
  BY <1>10, <1>11, <1>12, <1>13 DEF AsMeantBy
<1> QED
  BY <1>14, <1>1, <1>4, AsMeantNext

\* The case with structured values: keys are taken verbatim, so that none may be a path
\* or escaped.
LEMMA VerbatimAsMeant ==
    ASSUME Declared, Listed, UNCHANGED items,
           settings' = Collect([e \in DOMAIN items |-> Verbatim(items[e].key)]), HasJson
    PROVE  AsMeant'
<1> DEFINE key == [e \in DOMAIN items |-> Verbatim(items[e].key)]
           map == Collect(key)
<1>1. /\ DOMAIN map = {key[e] : e \in DOMAIN items}
      /\ \A k \in DOMAIN map : \E e \in DOMAIN items :
            /\ key[e] = k /\ map[k] = Value(e)
            /\ \A d \in DOMAIN items : key[d] = k => d = e \/ Before(d, e)
  BY CollectTakesLast
<1>2. SUFFICES ASSUME ~TakenVerbatim PROVE AsMeantBy(map)
  BY AsMeantNext
<1>3. ASSUME NEW e \in DOMAIN items PROVE key[e] = Meant(items[e])
  <2>1. ~items[e].path /\ ~items[e].key.escaped
    BY <1>2 DEF TakenVerbatim
  <2> QED
    BY <2>1 DEF Verbatim, Meant
<1> HIDE DEF key, map
<1>4. ASSUME NEW i \in DOMAIN items, IsSecretField(i[1])
      PROVE  map[Meant(items[i])].secret
  <2>1. \A e \in DOMAIN items : items[e].secret = IsSecretField(e[1])
    BY <1>4, ItemsShape
  <2>2. PICK j \in DOMAIN items :
          /\ key[j] = key[i] /\ map[key[i]] = Value(j)
          /\ \A d \in DOMAIN items : key[d] = key[i] => d = j \/ Before(d, j)
    BY <1>1
  <2>3. IsSecretField(j[1])
    <3>1. PICK n \in Nat : DOMAIN items \in SUBSET Entries(n)
      BY ItemsShape
    <3>2. i = j \/ Before(i, j)
      BY <2>2
    <3> QED
      BY <1>4, <3>1, <3>2, SecretFieldsComeLast
  <2> QED
    BY <1>3, <2>1, <2>2, <2>3 DEF Value
<1> QED
  BY <1>1, <1>3, <1>4 DEF AsMeantBy

-----------------------------------------------------------------------------
(* Each step keeps the invariant.                                          *)

LEMMA InitCInv == Init => CInv
<1> SUFFICES ASSUME Init PROVE CInv
  OBVIOUS
<1>1. exported = <<>> /\ status = <<>> /\ pc \in {"declared", "applied"} /\ fetching = "none"
  BY DEF Init
<1>2. Copied
  BY <1>1 DEF Copied
<1>3. Declared
  <2>1. NoCredentials \in Credentials /\ NoCredentials.keys = {} /\ NoCredentials.noSecret = {}
    BY DEF NoCredentials, Credentials
  <2>2. \A e \in DOMAIN config : e \in (DOMAIN Forms) \X (1..Len(Keys))
    <3>1. CASE config = <<>>
      BY <3>1
    <3>2. CASE config \in Configs
      <4>1. DOMAIN Keys = 1..Len(Keys)
        BY ConstantAssumption
      <4>2. PICK d \in SUBSET ((DOMAIN Forms) \X (DOMAIN Keys)) : DOMAIN config = d
        BY <3>2 DEF Configs
      <4> QED
        BY <4>1, <4>2
    <3> QED
      BY <3>1, <3>2 DEF Init
  <2> QED
    BY <2>1, <2>2 DEF Init, Declared
<1>4. pc = "applied" => Resolved /\ Listed
  <2> SUFFICES ASSUME pc = "applied" PROVE Resolved /\ Listed
    OBVIOUS
  <2>1. creds = NoCredentials /\ listing = "none"
    BY DEF Init
  <2>2. Resolved
    BY <2>1 DEF Resolved, ResolveGitAuth, NilReference, NoCredentials
  <2>3. Listed
    BY DEF Init, Listed
  <2> QED
    BY <2>2, <2>3
<1> QED
  BY <1>1, <1>2, <1>3, <1>4 DEF CInv

\* What depends on the credentials or the configuration alone.
LEMMA Unchanged ==
    /\ UNCHANGED creds => UNCHANGED <<ResolveGitAuth, NilReference, PodCredentials>>
    /\ UNCHANGED <<config, creds>> => (Declared => Declared')
    /\ UNCHANGED <<creds, listing>> => (Resolved => Resolved')
    /\ UNCHANGED <<config, items>> => (Listed => Listed')
    /\ UNCHANGED <<items, settings>> => (AsMeant => AsMeant')
    /\ UNCHANGED <<exported, status, round>> => (Copied => Copied')
<1>1. UNCHANGED creds => UNCHANGED <<ResolveGitAuth, NilReference, PodCredentials>>
  BY DEF ResolveGitAuth, Resolve, NilReference, PodCredentials
<1>2. UNCHANGED <<config, creds>> => (Declared => Declared')
  BY DEF Declared
<1>3. UNCHANGED <<creds, listing>> => (Resolved => Resolved')
  BY <1>1 DEF Resolved
<1>4. UNCHANGED <<config, items>> => (Listed => Listed')
  BY DEF Listed, UpdateConfig
<1>5. UNCHANGED <<items, settings>> => (AsMeant => AsMeant')
  <2> SUFFICES ASSUME UNCHANGED <<items, settings>>, AsMeant PROVE AsMeant'
    OBVIOUS
  <2> QED
    BY AsMeantNext DEF AsMeant
<1>6. UNCHANGED <<exported, status, round>> => (Copied => Copied')
  BY DEF Copied
<1> QED
  BY <1>1, <1>2, <1>3, <1>4, <1>5, <1>6

LEMMA SetAllConfigMeans == ASSUME CInv, SetAllConfig PROVE AsMeant'
<1>1. Declared /\ Listed /\ UNCHANGED items
  BY DEF CInv, SetAllConfig
<1>2. CASE HasJson /\ settings' = Collect([e \in DOMAIN items |-> Verbatim(items[e].key)])
  BY <1>1, <1>2, VerbatimAsMeant
<1>3. CASE ~HasJson
  BY <1>1, <1>3, PathsAsMeant
<1> QED
  BY <1>2, <1>3 DEF SetAllConfig

\* A secret output has its key in the mask, whichever output of that key is kept.
LEMMA OutputsToSecretMasks == ASSUME OutputsToSecret PROVE Masked'
<1> DEFINE keys == {SecretKey[n] : n \in DOMAIN exported}
<1>1. PICK kept \in [keys -> DOMAIN exported] :
        /\ \A k \in keys : SecretKey[kept[k]] = k
        /\ secret' = [data |-> [k \in keys |-> <<kept[k], round>>], mask |-> Mask(exported)]
  BY DEF OutputsToSecret
<1>2. exported' = exported /\ round' = round
  BY DEF OutputsToSecret
<1>3. ASSUME NEW k \in keys, NEW n \in DOMAIN exported, exported[n], <<kept[k], round>> = <<n, round>>
      PROVE  k \in Mask(exported)
  BY <1>1, <1>3 DEF Mask
<1> QED
  BY <1>1, <1>2, <1>3 DEF Masked

LEMMA MarkStackSucceededCopies == ASSUME Masked, MarkStackSucceeded PROVE Copied'
<1>1. exported' = exported /\ round' = round
  BY DEF MarkStackSucceeded
<1>2. CASE status' = <<>>
  BY <1>2 DEF Copied
<1>3. CASE status' = [k \in DOMAIN secret.data |-> IF k \in secret.mask THEN <<>> ELSE secret.data[k]]
  <2>1. ASSUME NEW k \in DOMAIN secret.data, NEW n \in DOMAIN exported, exported[n]
        PROVE  status'[k] # <<n, round>>
    <3>1. CASE k \in secret.mask
      BY <1>3, <3>1
    <3>2. CASE k \notin secret.mask
      BY <1>3, <2>1, <3>2 DEF Masked
    <3> QED
      BY <3>1, <3>2
  <2> QED
    BY <1>1, <1>3, <2>1 DEF Copied
<1> QED
  BY <1>2, <1>3 DEF MarkStackSucceeded

LEMMA StepCInv == CInv /\ [Next]_vars => CInv'
<1> SUFFICES ASSUME CInv, [Next]_vars PROVE CInv'
  OBVIOUS
<1> USE Unchanged DEF CInv, gitVars, configVars, outputVars
<1>1. CASE SpecInvalid
  BY <1>1 DEF SpecInvalid
<1>2. CASE Panic
  BY <1>2 DEF Panic
<1>3. CASE ApplyWorkspace
  <2>1. Resolved' /\ Listed'
    BY <1>3 DEF ApplyWorkspace, Resolved, Listed, UpdateConfig
  <2> QED
    BY <1>3, <2>1 DEF ApplyWorkspace
<1>4. CASE ApplyRefused
  BY <1>4 DEF ApplyRefused
<1>5. CASE FetchSource
  <2>1. /\ fetching' = RunInit(PodCredentials) /\ UNCHANGED <<creds, listing, configVars, outputVars>>
        /\ pc = "applied" /\ pc' = IF fetching' = "refused" THEN "stalled" ELSE "fetched"
    BY <1>5 DEF FetchSource
  <2>2. UNCHANGED <<ResolveGitAuth, NilReference, PodCredentials>> /\ Resolved' /\ Listed' /\ Copied' /\ Declared'
    BY <2>1
  <2>3. UNCHANGED RunInit(PodCredentials)
    BY <2>2 DEF RunInit
  <2>4. fetching' = RunInit(PodCredentials)' /\ ResolveGitAuth' # "error"
    BY <2>1, <2>2, <2>3 DEF Resolved
  <2> QED
    BY <2>1, <2>2, <2>4
<1>6. CASE SetAllConfig
  BY <1>6, SetAllConfigMeans DEF SetAllConfig, RunInit
<1>7. CASE SetAllConfigFails
  BY <1>7 DEF SetAllConfigFails, RunInit
<1>8. CASE FileAppears
  BY <1>8 DEF FileAppears, RunInit
<1>9. CASE Up
  BY <1>9 DEF Up, RunInit
<1>10. CASE OutputsToSecret
  BY <1>10, OutputsToSecretMasks DEF OutputsToSecret, RunInit
<1>11. CASE MarkStackSucceeded
  BY <1>11, MarkStackSucceededCopies DEF MarkStackSucceeded, RunInit
<1>12. CASE NoOutputs
  <2>1. Copied'
    BY <1>12 DEF NoOutputs, Copied
  <2> QED
    BY <1>12, <2>1 DEF NoOutputs, RunInit
<1>13. CASE UNCHANGED vars
  <2>1. UNCHANGED <<exported, secret, round>> /\ (Masked => Masked')
    BY <1>13 DEF vars, Masked
  <2>2. UNCHANGED <<pc, config, creds, listing, fetching, items, settings, exported, status, round>>
    BY <1>13 DEF vars
  <2>3. UNCHANGED ResolveGitAuth /\ UNCHANGED NilReference /\ UNCHANGED RunInit(PodCredentials)
    BY <2>2 DEF RunInit
  <2> QED
    BY <2>1, <2>2, <2>3
<1> QED
  BY <1>1, <1>2, <1>3, <1>4, <1>5, <1>6, <1>7, <1>8, <1>9, <1>10, <1>11, <1>12, <1>13 DEF Next

-----------------------------------------------------------------------------
(* The theorems.                                                           *)

\* What a Stack or a user's Workspace declares is what the agent sets, each setting
\* from an item that was meant for it and in the form it was given, however many
\* entries, spellings and collisions there are (ConfigAsDeclared).
THEOREM SetsWhatIsDeclared == Spec => []ConfigAsDeclared
<1>1. CInv => ConfigAsDeclared
  <2> SUFFICES ASSUME CInv, pc = "ready", ~TakenVerbatim
               PROVE  AsMeantBy(settings) /\ DOMAIN config \subseteq DOMAIN items
    BY DEF AsMeantBy, ConfigAsDeclared
  <2>1. AsMeant /\ Listed
    BY DEF CInv
  <2> QED
    BY <2>1 DEF AsMeant, Listed, UpdateConfig
<1> QED
  BY <1>1, InitCInv, StepCInv, PTL DEF Spec

\* No declaration in a plain field and no other spelling of the key makes a secret
\* setting plain, and no secret output gets into the status (SecretsStaySecret).
THEOREM KeepsSecrets == Spec => []SecretsStaySecret
<1>1. CInv => SecretsStaySecret
  BY DEF CInv, AsMeant, AsMeantBy, Copied, SecretsStaySecret
<1> QED
  BY <1>1, InitCInv, StepCInv, PTL DEF Spec

\* A pod that clones uses the credentials that the branch was resolved with, and one
\* mode alone is neither refused nor the cause of a panic (SameCredentials).
THEOREM AuthenticatesAlike == Spec => []SameCredentials
<1> DEFINE modes == creds.ways \union (creds.keys \intersect {"ssh", "token", "username"})
           oneMode == \A v, w \in modes : v = w
           fetched == RunInit(PodCredentials)
<1>1. ASSUME CInv, ResolveGitAuth # "error", ~creds.named \/ creds.ways = {},
             ~({"token", "app"} \subseteq creds.ways)
      PROVE  /\ ~NilReference => fetched \in {ResolveGitAuth, "refused"}
             /\ oneMode => ~NilReference /\ fetched # "refused"
  <2>0. /\ creds.ways \subseteq {"ssh", "token", "app", "basic"}
        /\ creds.keys \subseteq {"ssh", "token", "username", "password"}
        /\ creds.noSecret \subseteq creds.ways /\ (creds.keys = {} \/ creds.named)
    BY <1>1 DEF CInv, Declared, Credentials
  <2>1. CASE creds.named /\ creds.ways = {}
    <3>1. PodCredentials = creds.keys /\ ~NilReference
      BY <2>1 DEF PodCredentials, NilReference
    <3>2. fetched \in {ResolveGitAuth, "refused"}
      <4>1. CASE "ssh" \in creds.keys
        BY <2>0, <2>1, <3>1, <4>1 DEF ResolveGitAuth, RunInit
      <4>2. CASE "ssh" \notin creds.keys /\ "token" \in creds.keys
        BY <2>0, <2>1, <3>1, <4>2 DEF ResolveGitAuth, RunInit
      <4>3. CASE "ssh" \notin creds.keys /\ "token" \notin creds.keys
        BY <1>1, <2>0, <2>1, <3>1, <4>3 DEF ResolveGitAuth, RunInit
      <4> QED
        BY <4>1, <4>2, <4>3
    <3>3. oneMode => fetched # "refused"
      BY <2>0, <2>1, <3>1 DEF RunInit
    <3> QED
      BY <3>1, <3>2, <3>3
  <2>2. CASE ~creds.named
    <3>1. creds.keys = {}
      BY <2>0, <2>2
    <3>2. ASSUME NEW w \in creds.ways, creds.ways = {w}
          PROVE  ~NilReference /\ fetched = ResolveGitAuth /\ fetched # "refused"
      <4>1. w \notin creds.noSecret /\ ~NilReference
        BY <1>1, <2>0, <2>2, <3>2 DEF ResolveGitAuth, Resolve, NilReference
      <4>2. PodCredentials = IF w = "basic" THEN {"username", "password"} ELSE {w}
        BY <2>0, <2>2, <3>2, <4>1 DEF PodCredentials
      <4> QED
        BY <2>0, <2>2, <3>2, <4>1, <4>2 DEF ResolveGitAuth, Resolve, RunInit
    <3>3. CASE creds.ways = {}
      <4>1. PodCredentials = {} /\ ~NilReference
        BY <2>2, <3>3 DEF PodCredentials, NilReference
      <4> QED
        BY <2>2, <3>3, <4>1 DEF ResolveGitAuth, RunInit
    <3>4. ASSUME ~NilReference PROVE fetched \in {ResolveGitAuth, "refused"}
      <4>1. PodCredentials = (creds.ways \ ({"basic"} \union (creds.noSecret \intersect {"app"})))
              \union (IF "basic" \in creds.ways THEN {"username", "password"} ELSE {})
        BY <2>2 DEF PodCredentials
      <4>2. "username" \in PodCredentials <=> "basic" \in creds.ways
        BY <2>0, <4>1
      <4>3. /\ "ssh" \in PodCredentials <=> "ssh" \in creds.ways
            /\ "token" \in PodCredentials <=> "token" \in creds.ways
        BY <4>1
      <4>4. "app" \in PodCredentials <=> "app" \in creds.ways /\ "app" \notin creds.noSecret
        BY <4>1
      <4>5. \A w \in creds.ways : w = "app" \/ w \notin creds.noSecret
        BY <3>4 DEF NilReference
      <4> HIDE DEF modes, oneMode
      <4>6. CASE "ssh" \in creds.ways
        BY <2>2, <4>2, <4>3, <4>4, <4>5, <4>6 DEF ResolveGitAuth, Resolve, RunInit
      <4>7. CASE "ssh" \notin creds.ways /\ "token" \in creds.ways
        <5>1. "app" \notin creds.ways
          BY <1>1, <4>7
        <5> QED
          BY <2>2, <4>2, <4>3, <4>4, <4>5, <4>7, <5>1 DEF ResolveGitAuth, Resolve, RunInit
      <4>8. CASE "ssh" \notin creds.ways /\ "token" \notin creds.ways
        BY <1>1, <2>0, <2>2, <3>3, <4>2, <4>3, <4>4, <4>5, <4>8 DEF ResolveGitAuth, Resolve, RunInit
      <4> QED
        BY <4>6, <4>7, <4>8
    <3>5. oneMode => ~NilReference /\ fetched # "refused"
      <4>1. oneMode => creds.ways = {} \/ \E w \in creds.ways : creds.ways = {w}
        BY <3>1
      <4>2. creds.ways = {} => ~NilReference /\ PodCredentials = {}
        BY <2>2 DEF PodCredentials, NilReference
      <4>3. creds.ways = {} => fetched = "none"
        BY <4>2 DEF RunInit
      <4> HIDE DEF oneMode, fetched
      <4> QED
        BY <3>2, <4>1, <4>2, <4>3
    <3> QED
      BY <3>4, <3>5
  <2> QED
    BY <1>1, <2>1, <2>2
<1>2. CInv => SameCredentials
  <2> SUFFICES ASSUME CInv, ~creds.named \/ creds.ways = {}, ~({"token", "app"} \subseteq creds.ways)
               PROVE  /\ pc \in {"fetched", "ready"} => fetching = listing
                      /\ oneMode => pc # "panicked" /\ fetching # "refused"
    BY DEF SameCredentials
  <2>1. pc \in {"fetched", "ready"} =>
          fetching = fetched /\ fetching # "refused" /\ listing = ResolveGitAuth
            /\ ResolveGitAuth # "error" /\ ~NilReference
    BY DEF CInv, Resolved
  <2>2. pc = "panicked" => ResolveGitAuth # "error" /\ NilReference
    BY DEF CInv
  <2>3. fetching = "refused" => fetched = "refused" /\ ResolveGitAuth # "error"
    BY DEF CInv
  <2> HIDE DEF fetched, oneMode
  <2> QED
    BY <1>1, <2>1, <2>2, <2>3
<1> QED
  BY <1>2, InitCInv, StepCInv, PTL DEF Spec
=============================================================================

----------------------------- MODULE SetupProofs -----------------------------
(***************************************************************************)
(* What initialisation leaves behind, for any configurations, any number   *)
(* of calls of initModels, and requests, queries and registrations of      *)
(* creators between any two of its steps; and what the CLI makes of it.    *)
(*                                                                         *)
(* AvailableIsUsable is kept because the three writes to a name come in    *)
(* one order: a new object takes isInit_ away, initModel gives object and  *)
(* isInit_ at once with the config, and a group's config is never asked    *)
(* for a URL.  What else it needs are types: a config names a model, and   *)
(* an object has one of the known classes.                                 *)
(*                                                                         *)
(* AcceptedIsAnswered needs two facts that hold in the middle of a pass    *)
(* too.  A model with a config answers, but for those redone names         *)
(* (Initialised).  And it has its place in the Router, or buildRouter      *)
(* still has an entry for it to go through (Placed, Pending).  When the    *)
(* passes are over nothing is pending, and a plan for a name that is no    *)
(* group holds the name itself (OwnPlan).                                  *)
(***************************************************************************)
EXTENDS Cli, SumTheorems, TLAPS

\* The creators make known classes or nothing.
CreatorsOK == creators \in [Types -> Class \cup {"none"}]

\* What may be on the list.
Names == Seq(Model \cup {NoName})

ConfigOK(c) ==
    /\ c # NoConfig /\ c.type # NoType
    /\ c.model \in Model /\ c.url \in Url \cup {NoUrl}
    /\ c.fallback \in Names /\ c.route \in Names

\* The pass is somewhere in its list.
PassOK ==
    /\ list \in Seq({list[k] : k \in DOMAIN list})
    /\ \A k \in DOMAIN list : ConfigOK(list[k])
    /\ pc # "idle" => at \in DOMAIN list

MapsOK ==
    /\ providers \in [Model -> Object \cup {NoProvider}]
    /\ configs = [m \in Model |-> configs[m]]
    /\ isInit \subseteq Model

IInv == CreatorsOK /\ PassOK /\ MapsOK /\ AvailableIsUsable

-----------------------------------------------------------------------------
(* What a call of initModels is given. *)

\* The function that passes over empty names.
Keeps(f, names) ==
    f = [i \in 0..Len(names) |->
            IF i = 0 THEN <<>>
            ELSE IF names[i] = NoName THEN f[i - 1] ELSE Append(f[i - 1], names[i])]

\* There is one, name by name.
LEMMA KeepsExists ==
    ASSUME NEW names, NEW n \in Nat, Len(names) = n
    PROVE  \E f : Keeps(f, names)
<1> DEFINE Upto(m) == \E f : f = [i \in 0..m |->
                        IF i = 0 THEN <<>>
                        ELSE IF names[i] = NoName THEN f[i - 1] ELSE Append(f[i - 1], names[i])]
           X == {m \in Nat : Upto(m)}
<1>1. 0 \in X
  <2> DEFINE f == [i \in 0..0 |-> <<>>]
  <2>1. f = [i \in 0..0 |->
               IF i = 0 THEN <<>>
               ELSE IF names[i] = NoName THEN f[i - 1] ELSE Append(f[i - 1], names[i])]
    OBVIOUS
  <2> QED
    BY <2>1
<1>2. ASSUME NEW m \in Nat, m \in X PROVE Upto(m + 1)
  <2>1. PICK f : f = [i \in 0..m |->
                    IF i = 0 THEN <<>>
                    ELSE IF names[i] = NoName THEN f[i - 1] ELSE Append(f[i - 1], names[i])]
    BY <1>2
  <2> DEFINE next == IF names[m + 1] = NoName THEN f[m] ELSE Append(f[m], names[m + 1])
             g == [i \in 0..(m + 1) |-> IF i = m + 1 THEN next ELSE f[i]]
  <2>2. \A i \in 0..(m + 1) :
          g[i] = IF i = 0 THEN <<>>
                 ELSE IF names[i] = NoName THEN g[i - 1] ELSE Append(g[i - 1], names[i])
    <3> TAKE i \in 0..(m + 1)
    <3>1. CASE i = m + 1
      <4>1. i # 0 /\ i - 1 = m /\ m \in 0..(m + 1) /\ m # m + 1
        BY <3>1
      <4>2. g[i - 1] = f[m] /\ g[i] = next
        BY <3>1, <4>1
      <4> QED
        BY <3>1, <4>1, <4>2
    <3>2. CASE i # m + 1
      <4>1. i \in 0..m /\ (i # 0 => i - 1 \in 0..m /\ i - 1 \in 0..(m + 1) /\ i - 1 # m + 1)
        BY <3>2
      <4> HIDE DEF next
      <4>2. g[i] = f[i] /\ (i # 0 => g[i - 1] = f[i - 1])
        BY <3>2, <4>1
      <4>3. f[i] = IF i = 0 THEN <<>>
                   ELSE IF names[i] = NoName THEN f[i - 1] ELSE Append(f[i - 1], names[i])
        BY <2>1, <4>1
      <4> QED
        BY <4>2, <4>3
    <3> QED
      BY <3>1, <3>2
  <2>3. g = [i \in 0..(m + 1) |-> g[i]]
    OBVIOUS
  <2> HIDE DEF g
  <2>4. g = [i \in 0..(m + 1) |->
               IF i = 0 THEN <<>>
               ELSE IF names[i] = NoName THEN g[i - 1] ELSE Append(g[i - 1], names[i])]
    BY <2>2, <2>3
  <2> QED
    BY <2>4
<1> HIDE DEF Upto
<1>3. \A m \in Nat : m \in X => m + 1 \in X
  BY <1>2
<1> HIDE DEF X
<1>4. n \in X
  BY <1>1, <1>3, Induction
<1>5. Upto(n)
  BY <1>4 DEF X
<1> QED
  BY <1>5 DEF Upto, Keeps

\* What is left are names of models.
LEMMA NonEmptyOK ==
    ASSUME NEW names \in Names
    PROVE  NonEmpty(names) \in Seq(Model)
<1> DEFINE f == CHOOSE f : Keeps(f, names)
           X == {i \in Nat : i <= Len(names) => f[i] \in Seq(Model)}
<1>0. Len(names) \in Nat /\ \A i \in 1..Len(names) : names[i] \in Model \cup {NoName}
  BY DEF Names
<1>1. Keeps(f, names)
  BY <1>0, KeepsExists
<1>2. NonEmpty(names) = f[Len(names)]
  BY DEF NonEmpty, Keeps
<1> HIDE DEF f
<1>3. \A i \in 0..Len(names) :
        f[i] = IF i = 0 THEN <<>>
               ELSE IF names[i] = NoName THEN f[i - 1] ELSE Append(f[i - 1], names[i])
  BY <1>1 DEF Keeps
<1>4. 0 \in X
  <2>1. 0 \in 0..Len(names)
    BY <1>0
  <2>2. f[0] = <<>>
    BY <1>3, <2>1
  <2>3. <<>> \in Seq(Model)
    OBVIOUS
  <2> QED
    BY <2>2, <2>3
<1>5. ASSUME NEW i \in Nat, i \in X, i + 1 <= Len(names)
      PROVE  f[i + 1] \in Seq(Model)
  <2>1. i + 1 \in 0..Len(names) /\ i + 1 # 0 /\ (i + 1) - 1 = i /\ i <= Len(names) /\ i + 1 \in 1..Len(names)
    BY <1>0, <1>5
  <2>2. f[i + 1] = IF names[i + 1] = NoName THEN f[i] ELSE Append(f[i], names[i + 1])
    BY <1>3, <2>1
  <2>3. f[i] \in Seq(Model)
    BY <1>5, <2>1
  <2>4. names[i + 1] \in Model \cup {NoName}
    BY <1>0, <2>1
  <2> QED
    BY <2>2, <2>3, <2>4
<1>6. \A i \in Nat : i \in X => i + 1 \in X
  BY <1>5
<1> HIDE DEF X
<1>7. Len(names) \in X
  BY <1>0, <1>4, <1>6, Induction
<1> QED
  BY <1>0, <1>2, <1>7 DEF X

\* A list of models' names is one of names.
LEMMA ModelsAreNames == Seq(Model) \subseteq Names
<1> SUFFICES ASSUME NEW s \in Seq(Model) PROVE s \in Names
  OBVIOUS
<1>1. Len(s) \in Nat /\ s \in [1..Len(s) -> Model \cup {NoName}]
  OBVIOUS
<1> QED
  BY <1>1, SeqDef DEF Names

\* What a file lists, once parsed, are configurations.
LEMMA FileOK ==
    ASSUME NEW f \in Files
    PROVE  LET cs == loadFromFile(f)
           IN  cs \in Seq({cs[k] : k \in DOMAIN cs}) /\ \A k \in DOMAIN cs : ConfigOK(cs[k])
<1>1. CASE loadFromFile(f) = <<>>
  BY <1>1
<1>2. CASE loadFromFile(f) # <<>>
  <2>1. f # Unset /\ \A i \in DOMAIN f : parseModel(f[i]) # NoConfig
    BY <1>2 DEF loadFromFile
  <2>2. loadFromFile(f) = [i \in DOMAIN f |-> parseModel(f[i])]
    BY <2>1 DEF loadFromFile
  <2>3. f \in Seq({f[i] : i \in DOMAIN f})
    BY <2>1, EntriesAssumption
  <2>4. DOMAIN f = 1..Len(f) /\ Len(f) \in Nat
    BY <2>3
  <2>5. ASSUME NEW i \in DOMAIN f PROVE ConfigOK(parseModel(f[i]))
    <3>1. parseModel(f[i]) # NoConfig
      BY <2>1
    <3>2. f[i].name # NoName /\ f[i].name \in Model \cup {NoName} /\ f[i].url \in Url \cup {NoUrl}
      BY <3>1, <2>1, EntriesAssumption DEF parseModel
    <3>3. /\ parseModel(f[i]).model = f[i].name /\ parseModel(f[i]).url = f[i].url
          /\ parseModel(f[i]).type = f[i].provider /\ f[i].provider # NoType
          /\ parseModel(f[i]).fallback = NonEmpty(f[i].fallback)
          /\ parseModel(f[i]).route = NonEmpty(f[i].route)
      BY <3>1 DEF parseModel
    <3>4. f[i].fallback \in Names /\ f[i].route \in Names
      BY <2>1, EntriesAssumption DEF Names
    <3>5. NonEmpty(f[i].fallback) \in Names /\ NonEmpty(f[i].route) \in Names
      BY <3>4, NonEmptyOK, ModelsAreNames
    <3> QED
      BY <3>1, <3>2, <3>3, <3>5 DEF ConfigOK
  <2> QED
    BY <2>2, <2>4, <2>5
<1> QED
  BY <1>1, <1>2

\* And so is what a gRPC request lists.
LEMMA RequestOK ==
    ASSUME NEW r \in Requests
    PROVE  LET cs == fromRequest(r)
           IN  cs \in Seq({cs[k] : k \in DOMAIN cs}) /\ \A k \in DOMAIN cs : ConfigOK(cs[k])
<1>1. CASE fromRequest(r) = <<>>
  BY <1>1
<1>2. CASE fromRequest(r) # <<>>
  <2>1. \A i \in DOMAIN r : r[i].name # NoName
    BY <1>2 DEF fromRequest
  <2> DEFINE cs == fromRequest(r)
  <2>2. DOMAIN cs = DOMAIN r /\ \A i \in DOMAIN r : cs[i].model = r[i].name /\ cs[i].url = r[i].url
    BY <2>1 DEF fromRequest
  <2>3. r \in Seq({r[i] : i \in DOMAIN r})
    BY EntriesAssumption
  <2>4. DOMAIN r = 1..Len(r) /\ Len(r) \in Nat
    BY <2>3
  <2>5. cs \in Seq({cs[k] : k \in DOMAIN cs})
    BY <2>1, <2>4 DEF fromRequest
  <2>6. ASSUME NEW i \in DOMAIN r PROVE cs[i] # NoConfig
    BY <2>2, <2>6, NoConfigAssumption DEF ToSet
  <2>7. ASSUME NEW i \in DOMAIN r
        PROVE  cs[i].type # NoType /\ cs[i].fallback \in Names /\ cs[i].route \in Names
    <3>1. /\ cs[i].type = (IF r[i].provider = NoType THEN "openai" ELSE r[i].provider)
          /\ cs[i].fallback = r[i].fallback /\ cs[i].route = <<>>
      BY <2>1 DEF fromRequest
    <3>2. r[i].fallback \in Names
      BY EntriesAssumption DEF Names
    <3>3. <<>> \in Names
      BY DEF Names
    <3> QED
      BY <3>1, <3>2, <3>3, NoTypeAssumption
  <2> QED
    BY <2>1, <2>2, <2>5, <2>6, <2>7, EntriesAssumption DEF ConfigOK
<1> QED
  BY <1>1, <1>2

-----------------------------------------------------------------------------
(* The objects. *)

\* The built-in creators are creators.
LEMMA BuiltinOK == CreatorsOK => registerBuiltinProviders \in [Types -> Class \cup {"none"}]
BY DEF CreatorsOK, registerBuiltinProviders, Types, Class

\* What create returns for a type is an object of a class, or no provider.
LEMMA CreateOK ==
    ASSUME CreatorsOK, NEW type
    PROVE  create(type) \in Object \cup {NoProvider}
<1>1. CASE create(type) # NoProvider
  <2>1. type \in Types /\ registerBuiltinProviders[type] \in Class
    BY <1>1, BuiltinOK DEF create
  <2>2. create(type) = [class |-> registerBuiltinProviders[type], url |-> NoUrl, name |-> NoName,
                        available |-> FALSE]
    BY <2>1, <1>1 DEF create
  <2> QED
    BY <2>1, <2>2 DEF Object
<1> QED
  BY <1>1

\* An initialisation that works makes the object usable, one that fails leaves it alone.
LEMMA InitModelOK ==
    ASSUME NEW c, ConfigOK(c), providers \in [Model -> Object \cup {NoProvider}],
           NEW done \in initModel(c.model, Params(c))
    PROVE  /\ providers[c.model] # NoProvider
           /\ done.object \in Object
           /\ done.ok \in BOOLEAN
           /\ done.ok => /\ done.object.available
                         /\ done.object.name = c.model /\ done.object.url = c.url
           /\ ~done.ok => done.object = providers[c.model]
<1> DEFINE object == providers[c.model]
           params == Params(c)
<1>1. object # NoProvider /\ object \in Object /\ c.model \in Model /\ c.url \in Url \cup {NoUrl}
  BY DEF initModel, ConfigOK
<1>2. done \in {Done(object, params), Undone(object)}
  <2>1. object.class \in Class
    BY <1>1 DEF Object
  <2>2. CASE object.class = "OpenAICompat"
    BY <1>1, <2>2 DEF initModel, initOpenAICompat
  <2>3. CASE object.class = "Claude"
    BY <1>1, <2>3 DEF initModel, initClaude
  <2>4. CASE object.class = "Gemini"
    BY <1>1, <2>4 DEF initModel, initGemini
  <2>5. CASE object.class = "own"
    BY <1>1, <2>5 DEF initModel
  <2> QED
    BY <2>1, <2>2, <2>3, <2>4, <2>5 DEF Class
<1>3. params.base_url = c.url /\ params.model_name = c.model /\ c.model # NoName
  BY <1>1, NoNameAssumption DEF Params
<1>4. CASE done = Done(object, params)
  BY <1>1, <1>3, <1>4 DEF Done, Object
<1>5. CASE done = Undone(object)
  BY <1>1, <1>5 DEF Undone
<1> QED
  BY <1>1, <1>2, <1>4, <1>5

-----------------------------------------------------------------------------
(* The steps of initModels. *)

\* On to the next config stays in the list.
LEMMA OnToOK ==
    ASSUME PassOK, pc # "idle", NEW next, OnTo(next), list' = list
    PROVE  PassOK'
<1>1. DOMAIN list = 1..Len(list) /\ Len(list) \in Nat /\ at \in 1..Len(list)
  BY DEF PassOK
<1>2. at' \in DOMAIN list
  BY <1>1 DEF OnTo
<1> QED
  BY <1>2 DEF PassOK

\* The entry at hand is one of the list.
LEMMA ConfigListed == PassOK /\ pc # "idle" => ConfigOK(Config)
BY DEF PassOK, Config

\* A call of initModels that begins keeps the invariant,
LEMMA CalledOK ==
    ASSUME IInv, NEW cs, Called(cs),
           cs \in Seq({cs[k] : k \in DOMAIN cs}), \A k \in DOMAIN cs : ConfigOK(cs[k])
    PROVE  IInv'
<1>1. PassOK'
  <2>1. list' = cs /\ at' = 1 /\ pc' = IF cs = <<>> THEN "idle" ELSE "register"
    BY DEF Called
  <2>2. cs # <<>> => 1 \in DOMAIN cs
    OBVIOUS
  <2> QED
    BY <2>1, <2>2 DEF PassOK
<1>2. UNCHANGED <<creators, sdk>>
  BY DEF Called
<1> QED
  BY <1>1, <1>2 DEF IInv, CreatorsOK, MapsOK, AvailableIsUsable, Available, Answers, sdk

\* and so does registering an entry's provider,
LEMMA RegisterOK ==
    ASSUME IInv, Register
    PROVE  IInv'
<1>1. PassOK /\ CreatorsOK /\ MapsOK /\ pc # "idle" /\ ConfigOK(Config)
  BY ConfigListed DEF IInv, Register
<1>2. PassOK'
  BY <1>1, OnToOK DEF Register
<1>3. CreatorsOK'
  BY <1>1, BuiltinOK DEF Register, CreatorsOK
<1> DEFINE m == Config.model
           object == create(Config.type)
<1>4. m \in Model /\ object \in Object
  BY <1>1, CreateOK DEF Register, ConfigOK
<1>5. /\ providers' = [providers EXCEPT ![m] = object]
      /\ isInit' = isInit \ {m}
      /\ configs' = configs
  BY DEF Register, registerProvider
<1>6. MapsOK'
  BY <1>1, <1>4, <1>5 DEF MapsOK
<1>7. AvailableIsUsable'
  BY <1>1, <1>4, <1>5 DEF MapsOK, IInv, AvailableIsUsable, Available, Answers
<1> QED
  BY <1>2, <1>3, <1>6, <1>7 DEF IInv

\* initialising it,
LEMMA InitProviderOK ==
    ASSUME IInv, InitProvider
    PROVE  IInv'
<1>1. PassOK /\ CreatorsOK /\ MapsOK /\ pc # "idle" /\ ConfigOK(Config)
  BY ConfigListed DEF IInv, InitProvider
<1>2. PassOK'
  BY <1>1, OnToOK DEF InitProvider
<1>3. CreatorsOK'
  BY <1>1 DEF InitProvider, CreatorsOK
<1> DEFINE m == Config.model
<1>4. PICK done \in initModel(m, Params(Config)) :
        /\ providers' = [providers EXCEPT ![m] = done.object]
        /\ IF done.ok
           THEN isInit' = isInit \cup {m} /\ configs' = [configs EXCEPT ![m] = Config]
           ELSE isInit' = isInit /\ configs' = configs
  BY DEF InitProvider
<1>5. /\ done.object \in Object /\ done.ok \in BOOLEAN
      /\ done.ok => done.object.available /\ done.object.name = m /\ done.object.url = Config.url
      /\ ~done.ok => done.object = providers[m]
  BY <1>1, InitModelOK DEF MapsOK
<1>6. m \in Model /\ Config # NoConfig
  BY <1>1 DEF ConfigOK
<1>7. MapsOK'
  BY <1>1, <1>4, <1>5, <1>6 DEF MapsOK
<1>8. CASE done.ok
  <2>1. SUFFICES ASSUME NEW n \in isInit'
                 PROVE  /\ providers'[n] # NoProvider /\ providers'[n].available /\ providers'[n].name = n
                        /\ configs'[n] # NoConfig
                        /\ configs'[n].route = <<>> => providers'[n].url = configs'[n].url
    BY <1>2, <1>3, <1>7 DEF IInv, AvailableIsUsable, Available, Answers
  <2>2. CASE n = m
    BY <2>2, <1>1, <1>4, <1>5, <1>6, <1>8, NoProviderAssumption DEF MapsOK
  <2>3. CASE n # m
    <3>1. n \in isInit /\ n \in Model
      BY <2>3, <1>1, <1>4, <1>8 DEF MapsOK
    <3>2. providers'[n] = providers[n] /\ configs'[n] = configs[n]
      BY <2>3, <3>1, <1>1, <1>4, <1>8 DEF MapsOK
    <3> QED
      BY <3>1, <3>2 DEF IInv, AvailableIsUsable, Available, Answers
  <2> QED
    BY <2>2, <2>3
<1>9. CASE ~done.ok
  <2>1. providers' = providers /\ isInit' = isInit /\ configs' = configs
    BY <1>1, <1>4, <1>5, <1>6, <1>9 DEF MapsOK
  <2> QED
    BY <2>1, <1>2, <1>3, <1>7 DEF IInv, AvailableIsUsable, Available, Answers
<1> QED
  BY <1>5, <1>8, <1>9

\* and building an entry's group.
LEMMA BuildGroupOK ==
    ASSUME IInv, BuildGroup
    PROVE  IInv'
<1>1. PassOK /\ CreatorsOK /\ MapsOK /\ pc # "idle" /\ ConfigOK(Config)
  BY ConfigListed DEF IInv, BuildGroup
<1>2. PassOK'
  <2>1. DOMAIN list = 1..Len(list) /\ Len(list) \in Nat /\ at \in 1..Len(list)
    BY <1>1 DEF PassOK
  <2>2. CASE at < Len(list)
    BY <2>1, <2>2, <1>1 DEF BuildGroup, PassOK
  <2>3. CASE ~(at < Len(list))
    BY <2>3 DEF BuildGroup, PassOK
  <2> QED
    BY <2>2, <2>3
<1>3. CreatorsOK' /\ providers' = providers /\ isInit' = isInit
  BY <1>1 DEF BuildGroup, CreatorsOK
<1>4. \/ configs' = configs
      \/ Config.route # <<>> /\ configs' = [configs EXCEPT ![Config.model] = Config]
  BY DEF BuildGroup
<1>5. MapsOK'
  BY <1>1, <1>3, <1>4 DEF MapsOK, ConfigOK
<1>6. AvailableIsUsable'
  BY <1>1, <1>3, <1>4 DEF IInv, MapsOK, ConfigOK, AvailableIsUsable, Available, Answers
<1> QED
  BY <1>2, <1>3, <1>5, <1>6 DEF IInv

\* One step of the set-up.
LEMMA NextUsable == IInv /\ [CliNext]_<<vars, setup, cli>> => IInv'
<1> SUFFICES ASSUME IInv, [CliNext]_<<vars, setup, cli>> PROVE IInv'
  OBVIOUS
<1>u. ASSUME UNCHANGED <<creators, sdk, list, at, pc>> PROVE IInv'
  <2>1. CreatorsOK'
    BY <1>u DEF IInv, CreatorsOK
  <2>2. PassOK'
    BY <1>u DEF IInv, PassOK
  <2>3. MapsOK'
    BY <1>u DEF IInv, MapsOK, sdk
  <2>4. AvailableIsUsable'
    BY <1>u DEF IInv, AvailableIsUsable, Available, Answers, sdk
  <2> QED
    BY <2>1, <2>2, <2>3, <2>4 DEF IInv
<1>1. ASSUME NEW f \in Files, initFromConfigFile(f) PROVE IInv'
  BY <1>1, FileOK, CalledOK DEF initFromConfigFile
<1>2. ASSUME NEW r \in Requests, InitModelsRequest(r) PROVE IInv'
  BY <1>2, RequestOK, CalledOK DEF InitModelsRequest
<1>3. ASSUME NEW type \in OwnTypes, NEW class \in {"own", "none"}, RegisterType(type, class) PROVE IInv'
  <2>1. creators' \in [Types -> Class \cup {"none"}]
    BY <1>3 DEF RegisterType, registerType, IInv, CreatorsOK, Class
  <2>2. UNCHANGED <<sdk, list, at, pc>>
    BY <1>3 DEF RegisterType, pass
  <2>3. CreatorsOK'
    BY <2>1 DEF CreatorsOK
  <2>4. PassOK'
    BY <2>2 DEF IInv, PassOK
  <2>5. MapsOK'
    BY <2>2 DEF IInv, MapsOK, sdk
  <2>6. AvailableIsUsable'
    BY <2>2 DEF IInv, AvailableIsUsable, Available, Answers, sdk
  <2> QED
    BY <2>3, <2>4, <2>5, <2>6 DEF IInv
<1>4. CASE Register
  BY <1>4, RegisterOK
<1>5. CASE RegisterSkips
  <2>1. PassOK /\ CreatorsOK /\ pc # "idle"
    BY <1>5 DEF RegisterSkips, IInv
  <2>2. PassOK'
    BY <2>1, <1>5, OnToOK DEF RegisterSkips
  <2>3. CreatorsOK' /\ sdk' = sdk
    BY <2>1, <1>5, BuiltinOK DEF RegisterSkips, CreatorsOK
  <2> QED
    BY <2>2, <2>3 DEF IInv, MapsOK, AvailableIsUsable, Available, Answers, sdk
<1>6. CASE InitProvider
  BY <1>6, InitProviderOK
<1>7. CASE InitSkips
  <2>1. PassOK /\ pc # "idle"
    BY <1>7 DEF InitSkips, IInv
  <2>2. PassOK'
    BY <2>1, <1>7, OnToOK DEF InitSkips
  <2>3. creators' = creators /\ sdk' = sdk
    BY <1>7 DEF InitSkips
  <2> QED
    BY <2>2, <2>3 DEF IInv, CreatorsOK, MapsOK, AvailableIsUsable, Available, Answers, sdk
<1>8. CASE BuildBackend
  <2>1. UNCHANGED <<creators, sdk, list, at>> /\ pc # "idle"
    BY <1>8 DEF BuildBackend
  <2> QED
    BY <2>1 DEF IInv, CreatorsOK, PassOK, ConfigOK, MapsOK, AvailableIsUsable, Available, Answers, sdk
<1>9. CASE BuildGroup
  BY <1>9, BuildGroupOK
<1>10. ASSUME UNCHANGED setup PROVE IInv'
  BY <1>10, <1>u DEF setup, pass
<1>11. ASSUME NEW m \in Model, ServeRequest(m) PROVE IInv'
  BY <1>11, <1>10 DEF ServeRequest
<1>12. CASE Start \/ New \/ Say \/ Exit \/ \E m \in Model : Switch(m)
  BY <1>12, <1>10 DEF Start, New, Say, Exit, Switch
<1>13. CASE UNCHANGED <<vars, setup, cli>>
  BY <1>13, <1>10
<1> QED
  BY <1>1, <1>2, <1>3, <1>4, <1>5, <1>6, <1>7, <1>8, <1>9, <1>11, <1>12, <1>13
     DEF CliNext, SetupNext, SetupStep

\* When the program starts nothing is configured.
LEMMA InitUsable == CliInit => IInv
<1> SUFFICES ASSUME CliInit PROVE IInv
  OBVIOUS
<1>1. CreatorsOK
  BY DEF CliInit, SetupInit, CreatorsOK
<1>2. PassOK
  BY DEF CliInit, SetupInit, PassOK
<1>3. MapsOK /\ isInit = {}
  BY DEF CliInit, SetupInit, MapsOK
<1> QED
  BY <1>1, <1>2, <1>3 DEF IInv, AvailableIsUsable, Available

\* For any configurations, however often and however far they are gone through, and in
\* every state on the way, a model that is offered has its object, its config, and its URL.
THEOREM AvailableCorrect == CliSpec => []AvailableIsUsable
<1>1. IInv => AvailableIsUsable
  BY DEF IInv
<1> QED
  BY <1>1, InitUsable, NextUsable, PTL DEF CliSpec

-----------------------------------------------------------------------------
(* A model that createSession takes is answered. *)

\* The Router's tables, which requests leave alone.
TablesOK == fallback \in [Model -> Names] /\ routes \in [Model -> Names]

\* A config stays behind where an object was initialised, or a group was made.
Initialised ==
    \A m \in Model :
        configs[m] # NoConfig /\ m \notin redone /\ routes[m] = <<>> => Answers(m)

\* What buildRouter still has to go through.
Pending(m) ==
    \/ pc = "init" /\ \E k \in DOMAIN list : list[k].model = m
    \/ pc = "backend" /\ \E k \in DOMAIN list : k >= at /\ list[k].model = m
    \/ pc = "group" /\ \E k \in DOMAIN list : k > at /\ list[k].model = m

\* Each config is in the Router, or will be before this initModels returns.
Placed ==
    \A m \in Model :
        configs[m] # NoConfig => m \in backends \/ routes[m] # <<>> \/ Pending(m)

Accepting == IInv /\ TablesOK /\ Initialised /\ Placed

\* A call that begins, and a skipped entry: nothing is configured, nothing is lost.
LEMMA AcceptingKept ==
    ASSUME Accepting, UNCHANGED <<sdk, redone, backends, fallback, routes>>,
           \A m \in Model : Pending(m) => Pending(m)'
    PROVE  TablesOK' /\ Initialised' /\ Placed'
<1>1. TablesOK' /\ Initialised'
  BY DEF Accepting, TablesOK, Initialised, Answers, sdk
<1>2. Placed'
  BY DEF Accepting, Placed, sdk
<1> QED
  BY <1>1, <1>2

\* The first two passes.
LEMMA AcceptingRegister ==
    ASSUME Accepting, Register
    PROVE  TablesOK' /\ Initialised' /\ Placed'
<1> DEFINE m == Config.model
           object == create(Config.type)
<1>1. MapsOK /\ m \in Model /\ UNCHANGED <<backends, fallback, routes, configs>>
  BY ConfigListed DEF Accepting, IInv, Register, ConfigOK, vars, registry
<1>2. /\ providers' = [providers EXCEPT ![m] = object]
      /\ redone' = IF configs[m] = NoConfig THEN redone ELSE redone \cup {m}
  BY DEF Register, registerProvider
<1>3. TablesOK'
  BY <1>1 DEF Accepting, TablesOK
<1>4. Initialised'
  <2> SUFFICES ASSUME NEW n \in Model, configs'[n] # NoConfig, n \notin redone', routes'[n] = <<>>
               PROVE  Answers(n)'
    BY DEF Initialised
  <2>1. configs[n] # NoConfig /\ n # m /\ n \notin redone /\ routes[n] = <<>>
    BY <1>1, <1>2
  <2>2. Answers(n) /\ providers'[n] = providers[n]
    BY <1>1, <1>2, <2>1 DEF Accepting, Initialised, MapsOK
  <2> QED
    BY <2>2 DEF Answers
<1>5. Placed'
  <2> SUFFICES ASSUME NEW n \in Model, configs'[n] # NoConfig
               PROVE  n \in backends' \/ routes'[n] # <<>>
    BY DEF Placed
  <2>1. ~Pending(n)
    BY DEF Register, Pending
  <2> QED
    BY <1>1, <2>1 DEF Accepting, Placed
<1> QED
  BY <1>3, <1>4, <1>5

\* The second pass: the entry gets its config, and buildRouter is still to come to it.
LEMMA AcceptingInit ==
    ASSUME Accepting, InitProvider
    PROVE  TablesOK' /\ Initialised' /\ Placed'
<1> DEFINE m == Config.model
<1>1. /\ MapsOK /\ PassOK /\ ConfigOK(Config) /\ m \in Model /\ pc = "init"
      /\ UNCHANGED <<backends, fallback, routes, list>>
  BY ConfigListed DEF Accepting, IInv, InitProvider, ConfigOK, vars, registry
<1>2. PICK done \in initModel(m, Params(Config)) :
        /\ providers' = [providers EXCEPT ![m] = done.object]
        /\ IF done.ok
           THEN configs' = [configs EXCEPT ![m] = Config] /\ redone' = redone \ {m}
           ELSE configs' = configs /\ redone' = redone
  BY DEF InitProvider
<1>3. /\ providers[m] # NoProvider /\ done.object \in Object
      /\ done.ok \in BOOLEAN
      /\ done.ok => done.object.available
      /\ ~done.ok => done.object = providers[m]
  BY <1>1, InitModelOK DEF MapsOK
<1>4. TablesOK'
  BY <1>1 DEF Accepting, TablesOK
<1>5. Initialised'
  <2> SUFFICES ASSUME NEW n \in Model, configs'[n] # NoConfig, n \notin redone', routes'[n] = <<>>
               PROVE  Answers(n)'
    BY DEF Initialised
  <2>1. CASE done.ok /\ n = m
    <3>1. providers'[n] = done.object
      BY <1>1, <1>2, <2>1 DEF MapsOK
    <3> QED
      BY <1>3, <2>1, <3>1, NoProviderAssumption DEF Answers
  <2>2. CASE ~(done.ok /\ n = m)
    <3>1. configs'[n] = configs[n] /\ n \notin redone
      BY <1>1, <1>2, <1>3, <2>2 DEF MapsOK
    <3>2. providers'[n] = providers[n]
      BY <1>1, <1>2, <1>3, <2>2 DEF MapsOK
    <3>3. Answers(n)
      BY <1>1, <3>1 DEF Accepting, Initialised
    <3> QED
      BY <3>2, <3>3 DEF Answers
  <2> QED
    BY <2>1, <2>2
<1>6. ASSUME NEW n, \E k \in DOMAIN list : list[k].model = n
      PROVE  Pending(n)'
  <2>1. (pc' = "init" /\ at' = at + 1) \/ (pc' = "backend" /\ at' = 1)
    BY <1>1 DEF InitProvider, OnTo
  <2>2. \A k \in DOMAIN list : k >= 1
    BY <1>1 DEF PassOK
  <2> QED
    BY <1>1, <1>6, <2>1, <2>2 DEF Pending
<1>7. Placed'
  <2> SUFFICES ASSUME NEW n \in Model, configs'[n] # NoConfig
               PROVE  n \in backends' \/ routes'[n] # <<>> \/ Pending(n)'
    BY DEF Placed
  <2>1. CASE n = m
    <3>1. at \in DOMAIN list /\ list[at].model = m
      BY <1>1 DEF PassOK, Config
    <3> QED
      BY <1>6, <2>1, <3>1
  <2>2. CASE n # m
    <3>1. configs[n] # NoConfig
      BY <1>1, <1>2, <2>2 DEF MapsOK
    <3>2. n \in backends \/ routes[n] # <<>> \/ \E k \in DOMAIN list : list[k].model = n
      BY <1>1, <3>1 DEF Accepting, Placed, Pending
    <3> QED
      BY <1>1, <1>6, <3>2
  <2> QED
    BY <2>1, <2>2
<1> QED
  BY <1>4, <1>5, <1>7

\* buildRouter.
LEMMA AcceptingBackend ==
    ASSUME Accepting, BuildBackend
    PROVE  TablesOK' /\ Initialised' /\ Placed'
<1> DEFINE m == Config.model
<1>1. /\ PassOK /\ ConfigOK(Config) /\ m \in Model /\ pc = "backend" /\ at \in DOMAIN list
      /\ UNCHANGED <<configs, providers, redone, list, at>> /\ pc' = "group"
  BY ConfigListed DEF Accepting, IInv, BuildBackend, ConfigOK, sdk, PassOK
<1>2. /\ backends' = backends \cup {m} /\ routes' = routes
      /\ fallback' = [fallback EXCEPT ![m] = Config.fallback]
  BY <1>1 DEF BuildBackend, AddBackend, ConfigOK
<1>3. TablesOK'
  BY <1>1, <1>2 DEF Accepting, TablesOK, ConfigOK
<1>4. Initialised'
  BY <1>1, <1>2 DEF Accepting, Initialised, Answers
<1>5. Placed'
  <2> SUFFICES ASSUME NEW n \in Model, configs'[n] # NoConfig
               PROVE  n \in backends' \/ routes'[n] # <<>> \/ Pending(n)'
    BY DEF Placed
  <2>1. n \in backends \/ routes[n] # <<>> \/ \E k \in DOMAIN list : k >= at /\ list[k].model = n
    BY <1>1 DEF Accepting, Placed, Pending
  <2>2. ASSUME NEW k \in DOMAIN list, k >= at, list[k].model = n, n # m
        PROVE  Pending(n)'
    <3>1. k # at
      BY <2>2 DEF Config
    <3>2. k \in Int /\ at \in Int
      BY <1>1 DEF PassOK
    <3>3. k > at
      BY <2>2, <3>1, <3>2
    <3> QED
      BY <1>1, <2>2, <3>3 DEF Pending
  <2> QED
    BY <1>2, <2>1, <2>2
<1> QED
  BY <1>3, <1>4, <1>5

\* A group has its route from here on, and the entry is done with.
LEMMA AcceptingGroup ==
    ASSUME Accepting, BuildGroup
    PROVE  TablesOK' /\ Initialised' /\ Placed'
<1> DEFINE m == Config.model
<1>1. /\ MapsOK /\ PassOK /\ ConfigOK(Config) /\ m \in Model /\ pc = "group" /\ at \in DOMAIN list
      /\ UNCHANGED <<backends, fallback, providers, redone>>
  BY ConfigListed DEF Accepting, IInv, BuildGroup, ConfigOK, PassOK, AddRoute, vars, registry
<1>2. \/ routes' = routes /\ configs' = configs
      \/ /\ Config.route # <<>> /\ routes' = [routes EXCEPT ![m] = Config.route]
         /\ configs' = [configs EXCEPT ![m] = Config]
  BY DEF BuildGroup, AddRoute, vars
<1>3. TablesOK'
  BY <1>1, <1>2 DEF Accepting, TablesOK, ConfigOK
<1>4. \A n \in Model : /\ routes'[n] = <<>> => routes[n] = <<>> /\ configs'[n] = configs[n]
                       /\ routes[n] # <<>> => routes'[n] # <<>>
                       /\ configs'[n] = configs[n] \/ routes'[n] # <<>>
  BY <1>1, <1>2 DEF Accepting, TablesOK, MapsOK
<1>5. Initialised'
  <2> SUFFICES ASSUME NEW n \in Model, configs'[n] # NoConfig, n \notin redone', routes'[n] = <<>>
               PROVE  Answers(n)'
    BY DEF Initialised
  <2>1. configs[n] # NoConfig /\ n \notin redone /\ routes[n] = <<>>
    BY <1>1, <1>4
  <2> QED
    BY <1>1, <2>1 DEF Accepting, Initialised, Answers
<1>6. Placed'
  <2> SUFFICES ASSUME NEW n \in Model, configs'[n] # NoConfig, routes'[n] = <<>>
               PROVE  n \in backends' \/ Pending(n)'
    BY DEF Placed
  <2>1. configs[n] # NoConfig /\ routes[n] = <<>>
    BY <1>4
  <2>2. n \in backends \/ \E k \in DOMAIN list : k > at /\ list[k].model = n
    BY <1>1, <2>1 DEF Accepting, Placed, Pending
  <2>3. ASSUME NEW k \in DOMAIN list, k > at, list[k].model = n
        PROVE  Pending(n)'
    <3>1. DOMAIN list = 1..Len(list) /\ Len(list) \in Nat
      BY <1>1 DEF PassOK
    <3>2. at < Len(list) /\ k >= at + 1
      BY <1>1, <2>3, <3>1
    <3>3. pc' = "backend" /\ at' = at + 1 /\ list' = list
      BY <3>2 DEF BuildGroup
    <3> QED
      BY <2>3, <3>2, <3>3 DEF Pending
  <2> QED
    BY <1>1, <2>2, <2>3
<1> QED
  BY <1>3, <1>5, <1>6

\* One step of the program.
LEMMA NextAccepting == Accepting /\ [CliNext]_<<vars, setup, cli>> => Accepting'
<1> SUFFICES ASSUME Accepting, [CliNext]_<<vars, setup, cli>>
             PROVE  TablesOK' /\ Initialised' /\ Placed'
  BY NextUsable DEF Accepting
<1>c. ASSUME NEW cs, Called(cs)
      PROVE  TablesOK' /\ Initialised' /\ Placed'
  <2>1. UNCHANGED <<sdk, redone, backends, fallback, routes>> /\ pc = "idle"
    BY <1>c DEF Called, vars, registry
  <2>2. \A m \in Model : ~Pending(m)
    BY <2>1 DEF Pending
  <2> QED
    BY <2>1, <2>2, AcceptingKept
<1>u. ASSUME UNCHANGED <<setup, registry, routes>>
      PROVE  TablesOK' /\ Initialised' /\ Placed'
  <2>1. UNCHANGED <<sdk, redone, backends, fallback, routes, pc, list, at>>
    BY <1>u DEF setup, pass, registry
  <2>2. \A m \in Model : Pending(m) => Pending(m)'
    BY <2>1 DEF Pending
  <2> QED
    BY <2>1, <2>2, AcceptingKept
<1>1. ASSUME NEW f \in Files, initFromConfigFile(f) PROVE TablesOK' /\ Initialised' /\ Placed'
  BY <1>1, <1>c DEF initFromConfigFile
<1>2. ASSUME NEW r \in Requests, InitModelsRequest(r) PROVE TablesOK' /\ Initialised' /\ Placed'
  BY <1>2, <1>c DEF InitModelsRequest
<1>3. ASSUME NEW type \in OwnTypes, NEW class \in {"own", "none"}, RegisterType(type, class)
      PROVE  TablesOK' /\ Initialised' /\ Placed'
  <2>1. UNCHANGED <<sdk, redone, backends, fallback, routes, pc, list, at>>
    BY <1>3 DEF RegisterType, pass, vars, registry
  <2>2. \A m \in Model : Pending(m) => Pending(m)'
    BY <2>1 DEF Pending
  <2> QED
    BY <2>1, <2>2, AcceptingKept
<1>4. CASE Register
  BY <1>4, AcceptingRegister
<1>5. CASE RegisterSkips
  <2>1. UNCHANGED <<sdk, redone, backends, fallback, routes>> /\ pc = "register"
    BY <1>5 DEF RegisterSkips, vars, registry
  <2>2. \A m \in Model : ~Pending(m)
    BY <2>1 DEF Pending
  <2> QED
    BY <2>1, <2>2, AcceptingKept
<1>6. CASE InitProvider
  BY <1>6, AcceptingInit
<1>7. CASE InitSkips
  <2>1. UNCHANGED <<sdk, redone, backends, fallback, routes, list>> /\ pc = "init"
    BY <1>7 DEF InitSkips, vars, registry
  <2>2. (pc' = "init" /\ at' = at + 1) \/ (pc' = "backend" /\ at' = 1)
    BY <1>7, <2>1 DEF InitSkips, OnTo
  <2>3. \A k \in DOMAIN list : k >= 1
    BY DEF Accepting, IInv, PassOK
  <2>4. \A m \in Model : Pending(m) => Pending(m)'
    BY <2>1, <2>2, <2>3 DEF Pending
  <2> QED
    BY <2>1, <2>4, AcceptingKept
<1>8. CASE BuildBackend
  BY <1>8, AcceptingBackend
<1>9. CASE BuildGroup
  BY <1>9, AcceptingGroup
<1>10. ASSUME NEW m \in Model, ServeRequest(m) PROVE TablesOK' /\ Initialised' /\ Placed'
  BY <1>10, <1>u DEF ServeRequest, Round
<1>11. CASE Start \/ New \/ Say \/ Exit \/ \E m \in Model : Switch(m)
  BY <1>11, <1>u DEF Start, New, Say, Exit, Switch, Round, vars
<1>12. CASE UNCHANGED <<vars, setup, cli>>
  BY <1>12, <1>u DEF vars
<1> QED
  BY <1>1, <1>2, <1>3, <1>4, <1>5, <1>6, <1>7, <1>8, <1>9, <1>10, <1>11, <1>12
     DEF CliNext, SetupNext, SetupStep

\* Every plan for a backend that is no group begins with it.
LEMMA OwnPlan ==
    ASSUME TablesOK, NEW m \in Model, routes[m] = <<>>, m \in backends, NEW p \in Plans(m)
    PROVE  m \in ToSet(p)
<1> DEFINE own == <<m>>
<1>1. Members(m) = own /\ Len(own) = 1 /\ own[1] = m /\ DOMAIN own = {1}
  BY DEF Members
<1> HIDE DEF own
<1>2. EligibleAt(own) \cup DownAt(own) = {1}
  BY <1>1 DEF EligibleAt, DownAt
<1>3. PICK order \in BuildOrder(own) :
         p \in {order \o e : e \in UNION {Appended(order, K) : K \in Reads(order, Reserved(own))}}
  BY <1>1 DEF Plans
<1>4. PICK q \in Primaries(own) : \E o \in Arrangements(own, q) : order = [x \in DOMAIN o |-> own[o[x]]]
  BY DEF BuildOrder
<1>5. PICK o \in Arrangements(own, q) : order = [x \in DOMAIN o |-> own[o[x]]]
  BY <1>4
<1>6. Kept(own, q) = {1}
  <2>1. EligibleAt(own) = {} => q = 0 /\ DownAt(own) = {1}
    BY <1>2 DEF Primaries
  <2>2. EligibleAt(own) # {} => q \in EligibleAt(own) /\ EligibleAt(own) = {1}
    BY <1>2 DEF Primaries
  <2> QED
    BY <1>2, <2>1, <2>2 DEF Kept
<1>7. order = <<m>>
  <2>1. Cardinality(Kept(own, q)) = 1
    BY <1>6, FS_Singleton
  <2>2. o \in [1..1 -> {1}]
    BY <1>6, <2>1 DEF Arrangements, Bijection, Injection
  <2>3. order = [x \in 1..1 |-> m]
    BY <1>1, <1>5, <2>2
  <2> QED
    BY <2>3
<1>8. PICK K \in Reads(order, Reserved(own)) : \E e \in Appended(order, K) : p = order \o e
  BY <1>3
<1>9. PICK e \in Appended(order, K) : p = order \o e
  BY <1>8
<1>10. Chained(order, K) \subseteq Model \cup {NoName} /\ IsFiniteSet(Chained(order, K))
  <2>1. K \subseteq {1} /\ order[1] = m
    BY <1>7 DEF Reads
  <2>2. fallback[m] \in Seq(Model \cup {NoName})
    BY DEF TablesOK, Names
  <2>3. ToSet(fallback[m]) \subseteq Model \cup {NoName} /\ IsFiniteSet(ToSet(fallback[m]))
    <3> DEFINE f == fallback[m]
    <3>1. f \in [1..Len(f) -> Model \cup {NoName}] /\ Len(f) \in Nat /\ DOMAIN f = 1..Len(f)
      BY <2>2
    <3> HIDE DEF f
    <3>2. IsFiniteSet(1..Len(f))
      BY <3>1, FS_Interval
    <3>3. f \in Surjection(1..Len(f), ToSet(f))
      BY <3>1 DEF Surjection, ToSet
    <3> QED
      BY <3>1, <3>2, <3>3, FS_Surjection DEF ToSet, f
  <2>4. Chained(order, K) \in SUBSET ToSet(fallback[m])
    BY <2>1 DEF Chained
  <2>5. IsFiniteSet(Chained(order, K))
    BY <2>3, <2>4, FS_Subset
  <2> QED
    BY <2>3, <2>4, <2>5
<1>11. e \in Seq(Model \cup {NoName})
  <2> DEFINE n == Cardinality(Chained(order, K))
  <2>1. n \in Nat
    BY <1>10, FS_CardinalityType
  <2>2. e \in [1..n -> Chained(order, K)]
    BY DEF Appended, Bijection, Injection
  <2> HIDE DEF n
  <2>3. e \in [1..n -> Model \cup {NoName}]
    BY <1>10, <2>2
  <2> QED
    BY <2>1, <2>3, SeqDef
<1>12. <<m>> \in Seq(Model \cup {NoName}) /\ Len(<<m>>) = 1 /\ <<m>>[1] = m
  OBVIOUS
<1>13. p \in Seq(Model \cup {NoName}) /\ Len(p) >= 1 /\ p[1] = m
  <2> DEFINE a == <<m>>
  <2>1. a \in Seq(Model \cup {NoName}) /\ Len(a) = 1 /\ a[1] = m
    BY <1>12
  <2>2. p = a \o e
    BY <1>7, <1>9
  <2> HIDE DEF a
  <2>3. Len(e) \in Nat
    BY <1>11
  <2> QED
    BY <1>11, <2>1, <2>2, <2>3, ConcatProperties
<1>14. 1 \in DOMAIN p
  BY <1>13
<1> QED
  BY <1>13, <1>14 DEF ToSet

\* For any configurations, any number of calls of initModels and any requests between their
\* steps, a model that createSession takes is tried by every plan for it, and answers.
THEOREM AcceptedCorrect == CliSpec => []AcceptedIsAnswered
<1>1. CliInit => Accepting
  <2> SUFFICES ASSUME CliInit PROVE Accepting
    OBVIOUS
  <2>1. IInv
    BY InitUsable
  <2>2. /\ fallback = [m \in Model |-> <<>>] /\ routes = [m \in Model |-> <<>>]
        /\ configs = [m \in Model |-> NoConfig]
    BY DEF CliInit, SetupInit, Init
  <2>3. <<>> \in Names
    BY DEF Names
  <2> QED
    BY <2>1, <2>2, <2>3 DEF Accepting, TablesOK, Initialised, Placed
<1>2. Accepting => AcceptedIsAnswered
  <2> SUFFICES ASSUME Accepting, NEW m \in Model, pc = "idle", Accepts(m), m \notin redone,
                      routes[m] = <<>>
               PROVE  Answers(m) /\ \A p \in Plans(m) : m \in ToSet(p)
    BY DEF AcceptedIsAnswered
  <2>1. configs[m] # NoConfig
    BY DEF Accepts
  <2>2. Answers(m)
    BY <2>1 DEF Accepting, Initialised
  <2>3. m \in backends
    BY <2>1 DEF Accepting, Placed, Pending
  <2> QED
    BY <2>2, <2>3, OwnPlan DEF Accepting
<1> QED
  BY <1>1, <1>2, NextAccepting, PTL DEF CliSpec

-----------------------------------------------------------------------------
(* The CLI. *)

\* While lines are read the only initialisation of a CLI is over.
Settled == program = "cli" /\ pc = "idle" /\ inits >= 1 /\ inits \in Nat

PromptInv ==
    /\ inits \in Nat
    /\ running = "starting" => program = "cli" /\ session = NoName
    /\ running = "reading" => Settled
    /\ session # NoName => Settled
    /\ LinesGoWhereThePromptSays

\* What is settled stays so: nothing but the prompt's own commands is left to happen.
LEMMA NothingElse ==
    ASSUME Settled, SetupNext
    PROVE  FALSE
<1>1. ASSUME NEW f \in Files, initFromConfigFile(f) PROVE FALSE
  BY <1>1 DEF initFromConfigFile, Settled
<1>2. ASSUME NEW r \in Requests, InitModelsRequest(r) PROVE FALSE
  BY <1>2 DEF InitModelsRequest, Settled
<1>3. ASSUME NEW type, NEW class, RegisterType(type, class) PROVE FALSE
  BY <1>3 DEF RegisterType, Settled
<1>4. ASSUME Register \/ RegisterSkips \/ InitProvider \/ InitSkips \/ BuildBackend \/ BuildGroup
      PROVE  FALSE
  BY <1>4 DEF Register, RegisterSkips, InitProvider, InitSkips, BuildBackend, BuildGroup, Settled
<1>5. ASSUME NEW m \in Model, ServeRequest(m) PROVE FALSE
  BY <1>5 DEF ServeRequest, Settled
<1> QED
  BY <1>1, <1>2, <1>3, <1>4, <1>5 DEF SetupNext, SetupStep

\* For any configuration and any lines typed, the session in use is one of the model in
\* the prompt, and that model is accepted.
THEOREM LinesCorrect == CliSpec => []LinesGoWhereThePromptSays
<1>1. CliInit => PromptInv
  BY DEF CliInit, SetupInit, PromptInv, LinesGoWhereThePromptSays
<1>2. PromptInv /\ [CliNext]_<<vars, setup, cli>> => PromptInv'
  <2> SUFFICES ASSUME PromptInv, [CliNext]_<<vars, setup, cli>> PROVE PromptInv'
    OBVIOUS
  <2> USE DEF PromptInv, LinesGoWhereThePromptSays
  <2>u. ASSUME UNCHANGED setup PROVE Settled' = Settled /\ inits' = inits /\ program' = program
                                     /\ \A m : Accepts(m)' = Accepts(m)
    BY <2>u DEF Settled, Accepts, setup, pass, sdk, call
  <2>1. CASE SetupNext /\ UNCHANGED cli
    <3>1. ~Settled
      BY <2>1, NothingElse
    <3>2. inits' \in Nat /\ program' = program
      BY <2>1 DEF SetupNext, SetupStep, initFromConfigFile, InitModelsRequest, Called, RegisterType,
                  Register, RegisterSkips, InitProvider, InitSkips, BuildBackend, BuildGroup,
                  ServeRequest, setup, call
    <3> QED
      BY <2>1, <3>1, <3>2 DEF cli
  <2>2. CASE Start
    BY <2>2, <2>u DEF Start, Settled
  <2>3. CASE New \/ \E m \in Model : Switch(m)
    BY <2>3, <2>u DEF New, Switch, createSession
  <2>4. CASE Say
    BY <2>4, <2>u DEF Say, createSession
  <2>5. CASE Exit
    BY <2>5, <2>u DEF Exit
  <2>6. CASE UNCHANGED <<vars, setup, cli>>
    BY <2>6, <2>u DEF cli
  <2> QED
    BY <2>1, <2>2, <2>3, <2>4, <2>5, <2>6 DEF CliNext
<1>3. PromptInv => LinesGoWhereThePromptSays
  BY DEF PromptInv
<1> QED
  BY <1>1, <1>2, <1>3, PTL DEF CliSpec
=============================================================================

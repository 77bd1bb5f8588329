-------------------------------- MODULE Setup --------------------------------
(***************************************************************************)
(* What becomes of a configuration: ConfigLoader or the gRPC handler turns *)
(* it into a list of configs, ChatSDK::initModels takes that list through  *)
(* ProviderFactory, LLMManager and the Router in three passes, and what    *)
(* they hold afterwards decides which sessions can be created and which    *)
(* requests are answered.                                                  *)
(*                                                                         *)
(* Nothing locks configs_ or LLMManager's maps.  One call of initModels at *)
(* a time is modelled, each write to a map one action, and requests and    *)
(* queries of other gRPC threads between any two of them; that they may    *)
(* also collide inside one map operation is undefined and left out.        *)
(*                                                                         *)
(* Names, types and URLs that are empty strings are the constants No...    *)
(***************************************************************************)
EXTENDS Router

CONSTANTS
    NoName, NoType, NoUrl, Unset,   \* empty strings, and a number left out
    NoConfig, NoProvider,           \* "no entry" in the maps
    Url,
    OwnTypes,    \* the types a program registers creators of its own for
    Files,       \* what initFromConfigFile may read: sequences of entries, or Unset
    Requests,    \* what a gRPC initModels may carry: sequences of entries
    MaxInits     \* bound: how often initModels is called

ASSUME NoNameAssumption == NoName \notin Model
ASSUME NoUrlAssumption == NoUrl \notin Url
\* The empty string is not this one, which the handler puts in its place.
ASSUME NoTypeAssumption == NoType # "openai"
ASSUME MaxInitsAssumption == MaxInits \in Nat
\* Its creator tells whether the built-in ones have been registered.
ASSUME OwnTypesAssumption == "gpt" \notin OwnTypes
\* Configurations are lists of entries.
ASSUME EntriesAssumption ==
    \A l \in (Files \ {Unset}) \cup Requests :
        /\ l \in Seq({l[i] : i \in DOMAIN l})
        /\ \A i \in DOMAIN l : /\ l[i].name \in Model \cup {NoName}
                              /\ l[i].url \in Url \cup {NoUrl}
                              /\ l[i].fallback \in Seq(Model \cup {NoName})
                              /\ l[i].route \in Seq(Model \cup {NoName})

Types == {"openai", "gpt", "claude", "gemini"} \cup OwnTypes

\* A provider: its class (the built-in three, or one of the program's own), endPoint_,
\* modelName_ and isAvailable_.
Class  == {"OpenAICompat", "Claude", "Gemini", "own"}
Object == [class : Class, url : Url \cup {NoUrl}, name : Model \cup {NoName}, available : BOOLEAN]

ASSUME NoProviderAssumption == NoProvider \notin Object

VARIABLES
    program,      \* the program around the SDK: "cli", "server", or any "other"
    creators,     \* ProviderFactory::creators_: the class a type stands for
    initialized,  \* ChatSDK::initialized_
    configs,      \* ChatSDK::configs_
    providers,    \* LLMManager::providers_: class, URL, name and isAvailable_ of the object
    isInit,       \* LLMManager::modelInfo_: the names whose isInit_ is set
    pc,           \* the pass of initModels that is under way, or "idle"
    list, at,     \* the configs it was called with, and the next one
    inits,
    refused,      \* the last initialisation was turned down as a whole
    redone        \* history: names registered again since configs_ was written

sdk   == <<initialized, configs, providers, isInit>>
pass  == <<pc, list, at>>
call  == <<inits, refused>>
setup == <<program, creators, sdk, pass, call, redone>>

SetupInit ==
    /\ Init
    /\ program \in {"cli", "server", "other"}
    /\ creators = [t \in Types |-> "none"]
    /\ initialized = FALSE
    /\ configs = [m \in Model |-> NoConfig]
    /\ providers = [m \in Model |-> NoProvider]
    /\ isInit = {}
    /\ pc = "idle" /\ list = <<>> /\ at = 1
    /\ inits = 0 /\ refused = FALSE
    /\ redone = {}

-----------------------------------------------------------------------------
(* From an entry of the configuration to a Config. *)

\* Empty names in a list are passed over.
NonEmpty(names) ==
    LET kept[i \in 0..Len(names)] ==
            IF i = 0 THEN <<>>
            ELSE IF names[i] = NoName THEN kept[i - 1] ELSE Append(kept[i - 1], names[i])
    IN  kept[Len(names)]

parseModel(item) ==
    IF item.name = NoName \/ item.provider = NoType THEN NoConfig
    ELSE [model |-> item.name, type |-> item.provider, url |-> item.url,
          weight |-> IF item.weight = Unset THEN 1 ELSE item.weight,
          fallback |-> NonEmpty(item.fallback), route |-> NonEmpty(item.route)]

\* One entry without a name or a provider and the whole file counts for
\* nothing; so does a file that cannot be read or has no list of models.
loadFromFile(file) ==
    IF file = Unset \/ \E i \in DOMAIN file : parseModel(file[i]) = NoConfig
    THEN <<>> ELSE [i \in DOMAIN file |-> parseModel(file[i])]

\* The handler's own: protobuf delivers 0 for a weight left out, and has no
\* field for a route.
fromRequest(request) ==
    IF \E i \in DOMAIN request : request[i].name = NoName THEN <<>>
    ELSE [i \in DOMAIN request |->
             [model |-> request[i].name,
              type |-> IF request[i].provider = NoType THEN "openai" ELSE request[i].provider,
              url |-> request[i].url,
              weight |-> IF request[i].weight = Unset THEN 0 ELSE request[i].weight,
              fallback |-> request[i].fallback, route |-> <<>>]]

ASSUME NoConfigAssumption == \A r \in Requests : NoConfig \notin ToSet(fromRequest(r))

-----------------------------------------------------------------------------
(* initModels: three passes over the list. *)

Called(cs) ==
    /\ pc = "idle"
    /\ inits' = inits + 1
    /\ refused' = (cs = <<>>)
    /\ list' = cs /\ at' = 1
    /\ pc' = IF cs = <<>> THEN "idle" ELSE "register"
    /\ UNCHANGED <<vars, program, creators, sdk, redone>>

\* The CLI loads its configuration once, when it starts; a program of its own
\* that uses the SDK may load another.
initFromConfigFile(file) ==
    /\ program # "server"
    /\ inits < IF program = "cli" THEN 1 ELSE MaxInits
    /\ Called(loadFromFile(file))

InitModelsRequest(request) ==
    program = "server" /\ inits < MaxInits /\ Called(fromRequest(request))

Config == list[at]

\* On to the next config, or to the next pass.
OnTo(next) ==
    IF at < Len(list) THEN at' = at + 1 /\ UNCHANGED pc
                      ELSE at' = 1 /\ pc' = next

-----------------------------------------------------------------------------
(* ProviderFactory.  creators has "none" where there is no creator, or one that returns
   no object. *)

registerType(known, type, class) == [known EXCEPT ![type] = class]

\* Once per process: a creator of the program's own for one of these types is
\* lost if it was registered before, and counts if it comes after.
registerBuiltinProviders ==
    IF creators["gpt"] # "none" THEN creators
    ELSE [creators EXCEPT !["openai"] = "OpenAICompat", !["gpt"] = "OpenAICompat",
                          !["claude"] = "Claude", !["gemini"] = "Gemini"]

create(type) ==
    LET known == registerBuiltinProviders
    IN  IF type \notin Types THEN NoProvider
        ELSE IF known[type] = "none" THEN NoProvider
        ELSE [class |-> known[type], url |-> NoUrl, name |-> NoName, available |-> FALSE]

\* A program of its own may bring a class of its own for a type.
RegisterType(type, class) ==
    /\ program = "other" /\ pc = "idle"
    /\ creators[type] # class
    /\ creators' = registerType(creators, type, class)
    /\ UNCHANGED <<vars, program, sdk, pass, call, redone>>

-----------------------------------------------------------------------------
(* The objects: LLMManager, and initModel of each class, which returns whether
   it worked and the object afterwards. *)

\* Mutant: the ModelInfo of a name that is registered again is kept.
registerProviderKeepsInfo(m, object) ==
    /\ providers' = [providers EXCEPT ![m] = object]
    /\ UNCHANGED isInit

\* A new object takes the place of the one a name had, with a ModelInfo of its own.
registerProvider(m, object) ==
    /\ providers' = [providers EXCEPT ![m] = object]
    /\ isInit' = isInit \ {m}

Done(object, params) ==
    [ok |-> TRUE, object |-> [object EXCEPT !.url = params.base_url, !.available = TRUE,
                                            !.name = IF params.model_name = NoName THEN @
                                                     ELSE params.model_name]]
Undone(object) == [ok |-> FALSE, object |-> object]

initOpenAICompat(object, params) ==
    IF "base_url" \in DOMAIN params /\ params.base_url # NoUrl
    THEN Done(object, params) ELSE Undone(object)

\* The same.
initClaude(object, params) ==
    IF "base_url" \in DOMAIN params /\ params.base_url # NoUrl
    THEN Done(object, params) ELSE Undone(object)

\* Both keys must be there, but may be empty.
initGemini(object, params) ==
    IF {"api_key", "base_url"} \subseteq DOMAIN params
    THEN Done(object, params) ELSE Undone(object)

\* What LLMManager::initModel may come to; an unregistered name comes to nothing.
initModel(m, params) ==
    IF providers[m] = NoProvider THEN {}
    ELSE LET object == providers[m] IN
         CASE object.class = "OpenAICompat" -> {initOpenAICompat(object, params)}
           [] object.class = "Claude"       -> {initClaude(object, params)}
           [] object.class = "Gemini"       -> {initGemini(object, params)}
           [] object.class = "own"          -> {Done(object, params), Undone(object)}

\* What initAPIModelProviders passes on; the key may be the empty string.
Params(c) == [api_key |-> "", base_url |-> c.url, model_name |-> c.model]

-----------------------------------------------------------------------------
(* The passes *)

Register ==
    /\ pc = "register"
    /\ create(Config.type) # NoProvider
    /\ creators' = registerBuiltinProviders
    /\ registerProvider(Config.model, create(Config.type))
    /\ redone' = IF configs[Config.model] = NoConfig THEN redone ELSE redone \cup {Config.model}
    /\ OnTo("init")
    /\ UNCHANGED <<vars, program, initialized, configs, list, call>>

RegisterSkips ==
    /\ pc = "register"
    /\ create(Config.type) = NoProvider
    /\ creators' = registerBuiltinProviders
    /\ OnTo("init")
    /\ UNCHANGED <<vars, program, sdk, list, call, redone>>

\* Mutant: a config that fails is kept all the same.
InitProviderKeepsConfig ==
    /\ pc = "init"
    /\ \E done \in IF Config.url = NoUrl THEN {} ELSE initModel(Config.model, Params(Config)) :
         /\ providers' = [providers EXCEPT ![Config.model] = done.object]
         /\ isInit' = IF done.ok THEN isInit \cup {Config.model} ELSE isInit
         /\ configs' = [configs EXCEPT ![Config.model] = Config]
         /\ redone' = redone \ {Config.model}
    /\ OnTo("backend")
    /\ UNCHANGED <<vars, program, creators, initialized, list, call>>

\* The object under this name is initialised: the one of this entry, or one an
\* earlier entry of a known type has left.
InitProvider ==
    /\ pc = "init" /\ Config.url # NoUrl
    /\ \E done \in initModel(Config.model, Params(Config)) :
         /\ providers' = [providers EXCEPT ![Config.model] = done.object]
         /\ IF done.ok
            THEN /\ isInit' = isInit \cup {Config.model}
                 /\ configs' = [configs EXCEPT ![Config.model] = Config]
                 /\ redone' = redone \ {Config.model}
            ELSE UNCHANGED <<isInit, configs, redone>>
    /\ OnTo("backend")
    /\ UNCHANGED <<vars, program, creators, initialized, list, call>>

\* No URL, or no object.
InitSkips ==
    /\ pc = "init"
    /\ Config.url = NoUrl \/ initModel(Config.model, Params(Config)) = {}
    /\ OnTo("backend")
    /\ UNCHANGED <<vars, program, creators, sdk, list, call, redone>>

\* buildRouter: whether or not the provider is there or initialised ...
BuildBackend ==
    /\ pc = "backend"
    /\ IF Config.type = NoType THEN UNCHANGED vars
       ELSE AddBackend([model |-> Config.model, weight |-> Config.weight,
                        fallback |-> Config.fallback])
    /\ pc' = "group"
    /\ UNCHANGED <<program, creators, sdk, list, at, call, redone>>

\* ... and the group, if it is one.  A name that was a group and no longer
\* is one stays one in the router.
BuildGroup ==
    /\ pc = "group"
    /\ IF Config.route = <<>> THEN UNCHANGED <<vars, configs>>
       ELSE /\ AddRoute([route |-> Config.model, members |-> Config.route])
            /\ configs' = [configs EXCEPT ![Config.model] = Config]
    /\ IF at < Len(list)
       THEN pc' = "backend" /\ at' = at + 1 /\ UNCHANGED <<initialized, list>>
       ELSE pc' = "idle" /\ at' = 1 /\ list' = <<>> /\ initialized' = TRUE
    /\ UNCHANGED <<program, creators, providers, isInit, call, redone>>

-----------------------------------------------------------------------------
(* What the rest of ChatSDK makes of it. *)

\* createSession takes the name.
Accepts(m) == initialized /\ configs[m] # NoConfig

\* getAvailableModels.
Available == isInit

\* LLMManager finds the provider of a target and it calls itself available.
Answers(m) == providers[m] # NoProvider /\ providers[m].available

\* One round of a request to model m: the targets before the k-th fail, the
\* k-th answers; or, if k is 0, all fail.  Router's breakers learn of it.
Round(m) ==
    \E p \in Plans(m) : \E k \in 0..Len(p) :
        LET failing == IF k = 0 THEN ToSet(p) ELSE ToSet(SubSeq(p, 1, k - 1))
            used    == IF k = 0 THEN {} ELSE {p[k]}
        IN  /\ used \subseteq {t \in Model : Answers(t)}
            /\ tripped' = [t \in Model |-> IF t \in used THEN FALSE
                                           ELSE tripped[t] \/ t \in failing \cap backends]
            /\ age' = [t \in Model |-> IF t \in failing \cup used THEN 0 ELSE age[t]]
            /\ UNCHANGED <<registry, routes, recoverAfterMs>>

\* A message of another thread, between any two steps of a new initModels.
ServeRequest(m) ==
    /\ program # "cli"
    /\ Accepts(m)
    /\ Round(m)
    /\ UNCHANGED setup

SetupStep ==
    \/ \E f \in Files : initFromConfigFile(f)
    \/ \E r \in Requests : InitModelsRequest(r)
    \/ \E type \in OwnTypes, class \in {"own", "none"} : RegisterType(type, class)
    \/ Register \/ RegisterSkips \/ InitProvider \/ InitSkips
    \/ BuildBackend \/ BuildGroup

SetupNext == SetupStep \/ \E m \in Model : ServeRequest(m)

SetupSpec == SetupInit /\ [][SetupNext]_<<vars, setup>>

-----------------------------------------------------------------------------
(* Properties *)

\* A model that getAvailableModels names can be used: its provider answers and asks
\* its server for the model of that name, it has a config, and unless that is a group's the provider was given its URL;
\* also while initModels is replacing providers, and when that fails half way.
AvailableIsUsable ==
    \A m \in Available :
        /\ Answers(m) /\ providers[m].name = m
        /\ configs[m] # NoConfig
        /\ configs[m].route = <<>> => providers[m].url = configs[m].url

\* Between initialisations, every plan for a model createSession takes tries
\* the model itself, and its provider answers, whichever entries of the lists
\* failed; except where a later entry has replaced the provider without
\* initialising it, or the name is or was a group.
AcceptedIsAnswered ==
    \A m \in Model : pc = "idle" /\ Accepts(m) /\ m \notin redone /\ routes[m] = <<>> =>
        Answers(m) /\ \A p \in Plans(m) : m \in ToSet(p)
=============================================================================

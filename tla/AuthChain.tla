----------------------------- MODULE AuthChain -----------------------------
(***************************************************************************)
(* Chains of authentication steps: AuthManager::execute_chain of           *)
(* src/auth_plugin.rs and AuthChainExecutor::execute_chain of              *)
(* src/auth_chain_executor.rs, over the plugins of src/basic_auth_plugin.rs,*)
(* src/jwt_auth_plugin.rs and src/oauth2_auth_plugin.rs.  The manager takes*)
(* the steps as they are listed and keeps its result over attempts; the    *)
(* executor validates the chain, orders it, retries each step too, and     *)
(* starts every attempt afresh.                                            *)
(***************************************************************************)
EXTENDS Naturals, SequencesExt, DepthFirst

CONSTANTS Chains,       \* the chains to run: [steps |-> <<step>>, strategy |-> ...]
          Plugins,      \* names of the plugins that are registered
          MaxAttempts   \* max_attempts of the RetryConfig

VARIABLES chain, who,   \* the chain and who runs it
          todo,         \* places in the chain of the steps left of this attempt
          attempt,      \* attempts made of the chain, and of the current step
          tries,
          held,         \* names of the steps that have a token
          failed,       \* failed_steps
          ran,          \* history: the steps begun in this attempt, in order, by their places
          requests,     \* history: how often the step at each place asked its plugin
          outcome       \* "idle", "running", "again", "ok" or "error"

chainVars == <<chain, who, todo, attempt, tries, held, failed, ran, requests, outcome>>

ConfigTypes ==
    [type : {"basic"}, username : BOOLEAN, password : BOOLEAN]
    \cup [type : {"jwt"}, secret : BOOLEAN, algorithm : STRING]
    \cup [type : {"oauth2"}, client : BOOLEAN, url : BOOLEAN, grant : STRING,
          username : BOOLEAN, password : BOOLEAN]

\* A chain lists its steps, the same plugin more than once if it likes.
ASSUME ChainAssumption ==
    /\ MaxAttempts \in Nat
    /\ \A c \in Chains :
          /\ c.steps \in Seq(Range(c.steps))
          /\ \A s \in Range(c.steps) :
                s.depends_on \in Seq(Range(s.depends_on)) /\ s.config \in ConfigTypes

FailureStrategy == {"FailFast", "ContinueOnError", "RetryAll"}
StepNames(c) == [i \in DOMAIN c.steps |-> c.steps[i].name]
\* A step is known by the name of its plugin; of two with one name, it is the first.
PlaceOf(c, name) ==
    CHOOSE i \in DOMAIN c.steps :
        c.steps[i].name = name /\ \A j \in DOMAIN c.steps : c.steps[j].name = name => i <= j
StepOf(c, name) == c.steps[PlaceOf(c, name)]

-----------------------------------------------------------------------------
(***************************************************************************)
(* Plugins: "ok", "retry" (an AuthFailure with should_retry) or "fatal".   *)
(***************************************************************************)
\* Answers of a token endpoint: no answer, a status, or a body that is not a token.
Responses == {"none", "200", "400", "429", "503", "unparsable"}

validate_jwt_config(config) ==
    config.secret /\ config.algorithm \in {"HS256", "HS384", "HS512", "RS256", "RS384", "RS512"}
\* Only two of the algorithms that are accepted can sign.
create_mock_jwt(config) == IF config.algorithm \in {"HS256", "RS256"} THEN "ok" ELSE "fatal"

HasCredentials(config) == config.username /\ config.password
validate_oauth2_config(config) ==
    /\ config.client /\ config.url
    /\ config.grant \in {"client_credentials", "password"}
    /\ config.grant = "password" => HasCredentials(config)
request_token(config, response) ==
    IF \/ config.grant \notin {"client_credentials", "password"}
       \/ config.grant = "password" /\ ~HasCredentials(config)
    THEN "fatal"
    ELSE CASE response \in {"none", "429", "503"} -> "retry"
           [] response = "200" -> "ok"
           [] OTHER -> "fatal"

validate_config(config) ==
    CASE config.type = "basic" -> HasCredentials(config)
      [] config.type = "jwt" -> validate_jwt_config(config)
      [] config.type = "oauth2" -> validate_oauth2_config(config)

authenticate(config, response) ==
    CASE config.type = "basic" -> "ok"
      [] config.type = "jwt" -> create_mock_jwt(config)
      [] config.type = "oauth2" -> request_token(config, response)

-----------------------------------------------------------------------------
(***************************************************************************)
(* Before the first step of an attempt                                     *)
(***************************************************************************)
Needs(c) == [x \in Range(StepNames(c)) |-> StepOf(c, x).depends_on]

has_circular_dependencies(c) == Circular(Needs(c))

validate_chain_config(c) ==
    /\ ~has_circular_dependencies(c)
    /\ \A s \in Range(c.steps) :
          s.name \in Plugins /\ Range(s.depends_on) \subseteq Range(StepNames(c))

\* A step follows all it depends on, and then the order is reversed.
calculate_execution_order(c) == Reverse(resolve(Needs(c), StepNames(c)).order)

\* The executor goes through names and looks each up, the manager through the steps.
StepsTried(c) ==
    IF who = "executor"
    THEN LET order == calculate_execution_order(c)
         IN  [k \in DOMAIN order |-> PlaceOf(c, order[k])]
    ELSE [i \in DOMAIN c.steps |-> i]

-----------------------------------------------------------------------------
execute_chain ==
    /\ outcome = "idle"
    /\ outcome' = IF (who = "executor" /\ ~validate_chain_config(chain)) \/ MaxAttempts = 0
                  THEN "error" ELSE IF chain.steps = <<>> THEN "ok" ELSE "running"
    /\ todo' = IF outcome' = "running" THEN StepsTried(chain) ELSE <<>>
    /\ UNCHANGED <<chain, who, attempt, tries, held, failed, ran, requests>>

Step == chain.steps[Head(todo)]
Asks ==
    /\ Range(Step.depends_on) \subseteq held /\ Step.name \in Plugins
    /\ validate_config(Step.config)

\* The dependencies, the plugin, its configuration and the plugin itself may refuse.
execute_single_step(response) ==
    IF Asks THEN authenticate(Step.config, response) ELSE "fatal"

Counts ==
    /\ requests' = IF Asks THEN [requests EXCEPT ![Head(todo)] = @ + 1] ELSE requests
    /\ ran' = IF tries = 0 THEN Append(ran, Head(todo)) ELSE ran

Proceeds ==
    /\ todo' = Tail(todo) /\ tries' = 0
    /\ outcome' = IF Len(todo) = 1 THEN "ok" ELSE "running"
    /\ UNCHANGED attempt

step_succeeds ==
    /\ outcome = "running" /\ todo # <<>> /\ Counts
    /\ \E response \in Responses : execute_single_step(response) = "ok"
    /\ held' = held \cup {Step.name}
    /\ Proceeds
    /\ UNCHANGED <<chain, who, failed>>

\* Broken variant: the last retry counts too.
may_retry_once_more(result, made) == result = "retry" /\ made < MaxAttempts

\* A failure that may go away is tried again while attempts are left.
may_retry(result, made) == result = "retry" /\ made < MaxAttempts - 1

execute_step_with_retry ==
    /\ outcome = "running" /\ todo # <<>> /\ who = "executor" /\ Counts
    /\ \E response \in Responses : may_retry(execute_single_step(response), tries)
    /\ tries' = tries + 1
    /\ UNCHANGED <<chain, who, todo, attempt, held, failed, outcome>>

Fails(response) ==
    /\ execute_single_step(response) # "ok"
    /\ ~(who = "executor" /\ may_retry(execute_single_step(response), tries))

\* Only a required step stops the chain, and not under ContinueOnError.
Stops == Step.required /\ chain.strategy # "ContinueOnError"

step_fails_on ==
    /\ outcome = "running" /\ todo # <<>> /\ ~Stops /\ Counts
    /\ \E response \in Responses : Fails(response)
    /\ failed' = Append(failed, Step.name)
    /\ Proceeds
    /\ UNCHANGED <<chain, who, held>>

\* Whatever the strategy, FailFast too, the chain starts again when the failure may go away.
step_stops_chain ==
    /\ outcome = "running" /\ todo # <<>> /\ Stops /\ Counts
    /\ \E response \in Responses :
          /\ Fails(response)
          /\ IF may_retry(execute_single_step(response), attempt)
             THEN outcome' = "again" /\ attempt' = attempt + 1
             ELSE outcome' = "error" /\ UNCHANGED attempt
    /\ failed' = Append(failed, Step.name)
    /\ todo' = <<>> /\ tries' = 0
    /\ UNCHANGED <<chain, who, held>>

\* After the delay: the executor begins with an empty result, the manager with the old one.
next_attempt ==
    /\ outcome = "again"
    /\ outcome' = "running" /\ todo' = StepsTried(chain) /\ ran' = <<>>
    /\ IF who = "executor" THEN held' = {} /\ failed' = <<>> ELSE UNCHANGED <<held, failed>>
    /\ UNCHANGED <<chain, who, attempt, tries, requests>>

-----------------------------------------------------------------------------
ChainInit ==
    /\ chain \in Chains /\ who \in {"manager", "executor"}
    /\ todo = <<>> /\ attempt = 0 /\ tries = 0 /\ held = {} /\ failed = <<>> /\ ran = <<>>
    /\ requests = [i \in DOMAIN chain.steps |-> 0] /\ outcome = "idle"

ChainNext ==
    \/ execute_chain \/ next_attempt
    \/ step_succeeds \/ execute_step_with_retry \/ step_fails_on \/ step_stops_chain

ChainSpec == ChainInit /\ [][ChainNext]_chainVars

-----------------------------------------------------------------------------
\* The chain's result names its steps only.
ChainTypeOK ==
    /\ held \cup Range(failed) \subseteq Range(StepNames(chain))
    /\ Range(ran) \cup Range(todo) \subseteq DOMAIN chain.steps
    /\ outcome \in {"idle", "running", "again", "ok", "error"} /\ attempt <= MaxAttempts

\* A chain that ends well has an answer for each name its steps have; with the executor,
\* one answer (the manager also lists steps that failed in an earlier attempt or, of two
\* with one name, at the other place).
EveryStepAnswered ==
    outcome = "ok" =>
        /\ Range(StepNames(chain)) = held \cup Range(failed)
        /\ who = "executor" => held \cap Range(failed) = {}

\* A token rests on the tokens that some step of its name depends on.
TokensRest ==
    \A n \in held : \E i \in DOMAIN chain.steps :
        chain.steps[i].name = n /\ Range(chain.steps[i].depends_on) \subseteq held

\* Retries of steps within retries of the chain: a step asks its plugin at most MaxAttempts
\* times for the manager and MaxAttempts squared for the executor.
RequestsBounded ==
    \A i \in DOMAIN requests :
        requests[i] <= IF who = "executor" THEN MaxAttempts * MaxAttempts ELSE MaxAttempts

\* ContinueOnError never ends in an error, once the chain was accepted.
ContinuesOnError ==
    outcome = "error" /\ chain.strategy = "ContinueOnError" =>
        MaxAttempts = 0 \/ (who = "executor" /\ ~validate_chain_config(chain))

\* A configuration that the validation of oauth2 accepts is not refused by the
\* request; of jwt's, only those that name an algorithm which signs.
AcceptedWorks ==
    \A i \in DOMAIN chain.steps :
        LET config == chain.steps[i].config
        IN  /\ validate_config(config)
            /\ config.type = "jwt" => config.algorithm \in {"HS256", "RS256"}
            => authenticate(config, "200") = "ok"

\* Whoever runs a chain, and however often parts of it are retried, its result is sound.
ChainSound ==
    EveryStepAnswered /\ TokensRest /\ RequestsBounded /\ ContinuesOnError /\ AcceptedWorks

\* "Execute steps in dependency order" (src/auth_chain_executor.rs:130): no step is begun
\* before those it depends on.
DependencyOrder ==
    \A i \in DOMAIN ran :
        Range(chain.steps[ran[i]].depends_on) \subseteq
            {chain.steps[ran[j]].name : j \in 1..i - 1}
=============================================================================

---------------------------- MODULE SecretsStore ---------------------------
(***************************************************************************)
(* The keeper's private key: load_secrets, get_secret and the patched      *)
(* load_keeper_config, in one process with several threads.  The sources   *)
(* may be rotated at any time, a read of Vault, AWS or KMS may fail, and   *)
(* threads interleave between reading a key, caching it and setting the    *)
(* environment.  Values are injected into the environment, the default.    *)
(***************************************************************************)
EXTENDS Integers

CONSTANTS
    Keys, NoKey,
    Threads,        \* threads that load the keeper's configuration
    MaxRotations, MaxLoads, MaxProcesses    \* bounds

VARIABLES
    source,         \* what each source holds, NoKey if nothing readable
    environ,        \* the variable ETH_KEEPER_PRIVATE_KEY
    cache,          \* _cache
    loading,        \* the load in progress: next layer and collected key
    asking,         \* thread |-> step and key of its load_keeper_config
    configured,     \* the key the keeper was last given
    raced,          \* two threads, or a thread and a load, ran at once
    rotations, loads, processes

secretsVars == <<source, environ, cache, loading, asking, configured, raced,
                 rotations, loads, processes>>

MaybeKey == Keys \cup {NoKey}
Sources == {"dotenv", "vault", "aws", "kms", "file"}
Layers == {"none", "vault", "aws", "kms", "cache"}
Steps == {"none", "vault", "fetched", "resolved", "check", "set", "return"}

ASSUME SecretsAssumption ==
    /\ NoKey \notin Keys
    /\ MaxRotations \in Nat /\ MaxLoads \in Nat /\ MaxProcesses \in Nat

NotLoading == [layer |-> "none", key |-> NoKey]
NotAsking == [step |-> "none", key |-> NoKey]

\* A remote source answers, or the read fails and counts as nothing.
Read(s) == {source[s], NoKey}

Else(key, default) == IF key # NoKey THEN key ELSE default

\* Mutant: environ[key] = value instead of environ.setdefault(key, value).
Overwritten(old, key) == Else(key, old)

\* os.environ.setdefault, when there is a value.
SetDefault(old, key) == Else(old, key)

Busy(t) == loading # NotLoading \/ \E u \in Threads \ {t} : asking[u] # NotAsking

----------------------------------------------------------------------------
SecretsInit ==
    /\ source = [s \in Sources |-> NoKey]
    /\ environ = NoKey /\ cache = NoKey
    /\ loading = NotLoading
    /\ asking = [t \in Threads |-> NotAsking]
    /\ configured = NoKey /\ raced = FALSE
    /\ rotations = 0 /\ loads = 0 /\ processes = 0

\* The operator changes a source (external).
Rotate(s, key) ==
    /\ rotations < MaxRotations
    /\ source' = [source EXCEPT ![s] = key]
    /\ rotations' = rotations + 1
    /\ UNCHANGED <<environ, cache, loading, asking, configured, raced, loads, processes>>

\* A process starts with the environment its deployment gives it, in which
\* KMS ciphertexts are found as well.
StartProcess(key, wrapped) ==
    /\ processes < MaxProcesses
    /\ environ' = key /\ cache' = NoKey
    /\ source' = [source EXCEPT !["kms"] = wrapped]
    /\ loading' = NotLoading
    /\ asking' = [t \in Threads |-> NotAsking]
    /\ configured' = NoKey /\ raced' = FALSE
    /\ processes' = processes + 1
    /\ UNCHANGED <<rotations, loads>>

Loaded(layer, key) == loading' = [layer |-> layer, key |-> key]

\* _read_dotenv skips a key that the environment has.
LoadDotenv ==
    LET key == IF environ = NoKey THEN source["dotenv"] ELSE NoKey
    IN  /\ loading = NotLoading /\ loads < MaxLoads
        /\ loads' = loads + 1
        /\ Loaded("vault", key)
        /\ environ' = SetDefault(environ, key)
        /\ raced' = (raced \/ \E t \in Threads : asking[t] # NotAsking)
        /\ UNCHANGED <<source, cache, asking, configured, rotations, processes>>

\* Vault and KMS: a later layer wins in the data and loses in the environment.
LoadInjected(layer, next) ==
    /\ loading.layer = layer
    /\ \E key \in Read(layer) :
          /\ Loaded(next, Else(key, loading.key))
          /\ environ' = SetDefault(environ, key)
    /\ UNCHANGED <<source, cache, asking, configured, raced, rotations, loads, processes>>

LoadVault == LoadInjected("vault", "aws")
LoadKms == LoadInjected("kms", "cache")

\* AWS Secrets Manager is never injected into the environment.
LoadAws ==
    /\ loading.layer = "aws"
    /\ \E key \in Read("aws") : Loaded("kms", Else(key, loading.key))
    /\ UNCHANGED <<source, environ, cache, asking, configured, raced, rotations,
                   loads, processes>>

LoadCaches ==
    /\ loading.layer = "cache"
    /\ cache' = Else(loading.key, cache)
    /\ loading' = NotLoading
    /\ UNCHANGED <<source, environ, asking, configured, raced, rotations,
                   loads, processes>>

----------------------------------------------------------------------------
(* load_keeper_config_secure. *)

Step(t, step, key) ==
    /\ asking' = [asking EXCEPT ![t] = [step |-> step, key |-> key]]
    /\ UNCHANGED <<source, loading, rotations, loads, processes>>

\* The configuration comes from the environment, else get_secret is called.
AskKey(t) ==
    /\ asking[t] = NotAsking
    /\ IF environ # NoKey
       THEN /\ configured' = environ
            /\ UNCHANGED <<source, environ, cache, loading, asking, raced,
                           rotations, loads, processes>>
       ELSE /\ Step(t, IF cache # NoKey THEN "resolved" ELSE "vault", cache)
            /\ raced' = (raced \/ Busy(t))
            /\ UNCHANGED <<environ, cache, configured>>

\* get_secret past its cache: the environment once more, then Vault.
FetchKey(t) ==
    /\ asking[t].step = "vault"
    /\ IF environ # NoKey THEN Step(t, "resolved", environ)
       ELSE \E key \in Read("vault") :
              Step(t, IF key # NoKey THEN "fetched" ELSE "resolved", key)
    /\ UNCHANGED <<environ, cache, configured, raced>>

CacheKey(t) ==
    /\ asking[t].step = "fetched"
    /\ cache' = asking[t].key
    /\ Step(t, "resolved", asking[t].key)
    /\ UNCHANGED <<environ, configured, raced>>

\* Without a secret, the key file; without either, no configuration.
ResolveKey(t) ==
    LET key == Else(asking[t].key, source["file"])
    IN  /\ asking[t].step = "resolved"
        /\ Step(t, IF key # NoKey THEN "check" ELSE "none", key)
        /\ UNCHANGED <<environ, cache, configured, raced>>

\* "if not os.getenv(name): os.environ[name] = pk" reads and then writes.
CheckEnviron(t) ==
    /\ asking[t].step = "check"
    /\ Step(t, IF environ = NoKey THEN "set" ELSE "return", asking[t].key)
    /\ UNCHANGED <<environ, cache, configured, raced>>

SetEnviron(t) ==
    /\ asking[t].step = "set"
    /\ environ' = asking[t].key
    /\ Step(t, "return", asking[t].key)
    /\ UNCHANGED <<cache, configured, raced>>

\* The configuration is read again from the environment.
ReturnConfig(t) ==
    /\ asking[t].step = "return"
    /\ configured' = environ
    /\ Step(t, "none", NoKey)
    /\ UNCHANGED <<environ, cache, raced>>

SecretsNext ==
    \/ \E s \in Sources \ {"kms"}, key \in MaybeKey : Rotate(s, key)
    \/ \E key, wrapped \in MaybeKey : StartProcess(key, wrapped)
    \/ LoadDotenv \/ LoadVault \/ LoadAws \/ LoadKms \/ LoadCaches
    \/ \E t \in Threads :
          \/ AskKey(t) \/ FetchKey(t) \/ CacheKey(t) \/ ResolveKey(t)
          \/ CheckEnviron(t) \/ SetEnviron(t) \/ ReturnConfig(t)

SecretsSpec == SecretsInit /\ [][SecretsNext]_secretsVars

----------------------------------------------------------------------------
SecretsTypeOK ==
    /\ source \in [Sources -> MaybeKey]
    /\ {environ, cache, configured} \subseteq MaybeKey
    /\ loading \in [layer : Layers, key : MaybeKey]
    /\ asking \in [Threads -> [step : Steps, key : MaybeKey]]
    /\ raced \in BOOLEAN
    /\ {rotations, loads, processes} \subseteq Nat

\* A process signs with one key for its life, however the sources are rotated,
\* loaded again or fail: a keeper whose account changed between a quote and its
\* transaction would sign for the wrong taker.  Only threads that look for the
\* key at the same time can change it, between the test and the assignment in
\* load_keeper_config_secure.
OneKeyPerProcess ==
    [][(configured # NoKey /\ configured' # configured) =>
          (raced \/ processes' # processes)]_secretsVars
=============================================================================

----------------------------- MODULE MCScheduler -----------------------------
(* Scheduler over a small fleet; Fleet over small accounts, source lists   *)
(* and hashes; Permissions over small configurations; Pacing over small    *)
(* policies.                                                               *)
EXTENDS Scheduler, Fleet, Permissions, Pacing

CONSTANTS i1, i2, broken

DB(region, id, api, tags) == [region |-> region, id |-> id, api |-> api, tags |-> tags]

Prod == [k \in {"env"} |-> "prod"]
Test == [k \in {"env"} |-> "test"]

DBs == {DB("east", "a", "aurora", Prod), DB("east", "b", "postgres", Test),
        DB("west", "a", "mariadb", Prod), DB("west", "b", "oracle", Prod)}

NoDiscovery == [on |-> FALSE, all |-> FALSE, tags |-> NoTags, exclude |-> NoTags]
ByTag       == [NoDiscovery EXCEPT !.on = TRUE, !.tags = Prod]
AllButTest  == [NoDiscovery EXCEPT !.on = TRUE, !.all = TRUE,
                                   !.exclude = [k \in {"env"} |-> "test"]]

Source(role, engine, regions, instances, discover, audit) ==
    [role |-> role, engine |-> engine, region |-> "", regions |-> regions, instances |-> instances,
     discover |-> discover, audit |-> audit]

Blocks == {Source(Own, "", <<"east">>, {"a"}, ByTag, TRUE),
           Source(Own, "mysql", <<"east", "west">>, {"a"}, NoDiscovery, FALSE),
           Source(Own, "", <<"west", "east">>, {}, AllButTest, FALSE),
           Source("auditor", "", <<"east">>, {}, AllButTest, FALSE)}

Sources == {Expand(x) : x \in Blocks} \union {Expand(x) \o Expand(y) : x, y \in Blocks}

\* The account of role auditor may have an instance with an id of the other's.
Fleets == {[role \in {Own, "auditor"} |-> IF role = Own THEN own ELSE other] :
             own \in SUBSET DBs, other \in {{}, {DB("east", "a", "postgres", Prod)}}}

\* Each process wins once, the first with equal weights; instances named b
\* weigh the same for every process.
Hashes   == [{"east", "west"} -> {<<0, 0, 0>>, <<0, 1, 1>>, <<0, 0, 1>>}]
Weigh(h) == [k \in {"east", "west"} \X {"a", "b"} |-> IF k[2] = "a" THEN h[k[1]] ELSE <<1, 1, 1>>]

ASSUME FleetIsShared ==
    \A sources \in Sources :
        /\ \A i \in DOMAIN sources : ValidSource(sources[i])
        /\ \A rds \in {r \in Fleets : Resolvable(r, sources)},
                h \in Hashes, n \in 1 .. 3 :
              /\ SharesTile(rds, sources, n, Weigh(h))
              /\ OneSpecPerInstance(rds, sources, AllOfIt, Weigh(h))

ASSUME FleetGrows ==
    \A n \in 1 .. 3 : \A w \in [1 .. (n + 1) -> 0 .. 2] : OnlyTheNewcomerTakes(n, w)

-----------------------------------------------------------------------------
Ingested == {[Source(role, "", <<>>, ids, discover, FALSE) EXCEPT !.region = region] :
               region \in {"east", "west"}, ids \in {{}, {"a"}}, role \in {Own, "auditor"},
               discover \in {NoDiscovery, AllButTest}}

ValidSets == {set \in {{x, y} : x, y \in Ingested} : \A src \in set : ValidSource(src)}

S3(bucket, prefix, kms, role) ==
    [bucket |-> bucket, prefix |-> prefix, region |-> "west", kms |-> kms, role |-> role]

Archives == {S3("logs", prefix, kms, role) :
               prefix \in {<<>>, <<"p">>, <<"p", "/">>, <<"p", "/", "/">>, <<"/", "p">>},
               kms \in {<<>>, <<"k">>, <<"east", "k">>}, role \in {Own, "auditor"}}

Copies == {{}, {S3("copy", <<"c">>, <<>>, Own)}, {S3("copy", <<"p">>, <<"k">>, "writer")}}

Setups == {[sources |-> sources, sinks |-> {s} \union copies] :
             sources \in ValidSets, s \in Archives, copies \in Copies}

ASSUME PolicySuffices ==
    \A cfg \in Setups :
        /\ RunIsAllowed(cfg, {"a", "b"}, <<"a", "/", "log">>)
        /\ DeepIsAllowed(cfg)
        /\ \A region \in {"east", "west"}, id \in {"a", "b"} : NoOtherLogs(cfg, region, id)

\* The one prefix whose objects the policy misses: "/" stands for no prefix
\* in the keys, and for itself in the ARN.
ASSUME SlashIsNotCovered ==
    \A sources \in ValidSets :
        ~RunIsAllowed([sources |-> sources, sinks |-> {S3("logs", <<"/">>, <<>>, Own)}],
                      {}, <<"a", "/", "log">>)

-----------------------------------------------------------------------------
ASSUME PollsArePaced ==
    \A p \in [poll : 1 .. 12, max : 0 .. 12, mult : {0, 11, 15, 20, 50}, ceiling : 1 .. 12] :
        ValidPolls(p) => (NeverFaster(p) <=> 5 * p.poll <= 4 * Ceiling(p))

\* Waits are defined as long as the last one before the cap of max_wait fits
\* a Duration; when max_attempts goes further, one panics.
ASSUME RetriesWait ==
    \A policy \in [attempts : -1 .. 9, init : -1 .. 3, max : -1 .. 40, mult : 0 .. 3] :
        LET r == Usable(policy)  top == 4095
        IN  WaitsAreDefined(r, top) <=> r.init * r.mult ^ AtLeast(r.attempts - 2, 0) <= top
=============================================================================

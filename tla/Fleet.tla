-------------------------------- MODULE Fleet --------------------------------
(***************************************************************************)
(* Which instances a process ingests: specResolver.Resolve                 *)
(* (internal/app/app.go) over the sources of its configuration             *)
(* (internal/config), the DB instances RDS lists in a region               *)
(* (internal/source/rds/discovery.go) and the process's shard              *)
(* (internal/shard).  Scheduler takes the result as its fleet.             *)
(*                                                                         *)
(* rds is, for each role a source may assume, the set of DB records        *)
(* [region, id, api, tags] of the role's account: api is the engine's AWS  *)
(* name, tags a function from tag keys to values.  A source is a record    *)
(* [role, engine, region, regions, instances, discover, audit]; "" is a    *)
(* role, an engine or a region left out, regions a sequence, instances a   *)
(* set of ids, and discover a record [on, all, tags, exclude].             *)
(***************************************************************************)
EXTENDS Integers, Sequences, FiniteSets

MaxShards    == 1024
MaxInstances == 500

-----------------------------------------------------------------------------
(* shard.Shard: [index, count].                                            *)

IsShard(s) == s.count \in 1 .. MaxShards /\ s.index \in 1 .. s.count
AllOfIt    == [index |-> 1, count |-> 1]

\* weigh[j], any hash of the key and of j, is process j's weight for it.
\* The heaviest wins, the first of equal ones.
Winner(weigh, n) ==
    CHOOSE j \in 1 .. n :
        /\ \A k \in 1 .. n : weigh[k] <= weigh[j]
        /\ \A k \in 1 .. (j - 1) : weigh[k] < weigh[j]

Owns(s, weigh) == s.count <= 1 \/ Winner(weigh, s.count) = s.index

-----------------------------------------------------------------------------
(* The listing of a region.                                                *)

NormalizeEngine(api) ==
    CASE api \in {"postgres", "aurora-postgresql"}       -> "postgres"
      [] api \in {"mysql", "aurora-mysql", "aurora"}     -> "mysql"
      [] api = "mariadb"                                 -> "mariadb"
      [] OTHER                                           -> ""

\* A tag that is not there reads as "".
TagsMatch(want, tags) ==
    \A k \in DOMAIN want : want[k] = IF k \in DOMAIN tags THEN tags[k] ELSE ""

Excluded(exclude, tags) ==
    \E k \in DOMAIN exclude \intersect DOMAIN tags : exclude[k] \in {"*", tags[k]}

ListInstances(account, region, engine, tags, exclude) ==
    {db \in account :
        /\ db.region = region
        /\ NormalizeEngine(db.api) # ""
        /\ engine \in {"", NormalizeEngine(db.api)}
        /\ TagsMatch(tags, db.tags)
        /\ ~Excluded(exclude, db.tags)}

NoTags == [k \in {} |-> ""]

-----------------------------------------------------------------------------
(* Sources.                                                                *)

\* Load: one source for each entry of regions, unless region is set too.
Expand(src) ==
    IF src.regions = <<>> \/ src.region # "" THEN <<src>>
    ELSE [i \in DOMAIN src.regions |->
            [src EXCEPT !.region = src.regions[i], !.regions = <<>>]]

\* Validate's rules for one source of an expanded configuration.
ValidSource(src) ==
    /\ src.engine \in {"", "postgres", "mysql", "mariadb"}
    /\ src.region # "" /\ src.regions = <<>>
    /\ src.instances # {} \/ src.discover.on
    /\ src.discover.on => src.discover.all \/ DOMAIN src.discover.tags # {}

\* A listed instance without an engine must be in RDS's listing.
Unresolved(rds, src) ==
    IF src.engine # "" THEN {}
    ELSE src.instances \ {db.id : db \in ListInstances(rds[src.role], src.region, "", NoTags, NoTags)}

Resolvable(rds, sources) == \A i \in DOMAIN sources : Unresolved(rds, sources[i]) = {}

EngineOf(rds, src, id) ==
    IF src.engine # "" THEN src.engine
    ELSE NormalizeEngine((CHOOSE db \in rds[src.role] : db.region = src.region /\ db.id = id).api)

InstanceSpec(src, id, engine) ==
    [role |-> src.role, region |-> src.region, id |-> id, engine |-> engine,
     audit |-> src.audit]

Listed(rds, src) == {InstanceSpec(src, id, EngineOf(rds, src, id)) : id \in src.instances}

Discovered(rds, src) ==
    IF ~src.discover.on THEN {}
    ELSE {InstanceSpec(src, db.id, NormalizeEngine(db.api)) :
            db \in ListInstances(rds[src.role], src.region, src.engine,
                                 src.discover.tags, src.discover.exclude)}

\* The role is not part of the key: of two accounts' instances with one id in
\* one region the first is taken.
Key(spec) == <<spec.region, spec.id>>

\* What a source offers: its instance list goes before what it discovers.
Offers(rds, src) ==
    Listed(rds, src) \union
    {d \in Discovered(rds, src) : d.id \notin src.instances}

\* The first source that offers an instance decides how it is read.
Taken(rds, sources, i) ==
    {spec \in Offers(rds, sources[i]) :
        \A j \in 1 .. (i - 1) : \A other \in Offers(rds, sources[j]) : Key(other) # Key(spec)}

\* The shard's part of what all the sources offer; weigh[key][j] as above.
Share(rds, sources, shard, weigh) ==
    {spec \in UNION {Taken(rds, sources, i) : i \in DOMAIN sources} :
        Owns(shard, weigh[Key(spec)])}

(* Resolve returns Share, or an error unless this holds.                   *)
Resolves(rds, sources, shard, weigh) ==
    /\ IsShard(shard)
    /\ Resolvable(rds, sources)
    /\ Cardinality(Share(rds, sources, shard, weigh)) <= MaxInstances

-----------------------------------------------------------------------------
(* Properties.                                                             *)

(* n processes split a fleet with no overlap (config.go, Runtime.Shard;    *)
(* shard.go:1-5): what they ingest is disjoint, and together it is what    *)
(* one unsharded process would, each instance read the same way; and when  *)
(* that one could start, all of them can.                                  *)
SharesTile(rds, sources, n, weigh) ==
    LET shard(i) == [index |-> i, count |-> n]
        share(i) == Share(rds, sources, shard(i), weigh)
    IN  Resolves(rds, sources, AllOfIt, weigh) =>
            /\ \A i \in 1 .. n : Resolves(rds, sources, shard(i), weigh)
            /\ \A i, j \in 1 .. n : i # j => share(i) \intersect share(j) = {}
            /\ UNION {share(i) : i \in 1 .. n} = Share(rds, sources, AllOfIt, weigh)

(* The union of the sources has one spec per instance (config.go:29-31),   *)
(* so no two workers of one process read the same files, whatever sources  *)
(* list it, discover it or do both.                                        *)
OneSpecPerInstance(rds, sources, shard, weigh) ==
    \A s, t \in Share(rds, sources, shard, weigh) : Key(s) = Key(t) => s = t

(* A process more takes instances, and moves none between the others       *)
(* (shard.go:4-5).                                                         *)
OnlyTheNewcomerTakes(n, w) ==
    Winner(w, n + 1) \in {Winner(w, n), n + 1}
=============================================================================

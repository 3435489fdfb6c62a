----------------------------- MODULE Permissions -----------------------------
(***************************************************************************)
(* `rdstail iam-policy`: the permissions generated from a configuration    *)
(* (internal/iampolicy) against the AWS calls the program makes with that  *)
(* configuration: a run (internal/app, internal/pipeline, internal/sink)   *)
(* and `validate --deep` (internal/validate).                              *)
(*                                                                         *)
(* A configuration is [sources, sinks], two sets.  Sources are as in       *)
(* Fleet, role "" being the process's own credentials; an S3 sink is       *)
(* [bucket, prefix, region, kms, role], and sinks of the other types call  *)
(* no AWS service.  An ARN is a sequence; a grant on it is one on all that *)
(* begin with it, which is what the "*" of the generated ARNs do: names of *)
(* instances, buckets and roles are one element, prefixes and keys of      *)
(* objects one for each character.                                         *)
(***************************************************************************)
EXTENDS Integers, Sequences, SequencesExt

Own == ""

Everything == << >>

\* kmsARN: a key is a full ARN <<region, id>> or, for <<id>>, the sink's region's.
KmsARN(region, key) == <<"kms">> \o (IF Len(key) = 1 THEN <<region>> ELSE << >>) \o key

-----------------------------------------------------------------------------
(* Generate: the statements of the policy ...                              *)

Grant(actions, arns) == [action : actions, on : arns]

OwnSources(cfg) == {src \in cfg.sources : src.role = Own}
OwnSinks(cfg)   == {s \in cfg.sinks : s.role = Own}

\* Regions with a discovering source are granted whole.
LogResources(cfg) ==
    LET wild == {src.region : src \in {x \in OwnSources(cfg) : x.discover.on}}
    IN  {<<"db", region>> : region \in wild} \union
        UNION {{<<"db", src.region, id>> : id \in src.instances} :
                 src \in {x \in OwnSources(cfg) : x.region \notin wild}}

SourceGrants(cfg) ==
    IF OwnSources(cfg) = {} THEN {}
    ELSE Grant({"rds:DescribeDBInstances", "rds:DescribeEvents"}, {Everything}) \union
         Grant({"rds:DescribeDBLogFiles", "rds:DownloadDBLogFilePortion"}, LogResources(cfg))

ObjectARN(s) == <<"object", s.bucket>> \o s.prefix

KmsGrants(s) ==
    IF s.kms = << >> THEN {}
    ELSE Grant({"kms:Encrypt", "kms:GenerateDataKey"}, {KmsARN(s.region, s.kms)})

SinkGrants(cfg, deep) ==
    Grant({"s3:PutObject"}, {ObjectARN(s) : s \in OwnSinks(cfg)}) \union
    UNION {KmsGrants(s) : s \in OwnSinks(cfg)} \union
    (IF deep THEN Grant({"s3:ListBucket"}, {<<"bucket", s.bucket>> : s \in OwnSinks(cfg)})
     ELSE {})

AssumeRoles(cfg) == {x.role : x \in cfg.sources \union cfg.sinks} \ {Own}

Generate(cfg, deep) ==
    SourceGrants(cfg) \union SinkGrants(cfg, deep) \union
    Grant({"sts:GetCallerIdentity"}, {Everything}) \union
    Grant({"sts:AssumeRole"}, {<<"role", role>> : role \in AssumeRoles(cfg)})

\* ... and its notes: what an assumed role must be granted where it lives.
Notes(cfg, role) ==
    (IF \E src \in cfg.sources : src.role = role
     THEN Grant({"rds:DescribeDBInstances", "rds:DescribeEvents",
                 "rds:DescribeDBLogFiles", "rds:DownloadDBLogFilePortion"}, {Everything})
     ELSE {}) \union
    UNION {Grant({"s3:PutObject"}, {ObjectARN(s)}) \union KmsGrants(s) :
             s \in {x \in cfg.sinks : x.role = role}}

-----------------------------------------------------------------------------
(* The calls.                                                              *)

Call(by, action, arn) == [by |-> by, action |-> action, on |-> arn]

\* awsx.NewConfig.
Assume(role) == IF role = Own THEN {} ELSE {Call(Own, "sts:AssumeRole", <<"role", role>>)}

\* Resolve lists the region's instances to discover some or to learn the
\* engines of its list; found are the ids it may see.
ResolveCalls(src) ==
    IF src.discover.on \/ (src.engine = "" /\ src.instances # {})
    THEN {Call(src.role, "rds:DescribeDBInstances", <<"account", src.region>>)} ELSE {}

WorkerCalls(src, found) ==
    {Call(src.role, action, <<"db", src.region, id>>) :
        action \in {"rds:DescribeDBLogFiles", "rds:DownloadDBLogFilePortion"},
        id \in src.instances \union (IF src.discover.on THEN found ELSE {})}

WatchCalls(src) == {Call(src.role, "rds:DescribeEvents", <<"account", src.region>>)}

\* s3.New and buildKey: one slash at the end of the prefix is dropped, and
\* put back before the rest of the key unless nothing is left of the prefix.
ObjectKey(prefix, rest) ==
    LET dir == IF prefix # << >> /\ Last(prefix) = "/" THEN Front(prefix) ELSE prefix
    IN  IF dir = << >> THEN rest ELSE dir \o <<"/">> \o rest

WriteCalls(s, rest) ==
    {Call(s.role, "s3:PutObject", <<"object", s.bucket>> \o ObjectKey(s.prefix, rest))}
    \union (IF s.kms = << >> THEN {}
            ELSE {Call(s.role, "kms:GenerateDataKey", KmsARN(s.region, s.kms))})

RunCalls(cfg, found, rest) ==
    UNION {Assume(x.role) : x \in cfg.sources \union cfg.sinks} \union
    UNION {ResolveCalls(src) \union WorkerCalls(src, found) \union WatchCalls(src) :
             src \in cfg.sources} \union
    UNION {WriteCalls(s, rest) : s \in cfg.sinks}

\* validate.Deep: its probes of the credentials, the sources and the sinks.
ProbeSTS(src)     == {Call(src.role, "sts:GetCallerIdentity", <<"account", src.region>>)}
ProbeSource(src)  == {Call(src.role, "rds:DescribeDBLogFiles", <<"db", src.region, id>>) :
                        id \in src.instances}
ProbeSink(s)      == {Call(s.role, "s3:ListBucket", <<"bucket", s.bucket>>)}

DeepCalls(cfg) ==
    UNION {Assume(x.role) : x \in cfg.sources \union cfg.sinks} \union
    UNION {ProbeSTS(src) \union ProbeSource(src) : src \in cfg.sources} \union
    UNION {ProbeSink(s) : s \in cfg.sinks}

-----------------------------------------------------------------------------
(* Properties.                                                             *)

Allowed(grants, call) ==
    \E g \in grants : g.action = call.action /\ IsPrefix(g.on, call.on)

(* A process started with the generated policy, and roles made as its      *)
(* notes say, is refused no call of a run: users paste the policy instead  *)
(* of assembling it by hand (iampolicy.go:1-3).  rest is the part of an    *)
(* object's key after the prefix.                                          *)
RunIsAllowed(cfg, found, rest) ==
    \A call \in RunCalls(cfg, found, rest) :
        Allowed(IF call.by = Own THEN Generate(cfg, FALSE) ELSE Notes(cfg, call.by), call)

(* With Deep it is refused none of `validate --deep` either.               *)
DeepIsAllowed(cfg) ==
    \A call \in DeepCalls(cfg) : call.by = Own => Allowed(Generate(cfg, TRUE), call)

(* The policy is minimal where instances are concerned: logs are readable  *)
(* only of instances a source with the process's own credentials lists, or *)
(* of regions where one discovers.                                         *)
NoOtherLogs(cfg, region, id) ==
    Allowed(Generate(cfg, FALSE),
            Call(Own, "rds:DownloadDBLogFilePortion", <<"db", region, id>>)) =>
        \E src \in cfg.sources :
            src.role = Own /\ src.region = region /\ (src.discover.on \/ id \in src.instances)
=============================================================================

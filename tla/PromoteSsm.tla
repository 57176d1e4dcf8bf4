----------------------------- MODULE PromoteSsm -----------------------------
(***************************************************************************)
(* The `promote-ssm' subcommand of pubsys (src/tools/pubsys/src/aws/       *)
(* promote_ssm/mod.rs): copy the SSM parameters rendered for a source      *)
(* version to the names rendered for a target version, in every region,   *)
(* optionally recording the promoted parameters in a JSON file.            *)
(*                                                                         *)
(* One invocation of `run' is a sequence of steps, one per await of the    *)
(* code: fetch the source parameters, fetch the target parameters and      *)
(* diff, merge into the output file, set, validate.  Invocations follow    *)
(* each other (a retry is a new invocation); the SSM store and the output  *)
(* file are what survives between them.  Each network phase fans out to    *)
(* the regions and may fail in any subset of them; the store is written    *)
(* best-effort, key by key.                                                *)
(***************************************************************************)
EXTENDS FiniteSets, Functions

CONSTANTS
    Regions,     \* the regions an invocation may be given
    Templates,   \* the parameter name templates of the template file
    Versioned,   \* the templates whose name mentions {image_version}
    Src,         \* the source version (--source)
    Tgt,         \* the target version (--target)
    Vals,        \* parameter values
    Corrupt      \* contents of an output file whose rewrite was cut short

ASSUME ConstantsAssumption ==
    /\ Regions # {}
    /\ Templates # {}
    /\ Versioned \subseteq Templates
    /\ Src # Tgt

VARIABLES
    ssm,        \* the live SSM store: a partial map from keys to values
    file,       \* the --ssm-parameter-output file: a partial map, or Corrupt
    pc,         \* the step of the current invocation, "Idle" between them
    regions,    \* the regions of the current invocation
    output,     \* whether the current invocation was given an output file
    srcParams,  \* current_source_parameters, as fetched
    setParams,  \* set_parameters: the write-set computed by key_difference
    result      \* how the last invocation ended

vars == <<ssm, file, pc, regions, output, srcParams, setParams, result>>

-----------------------------------------------------------------------------
(* Names and keys.                                                         *)

(* template::render_parameter_names: a rendered name.  Rendering is        *)
(* injective in the template; a template without {image_version} renders   *)
(* the same name for every version.                                        *)
Render(t, v) == IF t \in Versioned THEN <<t, v>> ELSE <<t>>

Names == {Render(t, v) : t \in Templates, v \in {Src, Tgt}}

(* SsmKey: a (region, name) pair.                                          *)
Keys == Regions \X Names

(* A parameter map (HashMap<SsmKey, String>) over the keys K.             *)
IsParamMap(m, K) == DOMAIN m \subseteq K /\ m \in [DOMAIN m -> Vals]

ParamMaps == UNION {[D -> Vals] : D \in SUBSET Keys}

(* The {template => rendered name} maps for the two build contexts.        *)
SourceParameterMap == [t \in Templates |-> Render(t, Src)]
TargetParameterMap == [t \in Templates |-> Render(t, Tgt)]

(* Mutant: source and target names paired by iteration order rather than *)
(* through the template string (here: each with the other template).      *)
SourceTargetMapByOrder ==
    [n \in Range(SourceParameterMap) |->
        TargetParameterMap[CHOOSE t \in Templates :
                              Cardinality(Templates) > 1 => SourceParameterMap[t] # n]]

(* source_target_map: each source name to the target name rendered from    *)
(* the same template.                                                      *)
SourceTargetMap ==
    [n \in Range(SourceParameterMap) |->
        TargetParameterMap[CHOOSE t \in Templates : SourceParameterMap[t] = n]]

(* source_keys and target_keys: every rendered name in every region.       *)
SourceKeys(R) == R \X Range(SourceParameterMap)
TargetKeys(R) == R \X Range(TargetParameterMap)

(* The target key a source key is promoted to.                             *)
Promoted(k) == <<k[1], SourceTargetMap[k[2]]>>

-----------------------------------------------------------------------------
(* The pure helpers.                                                       *)

(* ssm::get_parameters on success: the requested keys that exist.          *)
GetParameters(K) == Restrict(ssm, K \cap DOMAIN ssm)

(* Mutant: the re-keyed map drops the region from the key.               *)
WantMapNoRegion(src) ==
    [tk \in {SourceTargetMap[k[2]] : k \in DOMAIN src} |->
        src[CHOOSE k \in DOMAIN src : SourceTargetMap[k[2]] = tk]]

(* The source map re-keyed to target names (the argument of                *)
(* key_difference): each fetched source value under its promoted key.      *)
WantMap(src) ==
    [tk \in {Promoted(k) : k \in DOMAIN src} |->
        src[CHOOSE k \in DOMAIN src : Promoted(k) = tk]]

(* ssm::key_difference: the entries of want that have is missing or holds *)
(* with another value.                                                     *)
KeyDifference(want, have) ==
    [k \in {k \in DOMAIN want : k \notin DOMAIN have \/ have[k] # want[k]} |->
        want[k]]

(* combine_parameters fails (by indexing a HashMap with an absent key)     *)
(* when a persisted name has no target name, or its promoted key is not in *)
(* the write-set.                                                          *)
CombinePanics(persisted, set) ==
    \E k \in DOMAIN persisted :
        \/ k[2] \notin DOMAIN SourceTargetMap
        \/ k[2] \in DOMAIN SourceTargetMap /\ Promoted(k) \notin DOMAIN set

(* combine_parameters: every persisted entry and its promoted entry.       *)
CombineParameters(persisted, set) ==
    LET promoted == {Promoted(k) : k \in DOMAIN persisted}
    IN  [k \in DOMAIN persisted \cup promoted |->
            IF k \in DOMAIN persisted THEN persisted[k] ELSE set[k]]

-----------------------------------------------------------------------------
(* The invocation.                                                         *)

TypeOK ==
    /\ IsParamMap(ssm, Keys)
    /\ file = Corrupt \/ IsParamMap(file, Keys)
    /\ pc \in {"Idle", "FetchSource", "FetchTarget", "WriteFile",
               "SetParams", "ValidateParams"}
    /\ regions \subseteq Regions
    /\ output \in BOOLEAN
    /\ IsParamMap(srcParams, SourceKeys(Regions))
    /\ IsParamMap(setParams, TargetKeys(Regions))
    /\ result \in {"None", "Running", "Ok", "Failed", "Panicked"}

(* The store holds any values; the output file holds what the `ssm'        *)
(* subcommand wrote for the source version in some of the regions.         *)
Init ==
    /\ ssm \in ParamMaps
    /\ \E R \in SUBSET Regions :
          file = Restrict(ssm, SourceKeys(R) \cap DOMAIN ssm)
    /\ pc = "Idle"
    /\ regions = {}
    /\ output = FALSE
    /\ srcParams = <<>>
    /\ setParams = <<>>
    /\ result = "None"

Finish(r) ==
    /\ pc' = "Idle"
    /\ result' = r

(* run, up to the first fetch: the regions come from --regions or          *)
(* Infra.toml and must not be empty.                                       *)
Start(R, out) ==
    /\ pc = "Idle"
    /\ \/ /\ R = {}
          /\ result' = "Failed"
          /\ UNCHANGED <<pc, regions, output>>
       \/ /\ R # {}
          /\ pc' = "FetchSource"
          /\ regions' = R
          /\ output' = out
          /\ result' = "Running"
    /\ UNCHANGED <<ssm, file, srcParams, setParams>>

(* Fetch the source parameters; abort on a failed region or on an empty    *)
(* result.                                                                 *)
FetchSource ==
    LET src == GetParameters(SourceKeys(regions))
    IN  /\ pc = "FetchSource"
        /\ \/ Finish("Failed") /\ UNCHANGED srcParams   \* FetchSsm
           \/ src = <<>> /\ Finish("Failed") /\ UNCHANGED srcParams
           \/ /\ src # <<>>
              /\ srcParams' = src
              /\ pc' = "FetchTarget"
              /\ UNCHANGED result
        /\ UNCHANGED <<ssm, file, regions, output, setParams>>

(* Fetch the target parameters and compute the write-set; stop when it is  *)
(* empty.                                                                  *)
FetchTarget ==
    LET diff == KeyDifference(WantMap(srcParams),
                              GetParameters(TargetKeys(regions)))
    IN  /\ pc = "FetchTarget"
        /\ \/ Finish("Failed") /\ UNCHANGED setParams   \* FetchSsm
           \/ diff = <<>> /\ Finish("Ok") /\ UNCHANGED setParams
           \/ /\ diff # <<>>
              /\ setParams' = diff
              /\ pc' = IF output THEN "WriteFile" ELSE "SetParams"
              /\ UNCHANGED result
        /\ UNCHANGED <<ssm, file, regions, output, srcParams>>

(* write_rendered_parameters: parse the file, combine, rewrite it.  The    *)
(* rewrite truncates the file first (File::create), so an I/O error or a   *)
(* crash before serde_json finishes leaves it corrupt.                     *)
WriteFile ==
    /\ pc = "WriteFile"
    /\ \/ /\ file = Corrupt
          /\ Finish("Failed")
          /\ UNCHANGED file
       \/ /\ file # Corrupt
          /\ CombinePanics(file, setParams)
          /\ Finish("Panicked")
          /\ UNCHANGED file
       \/ /\ file # Corrupt
          /\ ~CombinePanics(file, setParams)
          /\ \/ /\ file' = CombineParameters(file, setParams)
                /\ pc' = "SetParams"
                /\ UNCHANGED result
             \/ /\ file' = Corrupt
                /\ Finish("Failed")
    /\ UNCHANGED <<ssm, regions, output, srcParams, setParams>>

(* Mutant: the error of set_parameters is not propagated.                 *)
SetParamsIgnoringFailure ==
    /\ pc = "SetParams"
    /\ \E W \in SUBSET DOMAIN setParams :
          ssm' = [k \in DOMAIN ssm \cup W |->
                    IF k \in W THEN setParams[k] ELSE ssm[k]]
    /\ pc' = "ValidateParams"
    /\ UNCHANGED <<file, regions, output, srcParams, setParams, result>>

(* ssm::set_parameters: every key is attempted; the keys in W are written. *)
SetParams ==
    /\ pc = "SetParams"
    /\ \E W \in SUBSET DOMAIN setParams :
          /\ ssm' = [k \in DOMAIN ssm \cup W |->
                        IF k \in W THEN setParams[k] ELSE ssm[k]]
          /\ IF W = DOMAIN setParams
                THEN pc' = "ValidateParams" /\ UNCHANGED result
                ELSE Finish("Failed")
    /\ UNCHANGED <<file, regions, output, srcParams, setParams>>

(* ssm::validate_parameters: re-read the written keys; a stale read is     *)
(* reported as a failure.                                                  *)
ValidateParams ==
    /\ pc = "ValidateParams"
    /\ \/ Finish("Ok")
       \/ Finish("Failed")
    /\ UNCHANGED <<ssm, file, regions, output, srcParams, setParams>>

Next ==
    \/ \E R \in SUBSET Regions, out \in BOOLEAN : Start(R, out)
    \/ FetchSource
    \/ FetchTarget
    \/ WriteFile
    \/ SetParams
    \/ ValidateParams

Spec == Init /\ [][Next]_vars

-----------------------------------------------------------------------------
(* Properties.                                                             *)

(* After an invocation reports success, in every region it was given,      *)
(* every source parameter that exists has been copied to the target name  *)
(* rendered from the same template (run, after validate_parameters or     *)
(* "No changes necessary").                                                *)
PromotionComplete ==
    result = "Ok" =>
        \A r \in regions, t \in Templates :
            <<r, Render(t, Src)>> \in DOMAIN ssm =>
                /\ <<r, Render(t, Tgt)>> \in DOMAIN ssm
                /\ ssm[<<r, Render(t, Tgt)>>] = ssm[<<r, Render(t, Src)>>]

(* Every write to SSM stores, under a target name, the value the source    *)
(* name of the same template holds in the same region, and nothing is     *)
(* deleted: the association through the template string is never          *)
(* confused and nothing but promoted values is ever written.               *)
Changed(k) == k \in DOMAIN ssm' /\ (k \notin DOMAIN ssm \/ ssm'[k] # ssm[k])

WritesCopySource ==
    [][/\ DOMAIN ssm \subseteq DOMAIN ssm'
       /\ \A k \in Keys : Changed(k) =>
             \E t \in Templates :
                LET sk == <<k[1], Render(t, Src)>>
                IN  /\ k = <<k[1], Render(t, Tgt)>>
                    /\ sk \in DOMAIN ssm
                    /\ ssm'[k] = ssm[sk]]_vars

(* A readable output file is a faithful record of the promotion (spec 4.5  *)
(* and its merge example): every entry, persisted or promoted by           *)
(* combine_parameters, holds the value that the source parameter of the    *)
(* same template and region has in the store, across invocations, partial *)
(* set_parameters failures and rewrites.                                   *)
FileMatchesStore ==
    file # Corrupt =>
        \A k \in DOMAIN file : \E t \in Templates :
            LET sk == <<k[1], Render(t, Src)>>
            IN  /\ k[2] \in {Render(t, Src), Render(t, Tgt)}
                /\ sk \in DOMAIN ssm
                /\ file[k] = ssm[sk]

(* Merging into the output file never crashes the process: the spec (4.5,  *)
(* 7) has merge report a lookup error, and pure computations fail only on  *)
(* documented preconditions.  combine_parameters instead indexes two       *)
(* HashMaps with [] and panics.                                             *)
MergeNeverPanics == result # "Panicked"

(* Between invocations, a readable output file records the store: every    *)
(* entry holds the value the store has under its key.  The spec (6) runs   *)
(* the phases in the order fetch/diff, write, validate, merge/persist, so  *)
(* the file is only written once the store holds what it names; run        *)
(* instead writes it before set_parameters (mod.rs:215), and a set that    *)
(* fails leaves it naming target values the store does not hold.           *)
FileRecordsStore ==
    pc = "Idle" /\ file # Corrupt =>
        \A k \in DOMAIN file : k \in DOMAIN ssm /\ file[k] = ssm[k]

=============================================================================

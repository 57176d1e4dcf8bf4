----------------------------- MODULE ValidateAmi -----------------------------
(***************************************************************************)
(* The `validate-ami' subcommand of pubsys (src/tools/pubsys/src/aws/      *)
(* validate_ami/mod.rs and ami.rs): describe the expected images in every  *)
(* region of the expected-AMI file, in parallel, then classify each        *)
(* expected image as Correct, Incorrect or Missing.                        *)
(*                                                                         *)
(* Before that, validate loads Infra.toml, parses the expected-AMI file,  *)
(* takes aws.regions[0] as the base region of every client, and builds one *)
(* id -> public map over all regions; after it, the results may be written *)
(* to a file, and run prints them and returns.                             *)
(*                                                                         *)
(* Each region is a task (a future of describe_images, collected          *)
(* unordered): it consumes the describe-images paginator page by page and  *)
(* for each returned image asks for its launch permissions when the image  *)
(* is expected to be private.  Any call may fail, which fails that region  *)
(* only.  When every task has finished, validate_images_in_region          *)
(* classifies the expected images of each region that succeeded.          *)
(***************************************************************************)
EXTENDS FiniteSets

CONSTANTS
    DistinctIds,   \* does the expected-AMI file list every id in one region only?
    Regions,       \* the regions of the expected-AMI file
    Ids,           \* image ids
    ExpectedDefs,  \* expected image fields: [public, lp, rest]
    LiveImages,    \* images as EC2 holds them: [public, perms, rest]
    None,          \* Option::None
    Error          \* a region whose describe_images returned Err

(* The fields of ImageDef other than id, public and launch_permissions     *)
(* (name, ena_support, sriov_net_support) are compared as one value, rest. *)
ASSUME ConstantsAssumption ==
    /\ DistinctIds \in BOOLEAN
    /\ Regions # {}
    /\ \A d \in ExpectedDefs : d.public \in BOOLEAN
    /\ \A l \in LiveImages : l.public \in BOOLEAN
    /\ None \notin {l.perms : l \in LiveImages}

VARIABLES
    configured,  \* Infra.toml lists at least one region
    phase,       \* "Setup", "Describe", "Write", "Print" or "Done"
    outcome,     \* what run returns: "None", "Ok", "Err" or "Panicked"
    expectedPublic, \* expected_image_public: id -> public
    expected,    \* parse_expected_amis: region -> set of expected ImageDefs
    backend,     \* EC2, per region: a partial map from id to live image
    task,        \* per region: "Describe", "Done" or the error it ended with
    remaining,   \* per region: ids the paginator has not returned yet
    page,        \* per region: ids of the current page not yet processed
    images,      \* per region: the map id -> ImageDef built so far
    results      \* per region: Error or the set of AmiValidationResults

vars == <<configured, phase, outcome, expectedPublic,
          expected, backend, task, remaining, page, images, results>>

Failures == {"DescribeImages", "GetLaunchPermissions", "MissingExpectedPublic"}

ImageDefs == [id : Ids, public : BOOLEAN, lp : {d.lp : d \in ExpectedDefs} \cup
                                              {l.perms : l \in LiveImages} \cup {None},
              rest : {d.rest : d \in ExpectedDefs} \cup {l.rest : l \in LiveImages}]

(* An AmiValidationResult.                                                  *)
ResultRecs == [id : Ids, expected : ImageDefs, actual : ImageDefs \cup {None},
               region : Regions, status : {"Correct", "Incorrect", "Missing"}]

(* Option::None is not an ImageDef.                                        *)
ASSUME NoneAssumption == None \notin ImageDefs

-----------------------------------------------------------------------------
(* Pure helpers.                                                           *)

(* The ids requested in a region.                                          *)
RequestedIds(r) == {e.id : e \in expected[r]}

(* expected_image_public: id -> public, collected over the images of every *)
(* region into one HashMap; for an id listed in several regions the entry  *)
(* iterated last wins, and HashMap iteration order is unspecified.         *)
PublicMaps ==
    LET ids == UNION {RequestedIds(r) : r \in Regions}
    IN  {f \in [ids -> BOOLEAN] :
            \A i \in ids : \E r \in Regions : \E e \in expected[r] :
                              e.id = i /\ e.public = f[i]}

(* What the describe-images paginator returns: the requested ids that      *)
(* exist; an empty id list is no filter at all (EC2 DescribeImages).       *)
Described(r) ==
    IF RequestedIds(r) = {} THEN DOMAIN backend[r]
                            ELSE RequestedIds(r) \cap DOMAIN backend[r]

(* ImageDef::from(Image): launch_permissions are filled in later.          *)
FromImage(i, l) == [id |-> i, public |-> l.public, lp |-> None, rest |-> l.rest]

(* get_launch_permissions: the image's launch permissions as EC2 holds them *)
(* (an image without any gives the empty list).                           *)
GetLaunchPermissions(r, i) == backend[r][i].perms

(* AmiValidationResult::new: the status of an expected image.              *)
Status(exp, act) ==
    IF act = None THEN "Missing" ELSE IF exp = act THEN "Correct" ELSE "Incorrect"

(* Mutant: the expected image is compared as written in the file.        *)
CanonicalAsWritten(e) == e

(* validate_images_in_region: a public expected image loses its launch     *)
(* permissions, then is classified against the image fetched with its id.  *)
Canonical(e) == IF e.public THEN [e EXCEPT !.lp = None] ELSE e

ValidateImagesInRegion(exps, actual, r) ==
    {LET act == IF e.id \in DOMAIN actual THEN actual[e.id] ELSE None
     IN  [id |-> e.id, expected |-> Canonical(e), actual |-> act,
          region |-> r, status |-> Status(Canonical(e), act)] : e \in exps}

-----------------------------------------------------------------------------

TypeOK ==
    /\ configured \in BOOLEAN
    /\ phase \in {"Setup", "Describe", "Write", "Print", "Done"}
    /\ outcome \in {"None", "Ok", "Err", "Panicked"}
    /\ expected \in [Regions -> SUBSET ImageDefs]
    /\ \A r \in Regions : DOMAIN backend[r] \subseteq Ids
                          /\ backend[r] \in [DOMAIN backend[r] -> LiveImages]
    /\ task \in [Regions -> {"Describe", "Done"} \cup Failures]
    /\ remaining \in [Regions -> SUBSET Ids]
    /\ page \in [Regions -> SUBSET Ids]
    /\ \A r \in Regions : DOMAIN images[r] \subseteq Ids
                          /\ images[r] \in [DOMAIN images[r] -> ImageDefs]
    /\ results = None \/ results \in [Regions -> {Error} \cup SUBSET ResultRecs]

(* Any expected-AMI file that parses (an id in several regions only when   *)
(* DistinctIds is FALSE), any Infra.toml region list, and any live images; *)
(* an EC2 image id names an image in one region at most.                   *)
Init ==
    /\ configured \in BOOLEAN
    /\ phase = "Setup"
    /\ outcome = "None"
    /\ expectedPublic = <<>>
    /\ \E home \in [Ids -> SUBSET Regions], def \in [Regions -> [Ids -> ExpectedDefs]] :
          /\ DistinctIds => \A i \in Ids : \A r, s \in home[i] : r = s
          /\ expected = [r \in Regions |->
                           {[id |-> i, public |-> def[r][i].public, lp |-> def[r][i].lp,
                             rest |-> def[r][i].rest] : i \in {i \in Ids : r \in home[i]}}]
    /\ backend \in {b \in [Regions -> UNION {[D -> LiveImages] : D \in SUBSET Ids}] :
                      \A r, s \in Regions : r # s => DOMAIN b[r] \cap DOMAIN b[s] = {}}
    /\ task = [r \in Regions |-> "Describe"]
    /\ remaining = [r \in Regions |-> Described(r)]
    /\ page = [r \in Regions |-> {}]
    /\ images = [r \in Regions |-> <<>>]
    /\ results = None

Finish(o) == phase' = "Done" /\ outcome' = o

(* validate up to the describe: Infra.toml and the expected-AMI file are   *)
(* read (either may fail), aws.regions[0] is taken as the base region, the *)
(* clients are built and expected_image_public is collected.              *)
Setup ==
    /\ phase = "Setup"
    /\ \/ Finish("Err") /\ UNCHANGED expectedPublic
       \/ ~configured /\ Finish("Panicked") /\ UNCHANGED expectedPublic
       \/ /\ configured
          /\ phase' = "Describe"
          /\ expectedPublic' \in PublicMaps
          /\ UNCHANGED outcome
    /\ UNCHANGED <<configured, expected, backend, task, remaining, page, images, results>>

Fail(r, why) ==
    /\ task' = [task EXCEPT ![r] = why]
    /\ UNCHANGED <<remaining, page, images>>

(* Mutant: the paginator hands out a page without moving past it.          *)
NextPageRepeating(r) ==
    /\ phase = "Describe"
    /\ task[r] = "Describe"
    /\ page[r] = {}
    /\ \/ Fail(r, "DescribeImages")
       \/ \E P \in SUBSET remaining[r] :
             /\ P # {}
             /\ page' = [page EXCEPT ![r] = P]
             /\ UNCHANGED <<task, images, remaining>>
    /\ UNCHANGED <<configured, phase, outcome, expectedPublic, expected, backend, results>>

(* The paginator's next call: a non-empty page of the remaining ids, or an *)
(* error.                                                                  *)
NextPage(r) ==
    /\ phase = "Describe"
    /\ task[r] = "Describe"
    /\ page[r] = {}
    /\ \/ Fail(r, "DescribeImages")
       \/ \E P \in SUBSET remaining[r] :
             /\ P # {}
             /\ page' = [page EXCEPT ![r] = P]
             /\ remaining' = [remaining EXCEPT ![r] = remaining[r] \ P]
             /\ UNCHANGED <<task, images>>
    /\ UNCHANGED <<configured, phase, outcome, expectedPublic, expected, backend, results>>

(* One image of the page: look up its expected publicity, fetch its launch *)
(* permissions if it is expected private, insert it.                       *)
ProcessImage(r, i) ==
    LET def == FromImage(i, backend[r][i])
        Insert(d) == /\ images' = [images EXCEPT ![r] =
                             [j \in DOMAIN images[r] \cup {i} |->
                                 IF j = i THEN d ELSE images[r][j]]]
                     /\ page' = [page EXCEPT ![r] = page[r] \ {i}]
                     /\ UNCHANGED <<task, remaining>>
    IN  /\ phase = "Describe"
        /\ task[r] = "Describe"
        /\ i \in page[r]
        /\ \/ /\ i \notin DOMAIN expectedPublic
              /\ Fail(r, "MissingExpectedPublic")
           \/ /\ i \in DOMAIN expectedPublic
              /\ expectedPublic[i]
              /\ Insert(def)
           \/ /\ i \in DOMAIN expectedPublic
              /\ ~expectedPublic[i]
              /\ \/ Insert([def EXCEPT !.lp = GetLaunchPermissions(r, i)])
                 \/ Fail(r, "GetLaunchPermissions")
        /\ UNCHANGED <<configured, phase, outcome, expectedPublic, expected, backend, results>>

(* The paginator is exhausted: the task returns Ok(images).                *)
FinishRegion(r) ==
    /\ phase = "Describe"
    /\ task[r] = "Describe"
    /\ page[r] = {}
    /\ remaining[r] = {}
    /\ task' = [task EXCEPT ![r] = "Done"]
    /\ UNCHANGED <<configured, phase, outcome, expectedPublic, expected, backend,
                   remaining, page, images, results>>

(* validate: once every future has completed, classify each region.        *)
Validate ==
    /\ phase = "Describe"
    /\ \A r \in Regions : task[r] # "Describe"
    /\ results' = [r \in Regions |->
                     IF task[r] = "Done"
                        THEN ValidateImagesInRegion(expected[r], images[r], r)
                        ELSE Error]
    /\ phase' = "Write"
    /\ UNCHANGED <<configured, outcome, expectedPublic, expected, backend, task,
                   remaining, page, images>>

(* validate, when --write-results-path is given: the filtered results are  *)
(* serialised into a created file, which may fail; validate returns them.  *)
WriteResults ==
    /\ phase = "Write"
    /\ \/ phase' = "Print" /\ UNCHANGED outcome
       \/ Finish("Err")
    /\ UNCHANGED <<configured, expectedPublic, expected, backend, task, remaining,
                   page, images, results>>

(* run: print the results (a table or a JSON summary) and return Ok.       *)
PrintResults ==
    /\ phase = "Print"
    /\ Finish("Ok")
    /\ UNCHANGED <<configured, expectedPublic, expected, backend, task, remaining,
                   page, images, results>>

Next ==
    \/ Setup
    \/ \E r \in Regions :
          \/ NextPage(r)
          \/ \E i \in Ids : ProcessImage(r, i)
          \/ FinishRegion(r)
    \/ Validate
    \/ WriteResults
    \/ PrintResults

Spec == Init /\ [][Next]_vars

(* The futures of FuturesUnordered are polled until all complete, and every *)
(* SDK call returns (the clients carry timeouts), so no enabled step of the *)
(* subcommand is postponed forever.                                        *)
Fairness ==
    /\ WF_vars(Setup)
    /\ \A r \in Regions : /\ WF_vars(NextPage(r))
                          /\ WF_vars(\E i \in Ids : ProcessImage(r, i))
                          /\ WF_vars(FinishRegion(r))
    /\ WF_vars(Validate)
    /\ WF_vars(WriteResults)
    /\ WF_vars(PrintResults)

FairSpec == Spec /\ Fairness

-----------------------------------------------------------------------------
(* Properties.                                                             *)

(* The spec's comparison of an expected image with the live one: the same *)
(* publicity and other fields, and, for a private image, the same launch  *)
(* permissions.                                                            *)
Matches(e, l) ==
    /\ e.public = l.public
    /\ e.rest = l.rest
    /\ ~e.public => e.lp = l.perms

(* Every region whose fetch succeeded reports exactly its expected images, *)
(* each Missing when EC2 has no image with its id in that region, Correct  *)
(* when the live image matches it, and Incorrect otherwise: pagination,   *)
(* the launch-permission fetch that depends on the expected publicity and *)
(* the canonicalisation of validate_images_in_region together give the    *)
(* spec's verdict.                                                         *)
StatusMatchesLive ==
    results # None =>
        \A r \in Regions : results[r] # Error =>
            /\ {res.id : res \in results[r]} = RequestedIds(r)
            /\ \A res \in results[r], e \in expected[r] :
                  res.id = e.id =>
                     res.status = IF e.id \notin DOMAIN backend[r] THEN "Missing"
                                  ELSE IF Matches(e, backend[r][e.id]) THEN "Correct"
                                  ELSE "Incorrect"

(* describe_images is restricted to the requested ids (spec 4.4), so no    *)
(* region fails on an image nobody asked for.                              *)
NoUnrequestedImage ==
    \A r \in Regions : task[r] # "MissingExpectedPublic"

(* Every run of the subcommand ends: the pages of every region are         *)
(* consumed, every region's future completes, and run returns.            *)
Terminates == <>(phase = "Done")

(* The subcommand never reports success after a region failed: the spec   *)
(* (7) has the operation report failure once all independent work is done *)
(* whenever a fetch failed anywhere.                                       *)
FailureReported ==
    outcome = "Ok" => \A r \in Regions : results[r] # Error

(* A missing setting ends the subcommand with a ConfigError, before any   *)
(* network call (spec 7); it never crashes the process.                   *)
NoPanic == outcome # "Panicked"

=============================================================================

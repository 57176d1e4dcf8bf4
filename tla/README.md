# TLA+ models of pubsys: promote-ssm and validate-ami

This directory has TLA+ models of two subcommands of `pubsys`, the
Bottlerocket publishing tool in `src/tools/pubsys`. The TLC configurations
model-check them on small instances. TLAPS proofs cover, for every
instance, the promotion invariants, promote-ssm's refinement of its abstract
specification, and the verdicts of validate-ami.

## 1. The system

### promote-ssm (`src/tools/pubsys/src/aws/promote_ssm/mod.rs`)

`run` copies a version's SSM parameters to another version's names. It runs
these steps in order, and any of them can return an error:

1. **Setup (lines 55-94).** Pick the regions: the `--regions` override, or
   else the ones in Infra.toml. An empty list is `MissingConfig`.
2. **Templates (117-156).** Parse the templates. If there are none, return
   `Ok` early. Otherwise render each template's name twice, once for the
   source version and once for the target version. This gives
   `source_parameter_map` and `target_parameter_map`, both keyed by the
   template string. Build the keys of each map in every region.
3. **Fetch source (160-173).** Call `ssm::get_parameters` on the source keys.
   A result with no parameters aborts with `EmptySource`.
4. **Fetch target (175-209).**
   - Fetch the target keys.
   - Give each fetched source parameter its target name through
     `source_target_map` (source name to target name, paired by template).
   - `key_difference` keeps the target keys that are missing or hold a
     different value: this is the write-set.
   - An empty write-set returns `Ok` ("No changes necessary") with no
     validation.
5. **Output file (211-216, 236-267), only with `--ssm-parameter-output`.**
   - Parse the existing file.
   - `combine_parameters` (271-305) merges the file with the write-set.
   - `File::create` truncates the file, then the merge is serialised into it.
6. **Set (218-223).** `ssm::set_parameters` tries every key of the write-set.
   It fails if any key was not written.
7. **Validate (225-231).** `ssm::validate_parameters` re-reads the keys.

Between invocations, the state that remains is the SSM store and the output
file. A failed invocation is simply run again, and the retry starts from
whatever the failed one left behind.

### validate-ami (`validate_ami/mod.rs`, `validate_ami/ami.rs`, `ami/launch_permissions.rs`)

1. `validate` parses the expected-AMI file (`parse_expected_amis`, 188-228)
   into a map from region to image definitions.
2. It builds one `expected_image_public` map (id to public) over all regions
   (78-85).
3. `describe_images` (ami.rs 63-93) starts one future per region and collects
   them in any order (`FuturesUnordered`). Each future runs
   `describe_images_in_region` (96-159):
   - It pages through `describe_images` filtered by the region's ids.
   - For each image, it looks up the image's expected publicity. If the id is
     absent, the result is `MissingExpectedPublic`.
   - If the image is expected to be private, it fetches the launch
     permissions (`get_launch_permissions`).
   - An error on any call ends that region only.
4. `validate_images_in_region` (158-181) classifies each expected image of
   each region that succeeded:
   - if the image is expected public, the expected launch permissions are
     cleared first;
   - the status is Missing when there is no live image, Correct when the
     expected and live images are equal, and Incorrect otherwise.

### Parts outside `src/`

The SSM layer (`ssm::get_parameters`, `set_parameters`,
`validate_parameters`, `key_difference`), template rendering, and
`AmiValidationResult::new` live outside `src/`. They are modelled from
`spec.md` and marked `spec_modelled` in `PROJECT.json`.

## 2. The hard behaviours (see the hazards in PROJECT.json)

- **Retries after a failure at any step.** A partial `set_parameters`, a
  failed validation, an `EmptySource` abort, or a failed file write. The next
  invocation must still finish the copy, and must not report success too
  early.
- **The output file is truncated before it is written**, and it is written
  *before* SSM is set. A failed write leaves the file unreadable. A failed set
  leaves target names in the file that SSM does not hold.
- **Each entry of the file goes through two `[]` lookups in
  `combine_parameters`.** An entry the current write-set does not know makes
  the lookup panic.
- **Unversioned templates render the same name for source and target.** The
  difference must then leave that key alone.
- **validate-ami region futures interleave and fail independently.** Each
  region's images arrive page by page, and launch permissions are fetched
  according to the *expected* publicity, not the live one.

## 3. Modules

| module | models | state | actions |
|---|---|---|---|
| `PromoteSsm` | `promote_ssm::run`, `write_rendered_parameters`, `combine_parameters` | `ssm` (store: partial map from (region, name) to value), `file` (output file or `Corrupt`), `pc`, `regions`, `output` (flag given), `srcParams`, `setParams` (write-set), `result` | `Start`, `FetchSource`, `FetchTarget`, `WriteFile`, `SetParams`, `ValidateParams` |
| `PromoteSsmProofs` | proofs about `PromoteSsm` | | |
| `ValidateAmiProofs` | proofs about `ValidateAmi` | | |
| `ValidateAmi` | `run`, `validate`, `describe_images[_in_region]`, `get_launch_permissions`, `validate_images_in_region` | `configured` (Infra.toml lists a region), `phase`, `outcome` (what `run` returns), `expectedPublic`, `expected` (parsed file), `backend` (EC2 images per region), `task`, `remaining`/`page` (paginator), `images`, `results` | `Setup`, `NextPage(r)`, `ProcessImage(r, i)`, `FinishRegion(r)`, `Validate`, `WriteResults`, `PrintResults` |
| `MCPromoteSsm`, `MCValidateAmi` | TLC instances | | |

### PromoteSsm

- **Names.** A template renders to `<<t, v>>` when it is versioned and to
  `<<t>>` otherwise. This is the only property of rendering the code relies
  on: names are injective in the template, and depend on the version only for
  versioned templates.
- **Data.** Keys are (region, name) pairs. Values are model values.
- **Invocations.** `Start` begins one; an action whose code path returns ends
  it (`Finish`, with `result` Ok, Failed or Panicked). Every `?` in the code is
  a `Finish("Failed")` disjunct of its action. `Next` runs invocations one
  after another, forever, so the model covers every sequence of retries.
- **`WriteFile`.** It models the whole of `write_rendered_parameters`:
  - an unreadable file fails the parse;
  - `CombinePanics` is exactly the condition under which one of the `[]`
    lookups at lines 288-292 has no entry;
  - after the merge, either the write succeeds, or the file is left
    truncated (`Corrupt`).
- **`SetParams`.** It writes any subset `W` of the write-set and fails unless
  `W` is all of it.

### ValidateAmi

- **Initial states.** `Init` draws every expected-AMI file over the ids
  (with each id in at most one region when the constant `DistinctIds` is
  TRUE, in any set of regions otherwise), whether Infra.toml lists a region,
  and every live image store in which an id names an image in one region at
  most (EC2 image ids are unique).
- **`Setup`** is `validate` up to the describe: the configuration or the
  expected file may fail to load (`Err`); with no configured region,
  `aws.regions[0]` panics; otherwise `expected_image_public` is collected.
  `PublicMaps` gives every map the HashMap collection can produce: for an id
  listed twice, the entry iterated last wins, and the iteration order is
  unspecified.
- **`WriteResults` and `PrintResults`** are the end of `validate` and `run`: the
  results file may fail to be created or written (`Err`); otherwise `run`
  prints and returns `Ok`. The file's content and the printed text are not
  modelled.
- **`Described(r)`.** The set of ids the paginator will return. When the
  id list is empty, EC2 applies no filter.
- **Failures.** Every call can fail: a page with `DescribeImages`, a
  launch-permission fetch with `GetLaunchPermissions`.

## 4. Runs

| run | cfg | checks | result |
|---|---|---|---|
| promote_pass | `MCPromoteSsm.cfg` | `TypeOK`, `PromotionComplete`, `FileMatchesStore`, `WritesCopySource` | pass, about 118k distinct states |
| promote_merge_panic | `MCPromoteSsmPanic.cfg` | `MergeNeverPanics` | violation (finding 1) |
| promote_file_record | `MCPromoteSsmFileRecord.cfg` | `FileRecordsStore` | violation (finding 6) |
| validate_ami_pass | `MCValidateAmi.cfg` | `StatusMatchesLive` | pass, about 118k distinct states |
| validate_ami_unrequested | `MCValidateAmiUnrequested.cfg` | `NoUnrequestedImage` | violation (finding 2) |
| validate_ami_terminates | `MCValidateAmiTerminates.cfg` | `Terminates` (under `FairSpec`) | pass, about 470k distinct states |
| validate_ami_no_regions | `MCValidateAmiNoRegions.cfg` | `NoPanic` | violation (finding 3) |
| validate_ami_ok_after_failure | `MCValidateAmiRunOk.cfg` | `FailureReported` | violation (finding 4) |
| validate_ami_duplicate_ids | `MCValidateAmiDuplicateIds.cfg` | `StatusMatchesLive` with `DistinctIds = FALSE` | violation (finding 5) |

What the promote_pass properties say:

- **`PromotionComplete`.** Once an invocation reports Ok, every source
  parameter in its regions has been copied to its target name.
- **`WritesCopySource`** (an action property). No step deletes a parameter.
  A step writes only the current source value, to the target name of the same
  template and region.
- **`FileMatchesStore`.** Every entry of a readable output file holds the
  store's current value of the source parameter it was promoted from, and
  is stored under that source's name or its target name.

`FileRecordsStore` (promote_file_record) says that between invocations every
entry of a readable output file holds the value the store has under its
key. This is what the spec's order of phases gives, since it persists only
after the store was written and validated.

What `StatusMatchesLive` says: every region that succeeds reports exactly its
expected ids. The status of each one is the one obtained by comparing the
expected record with the live image directly, using `Matches` from
`spec.md`'s definition, independent of the code's canonicalisation.
`Terminates` says every run of validate-ami returns.

### Bounds

**PromoteSsm** runs on 2 regions and 2 templates (one versioned, one not),
with 2 values. This is enough for:

- an invocation over one region or both;
- source and target names that coincide (the unversioned template);
- a target that is stale or already up to date;
- partial writes.

The search ends at depth 16, which covers three to four invocations. Symmetry
is over regions and values: they are interchangeable model values, and no
definition names one.

**ValidateAmi** runs on 2 regions, 2 ids, 4 expected records and 4 live
records. Among them are:

- public and private images;
- launch permissions that are present, absent or different;
- two live images that differ only in their other fields.

With 2 ids, a page can be a strict subset of the ids. The duplicate-id run
uses one id, which the file may list in both regions: that is the smallest
instance in which the two entries can disagree.

The ValidateAmi configurations set `CHECK_DEADLOCK FALSE` because the
subcommand stops once `run` has returned (phase `Done`).

### Fairness

`FairSpec` adds weak fairness to every step of validate-ami (`Setup`, each
region's `NextPage`, `ProcessImage` and `FinishRegion`, `Validate`,
`WriteResults`, `PrintResults`). The code justifies it: `validate` awaits a
`FuturesUnordered` that polls every region's future until all complete, the
steps between awaits are sequential code, and every SDK call returns (the
clients carry timeouts; a timeout is one of the failures the model already
has). No fairness is given to the failures themselves, and none to
promote-ssm's `Start`: nobody has to run the subcommand again. The
termination run has no symmetry, which TLC does not combine soundly with
liveness checking.

### Mutants

Each passing property is broken by a plausible bug in a mapped definition:

| mutant | breaks |
|---|---|
| the source-to-target map pairs by position instead of by template | `WritesCopySource` |
| the error of `set_parameters` is not propagated | `PromotionComplete` |
| the promotion drops the region | `TypeOK` |
| the canonicalisation is skipped | `StatusMatchesLive` |
| the source-to-target map pairs by position | `FileMatchesStore` |
| the paginator hands out a page without moving past it | `Terminates` |

## 5. Findings

1. **`combine_parameters` panics** (mod.rs:289). It panics on any output file
   that holds a parameter whose promoted key is not in the current write-set:
   - an unversioned template's parameter;
   - a target that is already correct;
   - a parameter of a region not given this time;
   - a target name written by an earlier invocation whose set step failed. In
     this case every retry panics.

   `spec.md` says the merge reports a lookup error.
2. **An empty expected list for a region** (ami.rs:109) becomes an unfiltered
   `describe_images`. The region then fails with `MissingExpectedPublic`
   instead of reporting nothing. `spec.md` says the call is restricted to the
   given ids.
3. **An Infra.toml without regions panics** (validate_ami/mod.rs:66).
   `validate` takes `aws.regions[0]` as the base region of the clients,
   although the regions validated come from the expected-AMI file. The spec
   makes a missing setting a `ConfigError`.
4. **validate-ami returns Ok after a region failed** (mod.rs:243). A failed
   region is an `Err` inside the results, and `run` prints them and returns
   `Ok(())`. The spec says a fetch failure anywhere makes the operation report
   failure once the independent work is done.
5. **An id listed in two regions** (mod.rs:85) gets one publicity, from
   whichever entry the HashMap keeps. The image that exists then has its
   launch permissions fetched, or not, against the other region's
   expectation, and a matching image is reported Incorrect. The spec does not
   say what a repeated id means.
6. **The output file is written before the store** (promote_ssm/mod.rs:215).
   `run` merges the promoted entries into the output file, then calls
   `set_parameters`. When that call fails, wholly or for some keys, the
   invocation ends with a file that names target values SSM does not hold.
   A retry then merges them again. The spec (6) orders the phases as write,
   validate, then merge/persist.

## 6. Proofs (`PromoteSsmProofs`, `ValidateAmiProofs`)

### promote-ssm

They are checked by `tlapm PromoteSsmProofs.tla`. The only assumption is
`ConstantsAssumption`: some regions, some templates, `Versioned` is a subset
of the templates, and `Src # Tgt`.

- **`TypeCorrect: Spec => []TypeOK`.** This is proved from lemmas about:
  - rendering (injective);
  - `Promoted` (it maps source keys of `R` to target keys of `R`);
  - `GetParameters`, `WantMap`, `KeyDifference` and `CombineParameters`
    (each preserves the parameter-map type; for the merge, only when it does
    not panic).
- **`PromotionCompleteHolds: Spec => []PromotionComplete`.**
  `PromotionComplete` is not inductive: a step of `SetParams` or
  `ValidateParams` relies on what the earlier `FetchTarget` computed. The
  inductive invariant `IInv` is the conjunction of:
  - `TypeOK`;
  - Ok implies `Complete(regions)`;
  - in `FetchTarget`, `srcParams` is the current source restriction;
  - in `WriteFile` and `SetParams`, the write-set is *sound* (`DiffSound`):
    each target key in it holds its source's current value, which the store
    does not already hold;
  - in `WriteFile` and `SetParams`, the write-set is *complete*
    (`DiffComplete`): every source whose target differs is in it;
  - in `ValidateParams`, `Complete(regions)`.

  The key lemma is `SourceNotWritten`: a sound write-set never contains a
  source key. The two could only coincide for an unversioned template, and
  then the store already holds the value. So a full write cannot change a
  source value, and it completes the copy. TLC also checked `IInv` as an
  invariant of the promote_pass instance.
- **`WritesCopySourceHolds: Spec => WritesCopySource`.** This follows from
  the same `IInv`: only `SetParams` changes the store, and every key it writes
  is in the sound write-set.
- **`FileMatchesStoreHolds: Spec => []FileMatchesStore`.** The inductive
  invariant is `IInv /\ FileInv`. `FileInv` restates `FileMatchesStore` per
  (region, template) pair (`FileEntry`). Three lemmas carry it:
  - `SetParamsFileInv`: a `SetParams` step keeps `FileInv`. The lemma
    `SourceUntouched` gives this: a sound write-set holds no source key of
    the invocation's regions, so no value a file entry mirrors changes.
  - `CombineFileInv`: the merge of `WriteFile` keeps `FileInv`. Every key
    it adds is the promoted key of a source in the write-set, and
    `DiffSound` gives that key the source's value.
  - `InitFileInv`: `FileInv` holds initially.

  TLC also checked `IInv /\ FileInv` as an invariant of the promote_pass
  instance.
### validate-ami

Checked by `tlapm ValidateAmiProofs.tla`. Besides `ConstantsAssumption`
(the publicity fields are Booleans) it uses `NoneAssumption`: `None`
(`Option::None`) is not an ImageDef.

- **`TypeCorrect: Spec => []TypeOK`.** This needs no assumption on
  `DistinctIds`, so it covers a file that lists an id in several regions.
  It follows from the inductive invariant `IInv` below, which leaves out
  `UniqueIds`. The lemma `FetchedType` types a fetched image, and
  `ResultsType` types the output of `validate_images_in_region`.

- **`StatusMatchesLiveHolds: DistinctIds => (Spec => []StatusMatchesLive)`.**
  `StatusMatchesLive` speaks only of `results`, which are computed once from
  `images`. The inductive invariant is `IInv /\ UniqueIds`, and it is about
  how `images` is built:
  - `UniqueIds`: an id names one expected image of the whole file. This
    is where `DistinctIds` is used (`InitUnique`); finding 5 shows it is
    needed. No step changes the file (`NextUnique`).
  - `Typed`: the types, with each region's live images a function.
  - `PublicOk`: `expectedPublic` holds the publicity of an expected image
    with that id;
  - `Covered`: the processed ids, the pending page and the ids the
    paginator has not returned make up `Described(r)`, and a finished region
    has consumed them all;
  - `ImagesFetched`: every stored image is `Fetched(r, i)`, the live image
    with its permissions when `expectedPublic[i]` is FALSE (and nothing is
    stored before `Setup` has collected the map);
  - `ResultsOf`: once computed, `results` is `validate_images_in_region` of
    the current `images`.

  The lemma `Verdict` then shows that the status of an expected image `e`
  against the image fetched with `e`'s own publicity is the spec's verdict
  (`Matches`). `RegionStatus` combines it with `UniqueIds` and `PublicOk`
  for a region that finished. TLC also checked `IInv /\ UniqueIds` as an
  invariant of the validate_ami_pass instance.
### Left to TLC

Every invariant and action property of a passing run is proved, so what
stays with TLC is:

- **`Terminates`.** A liveness property under `FairSpec`. TLAPS' PTL
  backend cannot do the `ENABLED` reasoning that weak fairness needs here.
- **The violations.** `MergeNeverPanics`, `FileRecordsStore`, `NoUnrequestedImage`, `NoPanic`,
  `FailureReported`, and `StatusMatchesLive` without `DistinctIds` are false.
  TLC's counterexamples are the evidence for them.

## 7. Not modelled

- **CLI parsing, client construction, logging, and the text printed or
  written.** None of these carries state a property distinguishes; a failed
  configuration load and a failed results file are modelled as `Err`
  outcomes.
- **The `MissingField` error.** EC2 always returns an image id.
- **The status filter of the results file** and `AmiValidationResults`
  (results.rs, not in the source tree).

## 8. Plan for later sittings

1. An abstract specification of promote-ssm that says more than
   `PromotionComplete` and `WritesCopySource` together, so that a refinement
   would add something: for instance, what a retry after a partial failure
   must reach.
2. Liveness of promote-ssm: under weak fairness of each step, every started
   invocation ends; under a bounded number of failures, retries reach Ok.
3. Concurrent invocations and an external writer to SSM, to show how
   `PromotionComplete` weakens, and validation against a changing store.
4. Done: proofs of `StatusMatchesLive` and of `TypeOK` of validate-ami.
5. Done: a proof of `FileMatchesStore`.
7. A property for the truncated output file (mod.rs:255). The spec leaves
   persistence to a collaborator and says nothing of a failed write. A
   property needs a stated expectation, for example that a failed invocation
   leaves the file readable.
8. A property on the regions reported as `Error`. `StatusMatchesLive`
   constrains only the regions that succeeded.
6. Lemmas on `PublicMaps` for a file with repeated ids: what can be proved
   of the regions whose ids are not shared.

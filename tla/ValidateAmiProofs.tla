-------------------------- MODULE ValidateAmiProofs --------------------------
(***************************************************************************)
(* Proofs about ValidateAmi: when the expected-AMI file lists every id in  *)
(* one region, the verdicts validate-ami computes are the spec's, for any  *)
(* regions, ids, expected and live images.                                 *)
(***************************************************************************)
EXTENDS ValidateAmi, TLAPS

(* The expected images a parsed file can hold.                             *)
ExpRecs == [id : Ids, public : BOOLEAN, lp : {d.lp : d \in ExpectedDefs},
            rest : {d.rest : d \in ExpectedDefs}]

(* The ImageDef that describe_images_in_region stores for a described id:  *)
(* the live image, with its launch permissions when expected private.      *)
Fetched(r, i) ==
    IF expectedPublic[i]
       THEN FromImage(i, backend[r][i])
       ELSE [FromImage(i, backend[r][i]) EXCEPT !.lp = GetLaunchPermissions(r, i)]

(* The shape of the state the proofs rely on.                              *)
Typed ==
    /\ configured \in BOOLEAN
    /\ phase \in {"Setup", "Describe", "Write", "Print", "Done"}
    /\ outcome \in {"None", "Ok", "Err", "Panicked"}
    /\ expected \in [Regions -> SUBSET ExpRecs]
    /\ \A r \in Regions : /\ DOMAIN backend[r] \subseteq Ids
                          /\ backend[r] \in [DOMAIN backend[r] -> LiveImages]
    /\ task \in [Regions -> {"Describe", "Done"} \cup Failures]
    /\ remaining \in [Regions -> SUBSET Ids]
    /\ page \in [Regions -> SUBSET Ids]
    /\ DOMAIN images = Regions
    /\ \A r \in Regions : images[r] \in [DOMAIN images[r] -> ImageDefs]

(* An id names one expected image of the whole file.                       *)
UniqueIds ==
    \A r, s \in Regions : \A e \in expected[r], f \in expected[s] :
        e.id = f.id => r = s /\ e = f

(* expected_image_public holds the publicity of an expected image.        *)
PublicOk ==
    \A i \in DOMAIN expectedPublic :
        \E s \in Regions : \E e \in expected[s] : e.id = i /\ e.public = expectedPublic[i]

(* The pages of a region: processed, pending or not yet returned, they are *)
(* the ids the paginator describes; a finished region has consumed them.   *)
Covered ==
    \A r \in Regions :
        /\ DOMAIN images[r] \cup page[r] \cup remaining[r] = Described(r)
        /\ task[r] = "Done" => page[r] = {} /\ remaining[r] = {}

(* Every stored image is the live one as the publicity map asks for it.    *)
ImagesFetched ==
    /\ phase = "Setup" => \A r \in Regions : DOMAIN images[r] = {}
    /\ \A r \in Regions : \A i \in DOMAIN images[r] :
          i \in DOMAIN expectedPublic /\ images[r][i] = Fetched(r, i)

(* The results are those of the current images, computed once.            *)
ResultsOf ==
    /\ phase \in {"Setup", "Describe"} => results = None
    /\ results # None =>
          results = [r \in Regions |->
                       IF task[r] = "Done"
                          THEN ValidateImagesInRegion(expected[r], images[r], r)
                          ELSE Error]

(* The inductive invariant; UniqueIds, which holds when DistinctIds does,  *)
(* is an invariant of its own.                                             *)
IInv == Typed /\ PublicOk /\ Covered /\ ImagesFetched /\ ResultsOf

-----------------------------------------------------------------------------
(* The initial state.                                                      *)

(* The expected images of a file that parses are ExpRecs.                  *)
LEMMA InitExpected ==
    ASSUME Init
    PROVE  expected \in [Regions -> SUBSET ExpRecs]
<1>1. PICK home \in [Ids -> SUBSET Regions], def \in [Regions -> [Ids -> ExpectedDefs]] :
          expected = [r \in Regions |->
                        {[id |-> i, public |-> def[r][i].public, lp |-> def[r][i].lp,
                          rest |-> def[r][i].rest] : i \in {i \in Ids : r \in home[i]}}]
    BY DEF Init
<1>2. QED
    BY <1>1, ConstantsAssumption DEF ExpRecs

(* With every id in one region, an id names one expected image.           *)
LEMMA InitUnique ==
    ASSUME DistinctIds
    PROVE  Init => UniqueIds
<1> SUFFICES ASSUME Init PROVE UniqueIds
    OBVIOUS
<1>1. PICK home \in [Ids -> SUBSET Regions], def \in [Regions -> [Ids -> ExpectedDefs]] :
          /\ DistinctIds => \A i \in Ids : \A r, s \in home[i] : r = s
          /\ expected = [r \in Regions |->
                           {[id |-> i, public |-> def[r][i].public, lp |-> def[r][i].lp,
                             rest |-> def[r][i].rest] : i \in {i \in Ids : r \in home[i]}}]
    BY DEF Init
<1>2. QED
    BY <1>1 DEF UniqueIds

LEMMA InitIInv ==
    Init => IInv
<1> SUFFICES ASSUME Init PROVE IInv
    OBVIOUS
<1>1. Typed
    <2>1. expected \in [Regions -> SUBSET ExpRecs]
        BY InitExpected
    <2>2. \A r \in Regions : /\ DOMAIN backend[r] \subseteq Ids
                             /\ backend[r] \in [DOMAIN backend[r] -> LiveImages]
        BY DEF Init
    <2>3. remaining \in [Regions -> SUBSET Ids]
        BY <2>2 DEF Init, Described
    <2>4. QED
        BY <2>1, <2>2, <2>3 DEF Init, Typed
<1>2. PublicOk
    BY DEF Init, PublicOk
<1>3. Covered
    BY DEF Init, Covered
<1>4. ImagesFetched
    BY DEF Init, ImagesFetched
<1>5. ResultsOf
    BY DEF Init, ResultsOf
<1>6. QED
    BY <1>1, <1>2, <1>3, <1>4, <1>5 DEF IInv

-----------------------------------------------------------------------------
(* Each step preserves IInv.  No step changes the file or the live images, *)
(* so UniqueIds and the ids a region's paginator describes stay the same.  *)

LEMMA FixedParts ==
    ASSUME IInv, UNCHANGED <<expected, backend>>
    PROVE  /\ \A r \in Regions : Described(r)' = Described(r)
           /\ expected' \in [Regions -> SUBSET ExpRecs]
           /\ \A r \in Regions : /\ DOMAIN backend'[r] \subseteq Ids
                                 /\ backend'[r] \in [DOMAIN backend'[r] -> LiveImages]
BY DEF IInv, Described, RequestedIds, Typed

(* A step that changes neither the regions' progress nor the images keeps *)
(* the typing.                                                             *)
LEMMA TypedKept ==
    ASSUME IInv, UNCHANGED <<configured, expected, backend, task, remaining, page, images>>,
           phase' \in {"Setup", "Describe", "Write", "Print", "Done"},
           outcome' \in {"None", "Ok", "Err", "Panicked"}
    PROVE  Typed'
BY FixedParts DEF IInv, Typed

(* An ImageDef fetched with a Boolean publicity is an ImageDef.            *)
LEMMA FetchedType ==
    ASSUME NEW r, NEW i \in Ids, backend[r][i] \in LiveImages,
           expectedPublic[i] \in BOOLEAN
    PROVE  Fetched(r, i) \in ImageDefs
BY ConstantsAssumption DEF Fetched, FromImage, GetLaunchPermissions, ImageDefs

LEMMA SetupIInv ==
    ASSUME IInv, Setup
    PROVE  IInv'
<1>1. UNCHANGED <<configured, expected, backend, task, remaining, page, images, results>>
      /\ phase = "Setup" /\ phase' \in {"Describe", "Done"}
    BY DEF Setup, Finish
<1>2. \A r \in Regions : DOMAIN images[r] = {}
    BY <1>1 DEF IInv, ImagesFetched
<1>3. results = None
    BY <1>1 DEF IInv, ResultsOf
<1>4. Typed'
    <2>1. outcome' \in {"None", "Ok", "Err", "Panicked"}
        BY DEF Setup, Finish, IInv, Typed
    <2>2. QED
        BY <1>1, <2>1, TypedKept
<1>5. PublicOk'
    <2>1. CASE UNCHANGED expectedPublic
        BY <1>1, <2>1 DEF IInv, PublicOk
    <2>2. CASE expectedPublic' \in PublicMaps
        BY <1>1, <2>2 DEF PublicMaps, PublicOk
    <2>3. QED
        BY <2>1, <2>2 DEF Setup
<1>6. Covered'
    BY <1>1, FixedParts DEF IInv, Covered
<1>7. ImagesFetched'
    BY <1>1, <1>2 DEF ImagesFetched
<1>8. ResultsOf'
    BY <1>1, <1>3 DEF ResultsOf
<1>9. QED
    BY <1>4, <1>5, <1>6, <1>7, <1>8, FixedParts, <1>1 DEF IInv

LEMMA NextPageIInv ==
    ASSUME IInv, NEW r \in Regions, NextPage(r)
    PROVE  IInv'
<1>1. /\ UNCHANGED <<configured, phase, outcome, expectedPublic, expected, backend,
                     images, results>>
      /\ phase = "Describe" /\ task[r] = "Describe" /\ page[r] = {}
    BY DEF NextPage, Fail
<1>2. Typed'
    BY <1>1, FixedParts DEF NextPage, Fail, Failures, IInv, Typed
<1>3. PublicOk'
    BY <1>1 DEF IInv, PublicOk
<1>4. Covered'
    <2>1. CASE Fail(r, "DescribeImages")
        BY <1>1, <2>1, FixedParts DEF Fail, IInv, Covered, Typed
    <2>2. CASE \E P \in SUBSET remaining[r] :
                  /\ P # {}
                  /\ page' = [page EXCEPT ![r] = P]
                  /\ remaining' = [remaining EXCEPT ![r] = remaining[r] \ P]
                  /\ UNCHANGED <<task, images>>
        BY <1>1, <2>2, FixedParts DEF IInv, Covered, Typed
    <2>3. QED
        BY <2>1, <2>2 DEF NextPage
<1>5. ImagesFetched'
    BY <1>1 DEF IInv, ImagesFetched, Fetched, GetLaunchPermissions
<1>6. ResultsOf'
    BY <1>1 DEF IInv, ResultsOf
<1>7. QED
    BY <1>2, <1>3, <1>4, <1>5, <1>6, FixedParts, <1>1 DEF IInv

(* With the file and the live images, the publicity map fixes Fetched.     *)
LEMMA FetchedUnchanged ==
    ASSUME UNCHANGED <<expectedPublic, backend>>, NEW r, NEW i
    PROVE  Fetched(r, i)' = Fetched(r, i)
BY DEF Fetched, FromImage, GetLaunchPermissions

LEMMA ProcessImageIInv ==
    ASSUME IInv, NEW r \in Regions, NEW i \in Ids, ProcessImage(r, i)
    PROVE  IInv'
<1>1. /\ UNCHANGED <<configured, phase, outcome, expectedPublic, expected, backend, results>>
      /\ phase = "Describe" /\ task[r] = "Describe" /\ i \in page[r]
    BY DEF ProcessImage
<1>2. results = None
    BY <1>1 DEF IInv, ResultsOf
<1>3. PublicOk' /\ ResultsOf'
    BY <1>1, <1>2 DEF IInv, PublicOk, ResultsOf
<1>4. \A j : Fetched(r, j)' = Fetched(r, j)
    BY <1>1, FetchedUnchanged
<1>5. CASE \E why \in Failures : Fail(r, why)
    <2>1. Typed'
        BY <1>1, <1>5, FixedParts DEF Fail, IInv, Typed
    <2>2. Covered'
        BY <1>1, <1>5, FixedParts DEF Fail, Failures, IInv, Covered, Typed
    <2>3. ImagesFetched'
        BY <1>1, <1>5, FetchedUnchanged DEF Fail, IInv, ImagesFetched
    <2>4. QED
        BY <1>3, <2>1, <2>2, <2>3, <1>1, FixedParts DEF IInv
<1>6. CASE /\ i \in DOMAIN expectedPublic
           /\ images' = [images EXCEPT ![r] =
                           [j \in DOMAIN images[r] \cup {i} |->
                               IF j = i THEN Fetched(r, i) ELSE images[r][j]]]
           /\ page' = [page EXCEPT ![r] = page[r] \ {i}]
           /\ UNCHANGED <<task, remaining>>
    <2>1. i \in DOMAIN backend[r] /\ expectedPublic[i] \in BOOLEAN
        <3>1. i \in Described(r)
            BY <1>1 DEF IInv, Covered
        <3>2. PICK s \in Regions : \E e \in expected[s] : e.public = expectedPublic[i]
            BY <1>6 DEF IInv, PublicOk
        <3>3. PICK e \in expected[s] : e.public = expectedPublic[i]
            BY <3>2
        <3>4. QED
            BY <3>1, <3>3 DEF Described, IInv, Typed, ExpRecs
    <2>2. Fetched(r, i) \in ImageDefs
        BY <2>1, FetchedType DEF IInv, Typed
    <2>3. Typed'
        BY <1>1, <1>6, <2>2, FixedParts DEF IInv, Typed
    <2>4. Covered'
        BY <1>1, <1>6, FixedParts DEF IInv, Covered, Typed
    <2>5. ImagesFetched'
        BY <1>1, <1>4, <1>6, FetchedUnchanged DEF IInv, ImagesFetched, Typed
    <2>6. QED
        BY <1>3, <2>3, <2>4, <2>5, <1>1, FixedParts DEF IInv
<1>7. QED
    BY <1>5, <1>6 DEF ProcessImage, Fetched, FromImage, GetLaunchPermissions, Failures

LEMMA FinishRegionIInv ==
    ASSUME IInv, NEW r \in Regions, FinishRegion(r)
    PROVE  IInv'
<1>1. /\ UNCHANGED <<configured, phase, outcome, expectedPublic, expected, backend,
                     remaining, page, images, results>>
      /\ phase = "Describe" /\ page[r] = {} /\ remaining[r] = {}
      /\ task' = [task EXCEPT ![r] = "Done"]
    BY DEF FinishRegion
<1>2. Typed' /\ Covered'
    BY <1>1, FixedParts DEF IInv, Typed, Covered
<1>3. PublicOk' /\ ImagesFetched'
    BY <1>1, FetchedUnchanged DEF IInv, PublicOk, ImagesFetched
<1>4. ResultsOf'
    BY <1>1 DEF IInv, ResultsOf
<1>5. QED
    BY <1>2, <1>3, <1>4, FixedParts, <1>1 DEF IInv

LEMMA ValidateIInv ==
    ASSUME IInv, Validate
    PROVE  IInv'
<1>1. /\ UNCHANGED <<configured, outcome, expectedPublic, expected, backend, task,
                     remaining, page, images>>
      /\ phase = "Describe" /\ phase' = "Write"
      /\ results' = [r \in Regions |->
                       IF task[r] = "Done"
                          THEN ValidateImagesInRegion(expected[r], images[r], r)
                          ELSE Error]
    BY DEF Validate
<1>2. Typed' /\ Covered'
    <2>1. outcome' \in {"None", "Ok", "Err", "Panicked"}
        BY <1>1 DEF IInv, Typed
    <2>2. QED
        BY <1>1, <2>1, TypedKept, FixedParts DEF IInv, Covered
<1>3. PublicOk' /\ ImagesFetched'
    BY <1>1, FetchedUnchanged DEF IInv, PublicOk, ImagesFetched
<1>4. ResultsOf'
    BY <1>1 DEF ResultsOf, ValidateImagesInRegion
<1>5. QED
    BY <1>2, <1>3, <1>4, FixedParts, <1>1 DEF IInv

LEMMA EndIInv ==
    ASSUME IInv, WriteResults \/ PrintResults
    PROVE  IInv'
<1>1. /\ UNCHANGED <<configured, expectedPublic, expected, backend, task, remaining,
                     page, images, results>>
      /\ phase \in {"Write", "Print"} /\ phase' \in {"Print", "Done"}
    BY DEF WriteResults, PrintResults, Finish
<1>2. Typed' /\ Covered'
    <2>1. outcome' \in {"None", "Ok", "Err", "Panicked"}
        BY DEF WriteResults, PrintResults, Finish, IInv, Typed
    <2>2. QED
        BY <1>1, <2>1, TypedKept, FixedParts DEF IInv, Covered
<1>3. PublicOk' /\ ImagesFetched'
    BY <1>1, FetchedUnchanged DEF IInv, PublicOk, ImagesFetched
<1>4. ResultsOf'
    BY <1>1 DEF IInv, ResultsOf
<1>5. QED
    BY <1>2, <1>3, <1>4, FixedParts, <1>1 DEF IInv

LEMMA NextIInv ==
    IInv /\ [Next]_vars => IInv'
<1> SUFFICES ASSUME IInv, [Next]_vars PROVE IInv'
    OBVIOUS
<1>1. CASE Setup
    BY <1>1, SetupIInv
<1>2. CASE \E r \in Regions : NextPage(r)
    BY <1>2, NextPageIInv
<1>3. CASE \E r \in Regions, i \in Ids : ProcessImage(r, i)
    BY <1>3, ProcessImageIInv
<1>4. CASE \E r \in Regions : FinishRegion(r)
    BY <1>4, FinishRegionIInv
<1>5. CASE Validate
    BY <1>5, ValidateIInv
<1>6. CASE WriteResults \/ PrintResults
    BY <1>6, EndIInv
<1>7. CASE UNCHANGED vars
    <2>1. UNCHANGED <<expected, backend>>
        BY <1>7 DEF vars
    <2>2. QED
        BY <1>7, <2>1, FixedParts, FetchedUnchanged
           DEF vars, IInv, Typed, PublicOk, Covered, ImagesFetched, ResultsOf
<1>8. QED
    BY <1>1, <1>2, <1>3, <1>4, <1>5, <1>6, <1>7 DEF Next

-----------------------------------------------------------------------------
(* The verdicts.                                                           *)

(* Two ImageDefs are equal when their fields are.                         *)
LEMMA ImageDefEq ==
    ASSUME NEW a1, NEW b1, NEW c1, NEW d1, NEW a2, NEW b2, NEW c2, NEW d2
    PROVE  ([id |-> a1, public |-> b1, lp |-> c1, rest |-> d1] =
            [id |-> a2, public |-> b2, lp |-> c2, rest |-> d2])
           <=> (a1 = a2 /\ b1 = b2 /\ c1 = c2 /\ d1 = d2)
OBVIOUS

(* The status validate_images_in_region gives an expected image against   *)
(* the image fetched with the expected publicity is the spec's.           *)
LEMMA Verdict ==
    ASSUME NEW e \in ExpRecs, NEW l \in LiveImages
    PROVE  LET act == IF e.public THEN FromImage(e.id, l)
                                  ELSE [FromImage(e.id, l) EXCEPT !.lp = l.perms]
           IN  Status(Canonical(e), act) = IF Matches(e, l) THEN "Correct" ELSE "Incorrect"
<1> DEFINE act == IF e.public THEN FromImage(e.id, l)
                              ELSE [FromImage(e.id, l) EXCEPT !.lp = l.perms]
<1>1. act \in ImageDefs
    BY ConstantsAssumption DEF ExpRecs, FromImage, ImageDefs
<1>2. act # None
    BY <1>1, NoneAssumption
<1>3. (Canonical(e) = act) <=> Matches(e, l)
    <2>1. e = [id |-> e.id, public |-> e.public, lp |-> e.lp, rest |-> e.rest]
        BY DEF ExpRecs
    <2>2. CASE e.public
        <3>1. Canonical(e) = [id |-> e.id, public |-> TRUE, lp |-> None, rest |-> e.rest]
            BY <2>1, <2>2 DEF Canonical
        <3>2. act = [id |-> e.id, public |-> l.public, lp |-> None, rest |-> l.rest]
            BY <2>2 DEF FromImage
        <3>3. ([id |-> e.id, public |-> TRUE, lp |-> None, rest |-> e.rest] =
               [id |-> e.id, public |-> l.public, lp |-> None, rest |-> l.rest])
              <=> (TRUE = l.public /\ e.rest = l.rest)
            BY ImageDefEq
        <3>4. QED
            BY <2>2, <3>1, <3>2, <3>3 DEF Matches
    <2>3. CASE ~e.public
        <3>1. Canonical(e) = [id |-> e.id, public |-> FALSE, lp |-> e.lp, rest |-> e.rest]
            BY <2>1, <2>3 DEF Canonical, ExpRecs
        <3>2. act = [id |-> e.id, public |-> l.public, lp |-> l.perms, rest |-> l.rest]
            BY <2>3 DEF FromImage
        <3>3. ([id |-> e.id, public |-> FALSE, lp |-> e.lp, rest |-> e.rest] =
               [id |-> e.id, public |-> l.public, lp |-> l.perms, rest |-> l.rest])
              <=> (FALSE = l.public /\ e.lp = l.perms /\ e.rest = l.rest)
            BY ImageDefEq
        <3>4. QED
            BY <2>3, <3>1, <3>2, <3>3 DEF Matches, ExpRecs
    <2>4. QED
        BY <2>2, <2>3 DEF ExpRecs
<1>4. QED
    BY <1>2, <1>3 DEF Status

(* For a region whose future returned Ok, validate_images_in_region gives  *)
(* one result per expected image, with the spec's verdict.                *)
LEMMA RegionStatus ==
    ASSUME IInv, UniqueIds, NEW r \in Regions, task[r] = "Done"
    PROVE  LET V == ValidateImagesInRegion(expected[r], images[r], r)
           IN  /\ {res.id : res \in V} = RequestedIds(r)
               /\ \A res \in V, e \in expected[r] :
                     res.id = e.id =>
                        res.status = IF e.id \notin DOMAIN backend[r] THEN "Missing"
                                     ELSE IF Matches(e, backend[r][e.id]) THEN "Correct"
                                     ELSE "Incorrect"
<1> DEFINE V == ValidateImagesInRegion(expected[r], images[r], r)
<1>1. V = ValidateImagesInRegion(expected[r], images[r], r)
    OBVIOUS
<1>2. DOMAIN images[r] = Described(r)
    BY <1>1 DEF IInv, Covered
<1>3. {res.id : res \in V} = RequestedIds(r)
    <2>1. \A res \in V : \E e \in expected[r] : res.id = e.id
        BY <1>1 DEF ValidateImagesInRegion
    <2>2. \A e \in expected[r] : \E res \in V : res.id = e.id
        <3>1. SUFFICES ASSUME NEW e \in expected[r]
                       PROVE  \E res \in V : res.id = e.id
            OBVIOUS
        <3>2. LET act == IF e.id \in DOMAIN images[r] THEN images[r][e.id] ELSE None
              IN  [id |-> e.id, expected |-> Canonical(e), actual |-> act,
                   region |-> r, status |-> Status(Canonical(e), act)] \in V
            BY <1>1 DEF ValidateImagesInRegion
        <3>3. QED
            BY <3>2
    <2>3. QED
        BY <2>1, <2>2 DEF RequestedIds
<1>4. ASSUME NEW res \in V, NEW e \in expected[r], res.id = e.id
      PROVE  res.status = IF e.id \notin DOMAIN backend[r] THEN "Missing"
                          ELSE IF Matches(e, backend[r][e.id]) THEN "Correct"
                          ELSE "Incorrect"
    <2> DEFINE Act(x) == IF x.id \in DOMAIN images[r] THEN images[r][x.id] ELSE None
    <2>1. PICK e2 \in expected[r] : res.id = e2.id /\ res.status = Status(Canonical(e2), Act(e2))
        BY <1>1 DEF ValidateImagesInRegion
    <2>2. e2 = e
        BY <1>4, <2>1 DEF IInv, UniqueIds
    <2>3. e \in ExpRecs
        BY DEF IInv, Typed
    <2>4. CASE e.id \notin DOMAIN backend[r]
        <3>1. e.id \notin DOMAIN images[r]
            BY <1>2, <2>4 DEF Described
        <3>2. QED
            BY <2>1, <2>2, <2>4, <3>1 DEF Status
    <2>5. CASE e.id \in DOMAIN backend[r]
        <3>1. e.id \in DOMAIN images[r]
            BY <1>2, <2>5 DEF Described, RequestedIds
        <3>2. e.id \in DOMAIN expectedPublic /\ images[r][e.id] = Fetched(r, e.id)
            BY <3>1 DEF IInv, ImagesFetched
        <3>3. expectedPublic[e.id] = e.public
            BY <3>2 DEF IInv, PublicOk, UniqueIds
        <3>4. backend[r][e.id] \in LiveImages
            BY <2>5 DEF IInv, Typed
        <3>5. Status(Canonical(e), Fetched(r, e.id))
                = IF Matches(e, backend[r][e.id]) THEN "Correct" ELSE "Incorrect"
            BY <2>3, <3>3, <3>4, Verdict DEF Fetched, GetLaunchPermissions
        <3>6. QED
            BY <2>1, <2>2, <2>5, <3>1, <3>2, <3>5
    <2>6. QED
        BY <2>4, <2>5
<1>5. QED
    BY <1>3, <1>4

(* IInv and UniqueIds give the spec's verdict for every region that        *)
(* succeeded.                                                              *)
LEMMA IInvStatus ==
    IInv /\ UniqueIds => StatusMatchesLive
<1> SUFFICES ASSUME IInv, UniqueIds, results # None, NEW r \in Regions, results[r] # Error
             PROVE  /\ {res.id : res \in results[r]} = RequestedIds(r)
                    /\ \A res \in results[r], e \in expected[r] :
                          res.id = e.id =>
                             res.status = IF e.id \notin DOMAIN backend[r] THEN "Missing"
                                          ELSE IF Matches(e, backend[r][e.id]) THEN "Correct"
                                          ELSE "Incorrect"
    BY DEF StatusMatchesLive
<1>1. task[r] = "Done" /\ results[r] = ValidateImagesInRegion(expected[r], images[r], r)
    BY DEF IInv, ResultsOf
<1>2. QED
    BY <1>1, RegionStatus

(* No step changes the expected-AMI file.                                  *)
LEMMA NextUnique ==
    UniqueIds /\ [Next]_vars => UniqueIds'
BY DEF UniqueIds, Next, vars, Setup, NextPage, ProcessImage, FinishRegion, Validate,
       WriteResults, PrintResults

(* When the expected-AMI file lists every id in one region (EC2 image ids  *)
(* are unique), validate-ami reports every region that succeeded with the  *)
(* spec's verdicts: Missing, Correct or Incorrect against the live image. *)
THEOREM StatusMatchesLiveHolds ==
    ASSUME DistinctIds
    PROVE  Spec => []StatusMatchesLive
<1>1. Init => IInv /\ UniqueIds
    BY InitIInv, InitUnique
<1>2. IInv /\ UniqueIds /\ [Next]_vars => IInv' /\ UniqueIds'
    BY NextIInv, NextUnique
<1>3. IInv /\ UniqueIds => StatusMatchesLive
    BY IInvStatus
<1>4. QED
    BY <1>1, <1>2, <1>3, PTL DEF Spec

-----------------------------------------------------------------------------
(* Type correctness, with no assumption on how the file lists its ids.    *)

(* validate_images_in_region builds AmiValidationResults.                  *)
LEMMA ResultsType ==
    ASSUME NEW r \in Regions, NEW exps \in SUBSET ExpRecs,
           NEW actual, \A i \in DOMAIN actual : actual[i] \in ImageDefs
    PROVE  ValidateImagesInRegion(exps, actual, r) \in SUBSET ResultRecs
<1> SUFFICES ASSUME NEW e \in exps
             PROVE  LET act == IF e.id \in DOMAIN actual THEN actual[e.id] ELSE None
                    IN  [id |-> e.id, expected |-> Canonical(e), actual |-> act,
                         region |-> r, status |-> Status(Canonical(e), act)] \in ResultRecs
    BY DEF ValidateImagesInRegion
<1>1. Canonical(e) \in ImageDefs
    BY DEF Canonical, ExpRecs, ImageDefs
<1>2. QED
    BY <1>1 DEF ResultRecs, Status, ExpRecs

(* IInv gives TypeOK.                                                      *)
LEMMA IInvTypeOK ==
    IInv => TypeOK
<1> SUFFICES ASSUME IInv PROVE TypeOK
    OBVIOUS
<1>1. expected \in [Regions -> SUBSET ImageDefs]
    BY DEF IInv, Typed, ExpRecs, ImageDefs
<1>2. \A r \in Regions : DOMAIN images[r] \subseteq Ids
    BY DEF IInv, Typed, Covered, Described
<1>3. results = None \/ results \in [Regions -> {Error} \cup SUBSET ResultRecs]
    <2>1. CASE results # None
        <3>1. \A r \in Regions : task[r] = "Done" =>
                 ValidateImagesInRegion(expected[r], images[r], r) \in SUBSET ResultRecs
            BY ResultsType DEF IInv, Typed
        <3>2. QED
            BY <2>1, <3>1 DEF IInv, ResultsOf
    <2>2. QED
        BY <2>1
<1>4. QED
    BY <1>1, <1>2, <1>3 DEF IInv, Typed, TypeOK

(* Every state of validate-ami has the types TypeOK names, whatever the    *)
(* expected-AMI file and EC2 hold.                                         *)
THEOREM TypeCorrect ==
    Spec => []TypeOK
<1>1. Init => IInv
    BY InitIInv
<1>2. IInv /\ [Next]_vars => IInv'
    BY NextIInv
<1>3. QED
    BY <1>1, <1>2, IInvTypeOK, PTL DEF Spec

=============================================================================

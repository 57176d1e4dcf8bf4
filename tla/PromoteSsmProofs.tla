-------------------------- MODULE PromoteSsmProofs --------------------------
(***************************************************************************)
(* Proofs about PromoteSsm, for every value of the constants.             *)
(***************************************************************************)
EXTENDS PromoteSsm, TLAPS

-----------------------------------------------------------------------------
(* Lemmas about names and keys.                                            *)

LEMMA RenderType ==
    ASSUME NEW t \in Templates, NEW v \in {Src, Tgt}
    PROVE  Render(t, v) \in Names
BY DEF Names

(* A rendered name determines its template.                                *)
LEMMA RenderInjective ==
    ASSUME NEW t1 \in Templates, NEW t2 \in Templates, NEW v1, NEW v2,
           Render(t1, v1) = Render(t2, v2)
    PROVE  t1 = t2
BY DEF Render

(* source_target_map sends the source name of a template to its target    *)
(* name.                                                                   *)
LEMMA SourceTargetMapValue ==
    ASSUME NEW t \in Templates
    PROVE  /\ Render(t, Src) \in DOMAIN SourceTargetMap
           /\ SourceTargetMap[Render(t, Src)] = Render(t, Tgt)
<1>1. Render(t, Src) \in Range(SourceParameterMap)
  BY DEF Range, SourceParameterMap
<1>2. \A u \in Templates : SourceParameterMap[u] = Render(t, Src) => u = t
  BY RenderInjective DEF SourceParameterMap
<1>3. (CHOOSE u \in Templates : SourceParameterMap[u] = Render(t, Src)) = t
  BY <1>2 DEF SourceParameterMap
<1>. QED  BY <1>1, <1>3 DEF SourceTargetMap, TargetParameterMap

(* A source key is promoted to the target key of the same template and     *)
(* region.                                                                 *)
LEMMA PromotedValue ==
    ASSUME NEW r, NEW t \in Templates
    PROVE  Promoted(<<r, Render(t, Src)>>) = <<r, Render(t, Tgt)>>
BY SourceTargetMapValue DEF Promoted

LEMMA SourceKeysForm ==
    ASSUME NEW R, NEW k \in SourceKeys(R)
    PROVE  \E r \in R, t \in Templates : k = <<r, Render(t, Src)>>
BY DEF SourceKeys, Range, SourceParameterMap

LEMMA PromotedType ==
    ASSUME NEW R, NEW k \in SourceKeys(R)
    PROVE  Promoted(k) \in TargetKeys(R)
<1>1. PICK r \in R, t \in Templates : k = <<r, Render(t, Src)>>
  BY SourceKeysForm
<1>. QED  BY <1>1, PromotedValue DEF TargetKeys, Range, TargetParameterMap

LEMMA KeysTypes ==
    /\ SourceKeys(Regions) \subseteq Keys
    /\ TargetKeys(Regions) \subseteq Keys
BY DEF SourceKeys, TargetKeys, Keys, Names, Range, SourceParameterMap,
       TargetParameterMap

-----------------------------------------------------------------------------
(* Lemmas about the pure helpers.                                          *)

LEMMA GetParametersType ==
    ASSUME IsParamMap(ssm, Keys), NEW K
    PROVE  IsParamMap(GetParameters(K), K)
BY DEF GetParameters, Restrict, IsParamMap

LEMMA WantMapType ==
    ASSUME NEW src, IsParamMap(src, SourceKeys(Regions))
    PROVE  IsParamMap(WantMap(src), TargetKeys(Regions))
<1>1. \A k \in DOMAIN src : Promoted(k) \in TargetKeys(Regions)
  BY PromotedType DEF IsParamMap
<1>2. ASSUME NEW tk \in {Promoted(k) : k \in DOMAIN src}
      PROVE  src[CHOOSE k \in DOMAIN src : Promoted(k) = tk] \in Vals
  BY <1>2 DEF IsParamMap
<1>. QED  BY <1>1, <1>2 DEF WantMap, IsParamMap

LEMMA KeyDifferenceType ==
    ASSUME NEW want, NEW have, NEW K, IsParamMap(want, K)
    PROVE  IsParamMap(KeyDifference(want, have), K)
BY DEF KeyDifference, IsParamMap

LEMMA CombineParametersType ==
    ASSUME NEW persisted, NEW set,
           IsParamMap(persisted, Keys), IsParamMap(set, TargetKeys(Regions)),
           ~CombinePanics(persisted, set)
    PROVE  IsParamMap(CombineParameters(persisted, set), Keys)
<1>1. \A k \in DOMAIN persisted : Promoted(k) \in DOMAIN set
  BY DEF CombinePanics
<1>. QED  BY <1>1, KeysTypes DEF CombineParameters, IsParamMap

-----------------------------------------------------------------------------
(* Type correctness.                                                       *)

LEMMA InitTypeOK == Init => TypeOK
<1>. SUFFICES ASSUME Init PROVE TypeOK  OBVIOUS
<1>1. IsParamMap(ssm, Keys)
  BY DEF Init, ParamMaps, IsParamMap
<1>2. IsParamMap(file, Keys)
  BY <1>1 DEF Init, IsParamMap, Restrict
<1>3. IsParamMap(srcParams, SourceKeys(Regions)) /\ IsParamMap(setParams, TargetKeys(Regions))
  BY DEF Init, IsParamMap
<1>. QED  BY <1>1, <1>2, <1>3 DEF Init, TypeOK

LEMMA NextTypeOK == TypeOK /\ [Next]_vars => TypeOK'
<1>. SUFFICES ASSUME TypeOK, [Next]_vars PROVE TypeOK'  OBVIOUS
<1>1. ASSUME NEW R \in SUBSET Regions, NEW out \in BOOLEAN, Start(R, out)
      PROVE  TypeOK'
  BY <1>1 DEF Start, TypeOK, IsParamMap
<1>2. ASSUME FetchSource PROVE TypeOK'
  <2>1. IsParamMap(GetParameters(SourceKeys(regions)), SourceKeys(Regions))
    <3>1. IsParamMap(GetParameters(SourceKeys(regions)), SourceKeys(regions))
      BY GetParametersType DEF TypeOK
    <3>. QED  BY <3>1 DEF TypeOK, IsParamMap, SourceKeys
  <2>. QED  BY <1>2, <2>1 DEF FetchSource, Finish, TypeOK
<1>3. ASSUME FetchTarget PROVE TypeOK'
  <2>1. IsParamMap(KeyDifference(WantMap(srcParams),
                                 GetParameters(TargetKeys(regions))),
                   TargetKeys(Regions))
    BY WantMapType, KeyDifferenceType DEF TypeOK
  <2>. QED  BY <1>3, <2>1 DEF FetchTarget, Finish, TypeOK
<1>4. ASSUME WriteFile PROVE TypeOK'
  <2>1. file # Corrupt /\ ~CombinePanics(file, setParams)
        => IsParamMap(CombineParameters(file, setParams), Keys)
    BY CombineParametersType DEF TypeOK
  <2>. QED  BY <1>4, <2>1 DEF WriteFile, Finish, TypeOK
<1>5. ASSUME SetParams PROVE TypeOK'
  <2>1. PICK W \in SUBSET DOMAIN setParams :
            /\ ssm' = [k \in DOMAIN ssm \cup W |->
                          IF k \in W THEN setParams[k] ELSE ssm[k]]
            /\ IF W = DOMAIN setParams
                  THEN pc' = "ValidateParams" /\ UNCHANGED result
                  ELSE Finish("Failed")
    BY <1>5 DEF SetParams
  <2>2. IsParamMap(ssm', Keys)
    BY <2>1, KeysTypes DEF TypeOK, IsParamMap
  <2>3. pc' \in {"Idle", "ValidateParams"} /\ result' \in {result, "Failed"}
    BY <2>1 DEF Finish
  <2>. QED  BY <1>5, <2>2, <2>3 DEF SetParams, TypeOK
<1>6. ASSUME ValidateParams PROVE TypeOK'
  BY <1>6 DEF ValidateParams, Finish, TypeOK
<1>7. CASE UNCHANGED vars
  BY <1>7 DEF vars, TypeOK, IsParamMap
<1>. QED  BY <1>1, <1>2, <1>3, <1>4, <1>5, <1>6, <1>7 DEF Next

(* Every state of every behaviour is well typed.                           *)
THEOREM TypeCorrect == Spec => []TypeOK
BY InitTypeOK, NextTypeOK, PTL DEF Spec

-----------------------------------------------------------------------------
(* The inductive invariant behind PromotionComplete.                       *)

SK(r, t) == <<r, Render(t, Src)>>
TK(r, t) == <<r, Render(t, Tgt)>>

(* In the regions R, every existing source parameter has been copied.      *)
Complete(R) ==
    \A r \in R, t \in Templates :
        SK(r, t) \in DOMAIN ssm =>
            TK(r, t) \in DOMAIN ssm /\ ssm[TK(r, t)] = ssm[SK(r, t)]

(* The write-set holds, for each target key it names, the value of its     *)
(* source key, which the store does not already hold there ...             *)
DiffSound ==
    /\ DOMAIN setParams \subseteq TargetKeys(regions)
    /\ \A r \in regions, t \in Templates :
          TK(r, t) \in DOMAIN setParams =>
             /\ SK(r, t) \in DOMAIN ssm
             /\ setParams[TK(r, t)] = ssm[SK(r, t)]
             /\ TK(r, t) \in DOMAIN ssm => ssm[TK(r, t)] # setParams[TK(r, t)]

(* ... and names every target key whose value differs from its source.     *)
DiffComplete ==
    \A r \in regions, t \in Templates :
        SK(r, t) \in DOMAIN ssm =>
            \/ TK(r, t) \in DOMAIN setParams
            \/ TK(r, t) \in DOMAIN ssm /\ ssm[TK(r, t)] = ssm[SK(r, t)]

IInv ==
    /\ TypeOK
    /\ result = "Ok" => pc = "Idle" /\ Complete(regions)
    /\ pc = "FetchTarget" => srcParams = GetParameters(SourceKeys(regions))
    /\ pc \in {"WriteFile", "SetParams"} => DiffSound /\ DiffComplete
    /\ pc = "ValidateParams" => Complete(regions)

-----------------------------------------------------------------------------
(* Lemmas for the inductive invariant.                                     *)

LEMMA KeyInjective ==
    ASSUME NEW r1, NEW r2, NEW t1 \in Templates, NEW t2 \in Templates,
           NEW v1, NEW v2, <<r1, Render(t1, v1)>> = <<r2, Render(t2, v2)>>
    PROVE  r1 = r2 /\ t1 = t2
BY RenderInjective

LEMMA TargetKeysForm ==
    ASSUME NEW R, NEW k \in TargetKeys(R)
    PROVE  \E r \in R, t \in Templates : k = TK(r, t)
BY DEF TargetKeys, Range, TargetParameterMap, TK

(* The re-keyed source map holds the target key of a template exactly     *)
(* when the source map holds its source key, with the same value.          *)
LEMMA WantMapValue ==
    ASSUME NEW src, IsParamMap(src, SourceKeys(Regions)),
           NEW r \in Regions, NEW t \in Templates
    PROVE  /\ TK(r, t) \in DOMAIN WantMap(src) <=> SK(r, t) \in DOMAIN src
           /\ TK(r, t) \in DOMAIN WantMap(src) =>
                 WantMap(src)[TK(r, t)] = src[SK(r, t)]
<1>1. \A k \in DOMAIN src : Promoted(k) = TK(r, t) <=> k = SK(r, t)
  <2>1. SUFFICES ASSUME NEW k \in DOMAIN src PROVE Promoted(k) = TK(r, t) <=> k = SK(r, t)
    OBVIOUS
  <2>2. PICK r2 \in Regions, t2 \in Templates : k = SK(r2, t2)
    BY SourceKeysForm DEF IsParamMap, SK
  <2>3. Promoted(k) = TK(r2, t2)
    BY <2>2, PromotedValue DEF SK, TK
  <2>4. TK(r2, t2) = TK(r, t) <=> r2 = r /\ t2 = t
    BY KeyInjective DEF TK
  <2>5. SK(r2, t2) = SK(r, t) <=> r2 = r /\ t2 = t
    BY KeyInjective DEF SK
  <2>. QED  BY <2>2, <2>3, <2>4, <2>5
<1>. QED  BY <1>1 DEF WantMap

(* The write-set of a region set only names target keys of those regions. *)
LEMMA WantMapDomain ==
    ASSUME NEW src, NEW R, IsParamMap(src, SourceKeys(R))
    PROVE  DOMAIN WantMap(src) \subseteq TargetKeys(R)
BY PromotedType DEF WantMap, IsParamMap

-----------------------------------------------------------------------------
(* PromotionComplete.                                                      *)

LEMMA InitIInv == Init => IInv
BY InitTypeOK DEF Init, IInv

(* The step that fetches the target parameters computes a write-set that   *)
(* is sound and complete, or finds the promotion already complete.         *)
LEMMA FetchTargetIInv ==
    ASSUME IInv, FetchTarget
    PROVE  IInv'
<1>. DEFINE have == GetParameters(TargetKeys(regions))
            want == WantMap(srcParams)
            diff == KeyDifference(want, have)
<1>1. TypeOK' BY NextTypeOK DEF IInv, Next
<1>2. /\ pc = "FetchTarget"
      /\ srcParams = GetParameters(SourceKeys(regions))
      /\ UNCHANGED <<ssm, regions>>
      /\ regions \subseteq Regions
  BY DEF IInv, FetchTarget, TypeOK
<1>3. ASSUME NEW r \in regions, NEW t \in Templates
      PROVE  /\ TK(r, t) \in DOMAIN diff <=>
                 SK(r, t) \in DOMAIN ssm /\
                 (TK(r, t) \in DOMAIN ssm => ssm[TK(r, t)] # ssm[SK(r, t)])
             /\ TK(r, t) \in DOMAIN diff => diff[TK(r, t)] = ssm[SK(r, t)]
  <2>1. SK(r, t) \in SourceKeys(regions) /\ TK(r, t) \in TargetKeys(regions)
    BY DEF SK, TK, SourceKeys, TargetKeys, Range, SourceParameterMap,
           TargetParameterMap
  <2>2. /\ SK(r, t) \in DOMAIN srcParams <=> SK(r, t) \in DOMAIN ssm
        /\ SK(r, t) \in DOMAIN srcParams => srcParams[SK(r, t)] = ssm[SK(r, t)]
    BY <1>2, <2>1 DEF GetParameters, Restrict
  <2>3. /\ TK(r, t) \in DOMAIN have <=> TK(r, t) \in DOMAIN ssm
        /\ TK(r, t) \in DOMAIN have => have[TK(r, t)] = ssm[TK(r, t)]
    BY <2>1 DEF GetParameters, Restrict
  <2>4. /\ TK(r, t) \in DOMAIN want <=> SK(r, t) \in DOMAIN srcParams
        /\ TK(r, t) \in DOMAIN want => want[TK(r, t)] = srcParams[SK(r, t)]
    BY <1>2, WantMapValue DEF IInv, TypeOK
  <2>. QED  BY <2>2, <2>3, <2>4 DEF KeyDifference
<1>4. CASE diff = <<>> /\ Finish("Ok") /\ UNCHANGED setParams
  <2>1. \A r \in regions, t \in Templates : TK(r, t) \notin DOMAIN diff
    BY <1>4
  <2>2. Complete(regions)'
    BY <1>2, <1>3, <2>1 DEF Complete
  <2>. QED  BY <1>1, <1>4, <2>2 DEF IInv, Finish
<1>5. CASE /\ diff # <<>>
           /\ setParams' = diff
           /\ pc' = IF output THEN "WriteFile" ELSE "SetParams"
           /\ UNCHANGED result
  <2>1. DOMAIN diff \subseteq TargetKeys(regions)
    <3>1. IsParamMap(srcParams, SourceKeys(regions))
      BY <1>2 DEF GetParameters, Restrict, IsParamMap, IInv, TypeOK
    <3>. QED  BY <3>1, WantMapDomain DEF KeyDifference
  <2>2. DiffSound'
    BY <1>2, <1>3, <1>5, <2>1 DEF DiffSound
  <2>3. DiffComplete'
    BY <1>2, <1>3, <1>5 DEF DiffComplete
  <2>4. result # "Ok"
    BY <1>2 DEF IInv
  <2>. QED  BY <1>1, <1>5, <2>2, <2>3, <2>4 DEF IInv
<1>6. CASE Finish("Failed") /\ UNCHANGED setParams
  BY <1>1, <1>6 DEF IInv, Finish
<1>. QED  BY <1>4, <1>5, <1>6 DEF FetchTarget

(* A source key is never in a sound write-set: for an unversioned template *)
(* the source and target names coincide, and then the store already holds *)
(* the value the write-set would give it.                                  *)
LEMMA SourceNotWritten ==
    ASSUME TypeOK, DiffSound, NEW r \in regions, NEW t \in Templates
    PROVE  SK(r, t) \notin DOMAIN setParams
<1>. SUFFICES ASSUME SK(r, t) \in DOMAIN setParams PROVE FALSE  OBVIOUS
<1>1. PICK r2 \in regions, t2 \in Templates : SK(r, t) = TK(r2, t2)
  BY TargetKeysForm DEF DiffSound
<1>2. r2 = r /\ t2 = t
  BY <1>1, KeyInjective DEF SK, TK
<1>3. TK(r, t) \in DOMAIN setParams /\ SK(r, t) = TK(r, t)
  BY <1>1, <1>2
<1>. QED  BY <1>1, <1>2, <1>3 DEF DiffSound

(* A complete write of a sound and complete write-set completes the        *)
(* promotion.                                                              *)
LEMMA SetParamsIInv ==
    ASSUME IInv, SetParams
    PROVE  IInv'
<1>1. TypeOK' BY NextTypeOK DEF IInv, Next
<1>2. pc = "SetParams" /\ DiffSound /\ DiffComplete /\ result # "Ok"
  BY DEF SetParams, IInv
<1>3. PICK W \in SUBSET DOMAIN setParams :
        /\ ssm' = [k \in DOMAIN ssm \cup W |->
                      IF k \in W THEN setParams[k] ELSE ssm[k]]
        /\ IF W = DOMAIN setParams
              THEN pc' = "ValidateParams" /\ UNCHANGED result
              ELSE Finish("Failed")
  BY DEF SetParams
<1>4. UNCHANGED <<regions, setParams>>
  BY DEF SetParams
<1>5. CASE W = DOMAIN setParams
  <2>1. ASSUME NEW r \in regions, NEW t \in Templates, SK(r, t) \in DOMAIN ssm'
        PROVE  TK(r, t) \in DOMAIN ssm' /\ ssm'[TK(r, t)] = ssm'[SK(r, t)]
    <3>1. SK(r, t) \notin W => SK(r, t) \in DOMAIN ssm /\ ssm'[SK(r, t)] = ssm[SK(r, t)]
      BY <1>3, <2>1
    <3>3. SK(r, t) \notin W
      BY <1>2, <1>5, SourceNotWritten DEF IInv
    <3>2. SK(r, t) \in DOMAIN ssm
      BY <1>3, <2>1, <3>3
    <3>4. CASE TK(r, t) \in W
      BY <1>2, <1>3, <3>1, <3>3, <3>4 DEF DiffSound
    <3>5. CASE TK(r, t) \notin W
      BY <1>2, <1>3, <1>5, <3>1, <3>3, <3>5 DEF DiffComplete
    <3>. QED  BY <3>4, <3>5
  <2>2. Complete(regions)'
    BY <1>4, <2>1 DEF Complete
  <2>. QED  BY <1>1, <1>3, <1>5, <1>2, <2>2 DEF IInv
<1>6. CASE W # DOMAIN setParams
  BY <1>1, <1>3, <1>6 DEF IInv, Finish
<1>. QED  BY <1>5, <1>6

LEMMA NextIInv == IInv /\ [Next]_vars => IInv'
<1>. SUFFICES ASSUME IInv, [Next]_vars PROVE IInv'  OBVIOUS
<1>1. TypeOK' BY NextTypeOK DEF IInv
<1>2. ASSUME NEW R \in SUBSET Regions, NEW out \in BOOLEAN, Start(R, out)
      PROVE  IInv'
  BY <1>1, <1>2 DEF Start, IInv
<1>3. CASE FetchSource
  <2>1. UNCHANGED <<ssm, regions>> /\ pc = "FetchSource"
    BY <1>3 DEF FetchSource
  <2>2. GetParameters(SourceKeys(regions))' = GetParameters(SourceKeys(regions))
    BY <2>1 DEF GetParameters, SourceKeys
  <2>. QED  BY <1>1, <1>3, <2>1, <2>2 DEF FetchSource, IInv, Finish
<1>4. CASE FetchTarget
  BY <1>4, FetchTargetIInv
<1>5. CASE WriteFile
  <2>1. UNCHANGED <<ssm, regions, setParams>> /\ pc = "WriteFile"
    BY <1>5 DEF WriteFile
  <2>2. DiffSound' /\ DiffComplete' /\ result # "Ok"
    BY <2>1 DEF IInv, DiffSound, DiffComplete
  <2>. QED  BY <1>1, <1>5, <2>1, <2>2 DEF WriteFile, IInv, Finish
<1>6. CASE SetParams
  BY <1>6, SetParamsIInv
<1>7. CASE ValidateParams
  <2>1. UNCHANGED <<ssm, regions>> /\ Complete(regions)
    BY <1>7 DEF ValidateParams, IInv
  <2>2. Complete(regions)'
    BY <2>1 DEF Complete
  <2>. QED  BY <1>1, <1>7, <2>2 DEF ValidateParams, IInv, Finish
<1>8. CASE UNCHANGED vars
  BY <1>8 DEF vars, IInv, TypeOK, IsParamMap, Complete, DiffSound,
              DiffComplete, GetParameters, SourceKeys, TargetKeys
<1>. QED  BY <1>2, <1>3, <1>4, <1>5, <1>6, <1>7, <1>8 DEF Next

(* Every invocation that reports success (validated writes, or "No changes *)
(* necessary") leaves each source parameter of the regions it was given    *)
(* copied to its target name, whatever the store held before and however  *)
(* earlier invocations failed (promote_ssm::run, mod.rs).                  *)
THEOREM PromotionCompleteHolds == Spec => []PromotionComplete
<1>1. IInv => PromotionComplete
  BY DEF IInv, Complete, PromotionComplete, SK, TK
<1>. QED  BY InitIInv, NextIInv, <1>1, PTL DEF Spec

(* The body of WritesCopySource: a step adds or changes only target keys,  *)
(* each to the current value of its source key, and deletes nothing.      *)
CopyStep ==
    /\ DOMAIN ssm \subseteq DOMAIN ssm'
    /\ \A k \in Keys : Changed(k) =>
          \E t \in Templates :
             LET sk == <<k[1], Render(t, Src)>>
             IN  /\ k = <<k[1], Render(t, Tgt)>>
                 /\ sk \in DOMAIN ssm
                 /\ ssm'[k] = ssm[sk]

(* The only step that changes the store writes a sound write-set.          *)
LEMMA NextCopyStep == IInv /\ [Next]_vars => CopyStep
<1>. SUFFICES ASSUME IInv, [Next]_vars PROVE CopyStep  OBVIOUS
<1>1. CASE SetParams
  <2>1. pc = "SetParams" /\ DiffSound
    BY <1>1 DEF SetParams, IInv
  <2>2. PICK W \in SUBSET DOMAIN setParams :
          ssm' = [k \in DOMAIN ssm \cup W |->
                    IF k \in W THEN setParams[k] ELSE ssm[k]]
    BY <1>1 DEF SetParams
  <2>3. DOMAIN ssm \subseteq DOMAIN ssm'
    BY <2>2
  <2>4. ASSUME NEW k \in Keys, Changed(k)
        PROVE  \E t \in Templates :
                  LET sk == <<k[1], Render(t, Src)>>
                  IN  /\ k = <<k[1], Render(t, Tgt)>>
                      /\ sk \in DOMAIN ssm
                      /\ ssm'[k] = ssm[sk]
    <3>1. k \in W
      BY <2>2, <2>4 DEF Changed
    <3>2. PICK r \in regions, t \in Templates : k = TK(r, t)
      BY <2>1, <3>1, TargetKeysForm DEF DiffSound
    <3>3. SK(r, t) \in DOMAIN ssm /\ ssm'[k] = ssm[SK(r, t)]
      BY <2>1, <2>2, <3>1, <3>2 DEF DiffSound
    <3>. QED  BY <3>2, <3>3 DEF SK, TK
  <2>. QED  BY <2>3, <2>4 DEF CopyStep
<1>2. CASE ~SetParams
  <2>1. ssm' = ssm
    BY <1>2 DEF Next, vars, Start, FetchSource, FetchTarget, WriteFile,
                ValidateParams
  <2>. QED  BY <2>1 DEF CopyStep, Changed
<1>. QED  BY <1>1, <1>2

(* No step of any invocation deletes a parameter or writes anything but   *)
(* the current value of the source name of the same template and region   *)
(* to its target name (promote_ssm::run, mod.rs, and ssm::set_parameters). *)
THEOREM WritesCopySourceHolds == Spec => WritesCopySource
<1>1. IInv /\ [Next]_vars => [CopyStep]_vars
  BY NextCopyStep
<1>. QED  BY InitIInv, NextIInv, <1>1, PTL DEF Spec, WritesCopySource, CopyStep

-----------------------------------------------------------------------------
(* FileMatchesStore.                                                       *)

(* An entry of the output file is the source or the target key of a        *)
(* template in a region, and holds the current value of its source key.    *)
FileEntry(k) ==
    \E r \in Regions, t \in Templates :
        /\ k = SK(r, t) \/ k = TK(r, t)
        /\ SK(r, t) \in DOMAIN ssm
        /\ file[k] = ssm[SK(r, t)]

FileInv == file # Corrupt => \A k \in DOMAIN file : FileEntry(k)

(* No sound write-set names a source key, of the invocation's regions or   *)
(* of any other.                                                           *)
LEMMA SourceUntouched ==
    ASSUME TypeOK, DiffSound, NEW r \in Regions, NEW t \in Templates
    PROVE  SK(r, t) \notin DOMAIN setParams
<1>. SUFFICES ASSUME SK(r, t) \in DOMAIN setParams PROVE FALSE  OBVIOUS
<1>1. PICK r2 \in regions, t2 \in Templates : SK(r, t) = TK(r2, t2)
  BY TargetKeysForm DEF DiffSound
<1>2. r \in regions
  BY <1>1, KeyInjective DEF SK, TK
<1>. QED  BY <1>2, SourceNotWritten

LEMMA InitFileInv == Init => FileInv
<1>. SUFFICES ASSUME Init, NEW k \in DOMAIN file PROVE FileEntry(k)
  BY DEF FileInv
<1>1. PICK R \in SUBSET Regions : file = Restrict(ssm, SourceKeys(R) \cap DOMAIN ssm)
  BY DEF Init
<1>2. k \in SourceKeys(R) /\ k \in DOMAIN ssm /\ file[k] = ssm[k]
  BY <1>1 DEF Restrict
<1>3. PICK r \in R, t \in Templates : k = SK(r, t)
  BY <1>2, SourceKeysForm DEF SK
<1>. QED  BY <1>1, <1>2, <1>3 DEF FileEntry

(* A write leaves every source value in place.                             *)
LEMMA SetParamsFileInv ==
    ASSUME IInv, FileInv, SetParams
    PROVE  FileInv'
<1>1. pc = "SetParams" /\ DiffSound /\ TypeOK /\ UNCHANGED file
  BY DEF SetParams, IInv
<1>2. PICK W \in SUBSET DOMAIN setParams :
        ssm' = [k \in DOMAIN ssm \cup W |-> IF k \in W THEN setParams[k] ELSE ssm[k]]
  BY DEF SetParams
<1>3. SUFFICES ASSUME file # Corrupt, NEW k \in DOMAIN file PROVE FileEntry(k)'
  BY <1>1 DEF FileInv
<1>4. PICK r \in Regions, t \in Templates :
        /\ k = SK(r, t) \/ k = TK(r, t)
        /\ SK(r, t) \in DOMAIN ssm
        /\ file[k] = ssm[SK(r, t)]
  BY <1>3 DEF FileInv, FileEntry
<1>5. SK(r, t) \notin W
  BY <1>1, SourceUntouched
<1>. QED  BY <1>1, <1>2, <1>4, <1>5 DEF FileEntry

(* combine_parameters, when it does not panic, adds for a persisted entry  *)
(* the target key of the same template, from the sound write-set.          *)
LEMMA CombineFileInv ==
    ASSUME IInv, FileInv, pc = "WriteFile", file # Corrupt,
           ~CombinePanics(file, setParams), UNCHANGED ssm,
           file' = CombineParameters(file, setParams)
    PROVE  FileInv'
<1>1. DiffSound /\ TypeOK
  BY DEF IInv
<1>2. SUFFICES ASSUME NEW k \in DOMAIN file' PROVE FileEntry(k)'
  BY DEF FileInv
<1>3. CASE k \in DOMAIN file
  BY <1>3 DEF FileInv, FileEntry, CombineParameters
<1>4. CASE k \notin DOMAIN file
  <2>1. PICK k0 \in DOMAIN file : k = Promoted(k0) /\ file'[k] = setParams[k]
    BY <1>4 DEF CombineParameters
  <2>2. k0[2] \in DOMAIN SourceTargetMap /\ Promoted(k0) \in DOMAIN setParams
    BY <2>1 DEF CombinePanics
  <2>3. PICK r \in Regions, t \in Templates : k0 = SK(r, t) \/ k0 = TK(r, t)
    BY DEF FileInv, FileEntry
  <2>4. PICK t1 \in Templates : k0[2] = Render(t1, Src)
    BY <2>2 DEF SourceTargetMap, Range, SourceParameterMap
  <2>5. t1 = t
    BY <2>3, <2>4, RenderInjective DEF SK, TK
  <2>6. k0 = SK(r, t) /\ k = TK(r, t)
    BY <2>1, <2>3, <2>4, <2>5, PromotedValue DEF SK, TK
  <2>7. PICK r2 \in regions, t2 \in Templates : TK(r, t) = TK(r2, t2)
    BY <1>1, <2>1, <2>2, <2>6, TargetKeysForm DEF DiffSound
  <2>8. r \in regions
    BY <2>7, KeyInjective DEF TK
  <2>9. SK(r, t) \in DOMAIN ssm /\ setParams[TK(r, t)] = ssm[SK(r, t)]
    BY <1>1, <2>1, <2>2, <2>6, <2>8 DEF DiffSound
  <2>. QED  BY <2>1, <2>6, <2>9 DEF FileEntry
<1>. QED  BY <1>3, <1>4

LEMMA NextFileInv == IInv /\ FileInv /\ [Next]_vars => FileInv'
<1>. SUFFICES ASSUME IInv, FileInv, [Next]_vars PROVE FileInv'  OBVIOUS
<1>1. CASE SetParams
  BY <1>1, SetParamsFileInv
<1>2. CASE WriteFile
  <2>1. pc = "WriteFile" /\ UNCHANGED ssm
    BY <1>2 DEF WriteFile
  <2>2. CASE UNCHANGED file
    BY <2>1, <2>2 DEF FileInv, FileEntry
  <2>3. CASE file' = Corrupt
    BY <2>3 DEF FileInv
  <2>4. CASE /\ file # Corrupt /\ ~CombinePanics(file, setParams)
             /\ file' = CombineParameters(file, setParams)
    BY <2>1, <2>4, CombineFileInv
  <2>. QED  BY <1>2, <2>2, <2>3, <2>4 DEF WriteFile
<1>3. CASE ~SetParams /\ ~WriteFile
  <2>1. UNCHANGED <<ssm, file>>
    BY <1>3 DEF Next, vars, Start, FetchSource, FetchTarget, ValidateParams
  <2>. QED  BY <2>1 DEF FileInv, FileEntry
<1>. QED  BY <1>1, <1>2, <1>3

(* The output file of promote-ssm never disagrees with the store: whatever *)
(* invocations ran, failed or crashed mid-rewrite, each entry of a readable *)
(* file holds the store's value of its source parameter                    *)
(* (write_rendered_parameters and combine_parameters, mod.rs).             *)
THEOREM FileMatchesStoreHolds == Spec => []FileMatchesStore
<1>1. FileInv => FileMatchesStore
  <2>. SUFFICES ASSUME FileInv, file # Corrupt, NEW k \in DOMAIN file
                PROVE  \E t \in Templates :
                          LET sk == <<k[1], Render(t, Src)>>
                          IN  /\ k[2] \in {Render(t, Src), Render(t, Tgt)}
                              /\ sk \in DOMAIN ssm
                              /\ file[k] = ssm[sk]
    BY DEF FileMatchesStore
  <2>1. PICK r \in Regions, t \in Templates :
          /\ k = SK(r, t) \/ k = TK(r, t)
          /\ SK(r, t) \in DOMAIN ssm
          /\ file[k] = ssm[SK(r, t)]
    BY DEF FileInv, FileEntry
  <2>. QED  BY <2>1 DEF SK, TK
<1>2. IInv /\ FileInv /\ [Next]_vars => (IInv /\ FileInv)'
  BY NextIInv, NextFileInv
<1>. QED  BY <1>1, <1>2, InitIInv, InitFileInv, PTL DEF Spec

=============================================================================

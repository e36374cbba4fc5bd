----------------------------- MODULE MCServices -----------------------------
(* Constants for TLC: Services. *)
EXTENDS Services, TLC

CONSTANTS r1, r2, r3, p1, p2, p3, model, prompt, fresh, A, B, C

TwoRuns == {r1, r2}
ThreeRuns == {r1, r2, r3}
TheFirst == {r1}

ThreeProcs == {p1, p2, p3}
Versions == (p1 :> 2) @@ (p2 :> 3) @@ (p3 :> 3)
OneModel == {model}
TwoPrompts == {prompt, fresh}
EditedPrompt == {prompt}

\* Version 2 corrects the model and does not know the legacy version's fresh prompt, which is
\* another's in 3; 3 corrects them all.
Texts(m, p, f) == (model :> m) @@ (prompt :> p) @@ (fresh :> f)
Catalogs == <<Texts(A, A, A), Texts(B, A, Absent), Texts(C, B, C)>>

\* The second file of the slug all is numbered 2, as is another file's name; the last one's id
\* is the third one's name; and one is called "all".  A second all.png is saved as all-2.png.
FourFiles == {1, 2, 3, 4}
Names == <<"all-2.png", "all.jpg", "all.png", "all.png.jpg">>
Slugs == <<"all-2", "all", "all", "all.png">>
All == "all"
Numbers == [s \in {"all-2", "all", "all.png"}, n \in 2 .. 3 |->
              IF s = "all" /\ n = 2 THEN "all-2" ELSE "other"]
Folders == {{}, {2, 3}, {3, 4}, {1, 2, 3}, FourFiles}
Spellings == <<<<1>>, <<2>>, <<3, 1>>, <<4>>>>
Batches == {<<2>>, <<3>>, <<3, 2>>}

TwoIds == {1, 2}

\* The jobs of two files, prompts and models that have failed: three of one input, or one each.
TwoSources == {1, 2}
TwoWordings == {"p1", "p2"}
TwoEngines == {"m1", "m2"}
OneThenTwo == <<1, 2>>
ThreeContents == {<<1, 1>>, <<2, 2>>, <<3>>}
AllWell == [k \in TwoSources \X TwoWordings \X TwoEngines |-> 0]
TwoFailures == {[AllWell EXCEPT ![<<1, "p1", "m1">>] = 2, ![<<2, "p1", "m2">>] = 1],
                [AllWell EXCEPT ![<<1, "p1", "m1">>] = 1, ![<<1, "p2", "m1">>] = 1,
                                ![<<1, "p1", "m2">>] = 1]}

TwoStored == {1, 2}
OneElsewhere == {1}

\* Two outputs of jobs, then what is made for the archive: a page that packs well, and one that
\* does not.
FourEntries == <<[file |-> TRUE], [file |-> TRUE], [size |-> 2, packed |-> 1],
                 [size |-> 1, packed |-> 2]>>
UpToTwo == {0, 1, 2}

TwoThemes == {"light", "dark"}

\* Two processes of one version are alike (ConfigStore).
Alike == Permutations({p2, p3})
=============================================================================

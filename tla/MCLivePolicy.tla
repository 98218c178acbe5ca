---------------------------- MODULE MCLivePolicy ----------------------------
(***************************************************************************)
(* Two users who share a display name.  At first there is one policy, for  *)
(* that name; one of the users may get a policy of its own.                *)
(***************************************************************************)
EXTENDS LivePolicy

CONSTANTS ann, ben, annId, benId, sharedName, annFile, benFile, nameFile,
          tablet, phone, strict, lax

mcIdOf == [u \in {ann, ben} |-> IF u = ann THEN annId ELSE benId]
mcNameOf == [u \in {ann, ben} |-> sharedName]
mcSlugOf == [k \in {annId, benId, sharedName} |->
                IF k = annId THEN annFile ELSE IF k = benId THEN benFile ELSE nameFile]

For(user, rules) == [user |-> user, rules |-> rules]
mcFirstDisk == [f \in {annFile, benFile, nameFile} |->
                  IF f = nameFile THEN For(sharedName, lax) ELSE None]

mcOwner == [c \in {tablet, phone} |-> IF c = tablet THEN ann ELSE ben]
mcSameOwner == [c \in {tablet, phone} |-> ann]

\* The panel edits a user by id; the API also takes a name.
mcPanelEdits == {<<annId, For(annId, strict)>>}
\* A policy written for a name may be turned into one for an id, and one may be
\* sent under the key of another user.
mcConvertingEdits == {<<sharedName, For(annId, lax)>>, <<benId, For(annId, strict)>>}
mcHandEdits == {None}
=============================================================================

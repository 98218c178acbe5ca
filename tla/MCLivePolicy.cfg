SPECIFICATION FairSpec
CONSTANTS
    ann = ann
    ben = ben
    annId = annId
    benId = benId
    sharedName = sharedName
    annFile = annFile
    benFile = benFile
    nameFile = nameFile
    tablet = tablet
    phone = phone
    strict = strict
    lax = lax
    Users = {ann, ben}
    IdOf <- mcIdOf
    NameOf <- mcNameOf
    Keys = {annId, benId, sharedName}
    Files = {annFile, benFile, nameFile}
    SlugOf <- mcSlugOf
    Rules = {strict, lax}
    Edits <- mcConvertingEdits
    HandEdits <- mcHandEdits
    FirstDisk <- mcFirstDisk
    Conns = {tablet, phone}
    Owner <- mcOwner
    Admins = {1, 2}
    None = None
CHECK_DEADLOCK FALSE
INVARIANT TypeOK
INVARIANT OutdatedIsDoomed
INVARIANT StoreLoads
PROPERTY RevokeTakesEffect

SPECIFICATION Spec
CONSTANTS
    s1 = s1  s2 = s2  sa = sa  bob = bob
    keySa = keySa  keyBob = keyBob  pw1 = pw1
    p = p  P = P  q = q  keyP = keyP  keyQ = keyQ  t1 = t1  t2 = t2
    Servers <- OneServer
    Uids <- SaAndBob
    UidKeys <- KeysOfIds
    UidKey <- KeyOfId
    Pws <- OnePw
    NoPw = NoPw
    Names <- Spelled
    NameKeys <- KeysOfNames
    NameKey <- KeyOfName
    SA <- sa
    SAPw <- pw1
    WebUsers <- SentUsers
    WebPerms <- SentPerms
    MaxFailures = 1
    Texts <- TwoTexts
    NoText = NoText
    Grantees <- JustBob
INVARIANTS CacheCurrent RunsAuthorised
PROPERTY ImplementsCatalog
SYMMETRY TextSymmetry

SPECIFICATION UsersSpec
CONSTANTS
    s1 = s1  s2 = s2  sa = sa  bob = bob  Bob = Bob
    keySa = keySa  keyBob = keyBob  pw1 = pw1  pw2 = pw2  p = p
    Servers <- TwoServers
    Uids <- AllUids
    UidKeys <- AllKeys
    UidKey <- KeyOf
    Pws <- BothPws
    NoPw = NoPw
    Names <- OneName
    NameKeys <- OneName
    NameKey <- SameName
    SA <- sa
    SAPw <- pw1
    WebUsers <- SentUsers
    WebPerms <- SentPerms
    MaxFailures = 2
INVARIANTS PermsBacked GrantsHonoured LogonsBacked PasswordsAgree
SYMMETRY Symmetry

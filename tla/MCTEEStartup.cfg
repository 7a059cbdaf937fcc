\* Every file, every content of the secrets, two rotations of the credentials.
CONSTANTS
    Files <- MCFiles
    AxalSecrets <- MCAxal
    PrivySecrets <- MCPrivy
    MaxRotations = 2
SPECIFICATION Spec
INVARIANTS TypeOK ServedConfig NoConnectionLeft
 

SPECIFICATION Spec
CONSTANTS
    Server = Server
    Minters = {m1}
    Requests = {q1, q2}
    Passwords = {NoPassword, pw}
    NoPassword = NoPassword
    ServerPassword = pw
    Boots = {"main"}
    Paths = {server_key, pkd_server_key}
    ServerPath = server_key
    Files <- MCFiles
    Tables = {"absent", "plain", "unique"}
    Early = {TRUE, FALSE}
    MaxKeys = 2
    MaxPairs = 3
INVARIANT TokenAuthWorks
CHECK_DEADLOCK FALSE

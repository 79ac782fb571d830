\* Expected to fail: a tunnel gives its slot back when it begins.
SPECIFICATION Spec
CONSTANTS
    web1 = web1  web2 = web2  sh1 = sh1  sh2 = sh2  tun1 = tun1  ftp1 = ftp1
    Web <- NoConn
    Shell <- OneShell
    Tunnel <- OneTunnel
    Sftp <- NoConn
    Limit = 1
    MaxFailures = 0
INVARIANT TargetsLimited

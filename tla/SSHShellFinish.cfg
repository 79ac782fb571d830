\* Expected to fail: the finishing update is sent with the client's context.
SPECIFICATION Spec
CONSTANTS
    web1 = web1  web2 = web2  sh1 = sh1  sh2 = sh2  tun1 = tun1  ftp1 = ftp1
    Web <- NoConn
    Shell <- OneShell
    Tunnel <- NoConn
    Sftp <- NoConn
    Limit = 1
    MaxFailures = 0
INVARIANT ShellFinished

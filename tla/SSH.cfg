\* Two handlers at a time: web terminals, shells, a tunnel and an sftp client.
SPECIFICATION FairSpec
CONSTANTS
    web1 = web1  web2 = web2  sh1 = sh1  sh2 = sh2  tun1 = tun1  ftp1 = ftp1
    Web <- TwoWebs
    Shell <- TwoShells
    Tunnel <- OneTunnel
    Sftp <- OneSftp
    Limit = 1
    MaxFailures = 1
CONSTRAINT Grouped
INVARIANTS SlotsBalanced EndedIsFinished WebRecordingComplete
PROPERTY EndsReachTarget

----------------------------- MODULE MCSSHProxy -----------------------------
(* Instances of SSHProxy for TLC. *)
EXTENDS SSHProxy, TLC

CONSTANTS web1, web2, sh1, sh2, tun1, ftp1

NoConn == {}
TwoWebs == {web1, web2}
OneShell == {sh1}
TwoShells == {sh1, sh2}
OneTunnel == {tun1}
OneSftp == {ftp1}

\* Web terminals share no limiter with the others, and sftp uses none: groups
\* of connections that compete, run one group at a time.
Groups == {{web1, web2}, {sh1, sh2}, {sh1, tun1}, {web1, ftp1}}

Grouped == \E g \in Groups : \A c \in Conns \ g : pc[c] = "idle"
=============================================================================

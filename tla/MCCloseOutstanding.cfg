SPECIFICATION ClientSpec
CONSTANTS
  k1 = k1
  c1 = c1
  c2 = c2
  s1 = s1
  s2 = s2
  f1 = f1
  d1 = d1
  a1 = a1
  a2 = a2
  SSHKeyID = {k1}
  SSHChannelID = {c1, c2}
  SFTPClientID = {s1, s2}
  SFTPFileID = {f1}
  SFTPDirectoryID = {d1}
  SFTPAioID = {a1, a2}
  sftpId <- MCsftpId
  fileId <- MCfileId
SYMMETRY Symmetry
INVARIANT FileClosedAfterItsReads
CHECK_DEADLOCK FALSE

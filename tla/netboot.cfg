SPECIFICATION Spec
CONSTANTS
  a = a
  b = b
  g = g
  None = None
  Sector = 2
  Top = 12
  Ram <- MCRam
  InitrdStart = 8
  S_RAMDISK = 2
  RX_RING = 2
  Hosts = {a, b, g}
  Remote = {b}
  Replies <- MCReplies
  Kernels <- MCKernels
  MaxPhdrs = 4
  PaddrMod = 16
  ExtSize = 1
  DefSize = 2
  OackSizes = {1, 3}
  BlockMod = 4
  MAX_BOOTP_RETRIES = 2
  MAX_ARP_RETRIES = 2
  MAX_TFTP_RETRIES = 1
  MaxSessions = 2
  MaxWire = 1
INVARIANTS
  AddressGranted
  FileInOrder
  KernelWhole
PROPERTY
  EtherbootEnds
CHECK_DEADLOCK FALSE

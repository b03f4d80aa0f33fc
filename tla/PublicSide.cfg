SPECIFICATION Spec
CONSTANTS
  alpha = alpha
  beta = beta
  nobody = nobody
  g1 = g1
  g2 = g2
  Users <- MCUsers
  Builders = {alpha, beta}
  NoBuilder = nobody
  Societies = {1}
  BuilderOf <- MCBuilderOf
  Staff <- MCStaff
  Guests = {g1}
  EnquiryIds = {1, 2}
  NoEnquiry = NoEnquiry
  Progress = {"new", "contacted"}
  MaxEnquiries = 1
  Window = 1
  MaxKeys = 0
  BoardLimit = 1
  PostIds = {1, 2}
  NoPost = NoPost
  MaxPhotos = 1
  FeedLimit = 1
  Never = Never
  MaxTime = 1
CONSTRAINT OnePageAtATime
INVARIANTS
  EnquiryBudgetKept
  TotalCovers
  PostsAreWhole
  DraftsStayIn
PROPERTIES
  FeedMovesOn
